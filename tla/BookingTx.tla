------------------------------ MODULE BookingTx ------------------------------
(***************************************************************************)
(* The booking use-cases of usecases/*.py as concurrent transactions over  *)
(* the PostgreSQL repository of adapters/sqlalchemy_repo.py, one action    *)
(* per statement.  FastAPI runs every route in a thread pool with a        *)
(* session of its own, so statements of different requests interleave;     *)
(* the isolation level is the default, READ COMMITTED.                     *)
(*                                                                         *)
(* Requests are numbered in the order in which they arrive, and a booking  *)
(* is named by the request that inserted it: its id is a fresh uuid, whose *)
(* place in the primary-key order (Rank) says nothing about its age.       *)
(***************************************************************************)
EXTENDS BookingRow, Integers, FiniteSets

CONSTANTS
    Req,            \* the HTTP requests, and the ids of the bookings they insert
    Rank,           \* where each id stands in the primary-key order
    Threads,        \* how many requests are served at a time
    MayFail,        \* requests whose connection or process may die
    Calls,          \* what a client may ask for, a set of Call records
    Trip, Seat, Class, Passenger, Ref,
    Reserved,       \* the seats in reserved coaches
    ClassOf,        \* the travel class of each seat
    Station,        \* sequence numbers of the route's stations
    Stop,           \* Stop[t]: the stations trip t calls at
    NoCall, NoRow, NoRef,
    HoldTTL, SeatCap, VelocityWindow, VelocityLimit, StandingCap,
    Suspects,       \* the <<recent, fan-out>> pairs the abuse score flags
    MaxNow          \* bound on the clock

Op == {"hold", "sell", "confirm", "cancel", "browse", "verify"}

Call == [op : Op, trip : Trip, seat : Seat \cup {NoSeat},
         leg : {l \in [origin : Nat, dest : Nat] : IsLeg(l)}, class : Class,
         who : Passenger, ref : Ref \cup Req \cup {NoRef}, target : Req]

\* The columns of a booking row that no statement updates (orm.BookingRow).
Row == [trip : Trip, seat : Seat \cup {NoSeat},
        leg : {l \in [origin : Nat, dest : Nat] : IsLeg(l)}, class : Class,
        who : Passenger, ref : Ref \cup Req, until : Nat, created : Nat]

ASSUME ReqAssumption == Req \subseteq Nat /\ IsFiniteSet(Req)
ASSUME RankAssumption ==
    Rank \in [Req -> Nat] /\ \A b, c \in Req : Rank[b] = Rank[c] => b = c
ASSUME CallsAssumption == Calls \subseteq Call /\ NoCall \notin Calls
ASSUME SeatAssumption ==
    Seat \subseteq Nat \ {NoSeat} /\ Reserved \subseteq Seat /\ ClassOf \in [Seat -> Class]
ASSUME NoneAssumption == NoRow \notin Row /\ NoRef \notin Ref \cup Req
ASSUME LimitAssumption ==
    /\ {HoldTTL, SeatCap, VelocityWindow, VelocityLimit, StandingCap, MaxNow} \subseteq Nat
    /\ Threads \in Nat \ {0}
    /\ MayFail \subseteq Req

VARIABLES
    now,        \* the system clock
    status,     \* committed status of each booking, Absent before its insert commits
    row,        \* its immutable columns, as last inserted
    pend,       \* pend[r][b]: r's uncommitted status of booking b
    pc,         \* the statement request r executes next
    req,        \* what request r asks for
    t0,         \* the clock value r works with
    due,        \* lapsed holds r has selected and not yet written
    unread,     \* counter sale: the pool seats r has not looked at
    free,       \* counter sale: the seats r found free, then the one chosen
    got,        \* confirm, cancel: the status r has read
    charged,    \* requests whose payment went through
    announced,  \* requests that have published their availability event
    answer      \* the outcome r reported

vars == <<now, status, row, pend, pc, req, t0, due, unread, free, got,
          charged, announced, answer>>

Answers == {"none", "ok", "replay", "invalid", "unbookable", "capped", "velocity",
            "suspect", "full", "notfound", "illegal", "declined", "overlap",
            "receipt", "error"}

Phase == {"new", "lookup", "validate", "select", "expire", "admit", "scan", "count",
          "charge", "insert", "get", "write", "check", "view", "commit", "done"}

NoWrites == [b \in Req |-> Absent]

TypeOK ==
    /\ now \in Nat
    /\ status \in [Req -> BStatus \cup {Absent}]
    /\ row \in [Req -> Row \cup {NoRow}]
    /\ pend \in [Req -> [Req -> BStatus \cup {Absent}]]
    /\ pc \in [Req -> Phase]
    /\ req \in [Req -> Calls \cup {NoCall}]
    /\ t0 \in [Req -> Nat]
    /\ due \in [Req -> SUBSET Req]
    /\ unread \in [Req -> SUBSET Seat]
    /\ free \in [Req -> SUBSET Seat]
    /\ got \in [Req -> BStatus \cup {Absent}]
    /\ charged \subseteq Req
    /\ announced \subseteq Req
    /\ answer \in [Req -> Answers]

-----------------------------------------------------------------------------
(* What a transaction sees and what it waits for.                          *)

\* READ COMMITTED: the committed status, or the transaction's own write.
Seen(r, b) == IF pend[r][b] # Absent THEN pend[r][b] ELSE status[b]

\* The transactions other than r that hold the row lock of booking b.
Lockers(r, b) == {t \in Req \ {r} : pend[t][b] # Absent}

\* Fault: a constraint scoped to status HELD alone.
TakenHeldOnly(r, b) ==
    \E c \in Req \ {b} : /\ Seen(r, c) = "HELD"
                         /\ Lockers(r, c) = {}
                         /\ Clash(row[b], row[c])

\* The exclusion check meets an active version it can see.
Taken(r, b) ==
    \E c \in Req \ {b} : /\ Seen(r, c) \in Active
                         /\ Lockers(r, c) = {}
                         /\ Clash(row[b], row[c])

\* The transactions the check must wait for: a version of theirs, or one they
\* have overwritten, is in conflict and its fate is not known yet.
InDoubt(r, b) ==
    {t \in Req \ {r} : \E c \in Req \ {b} :
        /\ pend[t][c] # Absent
        /\ status[c] \in Active \/ pend[t][c] \in Active
        /\ Clash(row[b], row[c])}

Open == {r \in Req : pc[r] \notin {"new", "done"}}

\* The booking a request is about.
Subject(r) == IF req[r].op \in {"hold", "sell"} THEN r ELSE req[r].target

\* expire_due flushes its updates in primary-key order: the one whose turn it is.
NextDue(r) == {b \in due[r] : \A c \in due[r] : Rank[b] <= Rank[c]}

\* The transactions that keep r's next statement from completing.
WaitsFor(r) ==
    CASE pc[r] = "expire" -> UNION {Lockers(r, b) : b \in NextDue(r)}
      [] pc[r] = "write"  -> Lockers(r, Subject(r))
      [] pc[r] = "check" /\ ~Taken(r, Subject(r)) -> InDoubt(r, Subject(r))
      [] OTHER -> {}

\* Every one of them waits for another one of them.
Deadlocked ==
    UNION {S \in SUBSET Open : \A r \in S : WaitsFor(r) \cap S # {}}

-----------------------------------------------------------------------------
(* Ends of a transaction.                                                  *)

\* Fault: the session is not closed and its row locks stay.
LeakSession(r) == UNCHANGED pend

\* The session is closed; what it wrote and the row locks go with it.
CloseSession(r) == pend' = [pend EXCEPT ![r] = NoWrites]

\* The request is over; its session and its locals are gone.
End(r, why) ==
    /\ pc' = [pc EXCEPT ![r] = "done"]
    /\ answer' = [answer EXCEPT ![r] = why]
    /\ CloseSession(r)
    /\ due' = [due EXCEPT ![r] = {}]
    /\ unread' = [unread EXCEPT ![r] = {}]
    /\ free' = [free EXCEPT ![r] = {}]
    /\ got' = [got EXCEPT ![r] = Absent]
    /\ t0' = [t0 EXCEPT ![r] = 0]
    /\ UNCHANGED <<now, row, req, charged, announced>>

\* Fault: leaving the unit of work by an exception commits it.
RollbackKeepsWrites(r, why) == End(r, why) /\ status' = [b \in Req |-> Seen(r, b)]

\* UnitOfWork.__exit__ without commit: everything written is rolled back.
Rollback(r, why) == End(r, why) /\ UNCHANGED status

\* r goes on to its next statement.
Goto(r, phase) == pc' = [pc EXCEPT ![r] = phase]

\* r is at the given statement.
At(r, phase) == pc[r] = phase

-----------------------------------------------------------------------------
(* Statements.                                                             *)

Init ==
    /\ now = 0
    /\ status = [b \in Req |-> Absent]
    /\ row = [b \in Req |-> NoRow]
    /\ pend = [r \in Req |-> NoWrites]
    /\ pc = [r \in Req |-> "new"]
    /\ req = [r \in Req |-> NoCall]
    /\ t0 = [r \in Req |-> 0]
    /\ due = [r \in Req |-> {}]
    /\ unread = [r \in Req |-> {}]
    /\ free = [r \in Req |-> {}]
    /\ got = [r \in Req |-> Absent]
    /\ charged = {}
    /\ announced = {}
    /\ answer = [r \in Req |-> "none"]

Tick ==
    /\ now < MaxNow
    /\ now' = now + 1
    /\ UNCHANGED <<status, row, pend, pc, req, t0, due, unread, free, got,
                   charged, announced, answer>>

\* Fault: holds and sales do not retire lapsed holds first.
FirstPhaseNoExpiry(c) ==
    CASE c.op \in {"hold", "sell"} -> "admit"
      [] c.op = "cancel" -> "get"
      [] c.op = "browse" -> "validate"
      [] OTHER -> "select"

\* Where a use-case begins: a given reference is looked up first (hold, sell),
\* cancel does not retire lapsed holds, browse validates its leg first.
FirstPhase(c) ==
    CASE c.op \in {"hold", "sell"} /\ c.ref # NoRef -> "lookup"
      [] c.op = "cancel" -> "get"
      [] c.op = "browse" -> "validate"
      [] OTHER -> "select"

\* Where it goes on once lapsed holds are retired.
AfterExpiry(r) ==
    CASE req[r].op \in {"hold", "sell"} -> "admit"
      [] req[r].op = "confirm" -> "get"
      [] OTHER -> "view"

\* A request arrives and a worker thread takes it; hold, sell, confirm and verify read
\* the clock first of all.  A reference that is made up for a booking is a fresh uuid:
\* nobody can name it before the request that makes it up has been answered.
Begin(r, c) ==
    /\ At(r, "new")
    /\ \A u \in Req : u < r => ~At(u, "new")
    /\ c.ref \in Req => At(c.ref, "done")
    /\ Cardinality(Open) < Threads
    /\ req' = [req EXCEPT ![r] = c]
    /\ t0' = [t0 EXCEPT ![r] = now]
    /\ Goto(r, FirstPhase(c))
    /\ UNCHANGED <<now, status, row, pend, due, unread, free, got, charged,
                   announced, answer>>

\* Fault: only the bookings that occupy a seat are looked up.
WithReferenceActive(r) ==
    {b \in Req : Seen(r, b) \in Active /\ row[b].ref = req[r].ref}

\* by_reference: the bookings a reference names.
WithReference(r) ==
    {b \in Req : Seen(r, b) # Absent /\ row[b].ref = req[r].ref}

\* Fault: the destination is taken for the last station the train leaves.
ServedBeyond(trip, l) == l.origin \in Stop[trip] /\ l.dest + 1 \in Stop[trip]

\* leg_times serves the leg: the train calls at both its ends.
Served(trip, l) == l.origin \in Stop[trip] /\ l.dest \in Stop[trip]

\* receipt_for booking b: it raises InvalidLeg for a leg between stations the train
\* passes through.
ReceiptFor(b, why) == IF Served(row[b].trip, row[b].leg) THEN why ELSE "receipt"

\* A known reference is answered with a booking it names, at the counter with that
\* booking's receipt.
Lookup(r) ==
    /\ At(r, "lookup")
    /\ \/ \E b \in WithReference(r) :
            Rollback(r, IF req[r].op = "sell" THEN ReceiptFor(b, "replay") ELSE "replay")
       \/ /\ WithReference(r) = {}
          /\ Goto(r, "select")
          /\ UNCHANGED <<now, status, row, pend, req, t0, due, unread, free, got,
                         charged, announced, answer>>

\* validate_leg: both ends are stations of the route.
ValidLeg(l) == l.origin \in Station /\ l.dest \in Station

\* leg_availability refuses a bad leg before it reads the clock or touches a booking.
Validate(r) ==
    /\ At(r, "validate")
    /\ \/ ~ValidLeg(req[r].leg) /\ Rollback(r, "invalid")
       \/ /\ ValidLeg(req[r].leg)
          /\ t0' = [t0 EXCEPT ![r] = now]
          /\ Goto(r, "select")
          /\ UNCHANGED <<now, status, row, pend, req, due, unread, free, got,
                         charged, announced, answer>>

\* Fault: counted from the wrong column.
LapsedByCreation(r) == {b \in Req : Seen(r, b) = "HELD" /\ row[b].created <= t0[r]}

\* Fault: the status filter is missing.
LapsedAnyStatus(r) == {b \in Req : Seen(r, b) # Absent /\ row[b].until <= t0[r]}

\* The SELECT of expire_due: every hold whose time is over, on any trip.
Lapsed(r) == {b \in Req : Seen(r, b) = "HELD" /\ row[b].until <= t0[r]}

SelectDue(r) ==
    /\ At(r, "select")
    /\ due' = [due EXCEPT ![r] = Lapsed(r)]
    /\ Goto(r, IF Lapsed(r) = {} THEN AfterExpiry(r) ELSE "expire")
    /\ UNCHANGED <<now, status, row, pend, req, t0, unread, free, got, charged,
                   announced, answer>>

\* One UPDATE of its flush.  The WHERE clause names the primary key only: the
\* status the row has by now is overwritten, whatever it is.
ExpireRow(r) ==
    /\ At(r, "expire")
    /\ WaitsFor(r) = {}
    /\ \E b \in NextDue(r) :
        /\ pend' = [pend EXCEPT ![r][b] = "EXPIRED"]
        /\ due' = [due EXCEPT ![r] = @ \ {b}]
        /\ Goto(r, IF due[r] = {b} THEN AfterExpiry(r) ELSE "expire")
    /\ UNCHANGED <<now, status, row, req, t0, unread, free, got, charged,
                   announced, answer>>

\* The seats a counter sale may assign.
Pool(r) == {s \in Seat \ Reserved : ClassOf[s] = req[r].class}

\* active_for_passenger: what the passenger has on this trip.
ActiveOf(r) ==
    {b \in Req : /\ Seen(r, b) \in Active
                 /\ row[b].trip = req[r].trip /\ row[b].who = req[r].who}

\* Those of them booked within the velocity window.
RecentOf(r) == {b \in ActiveOf(r) : row[b].created > t0[r] - VelocityWindow}

\* Fault: the seat that reaches the cap is one too many.
CappedLate(r) == Cardinality(ActiveOf(r)) > SeatCap

\* The passenger has as many seats as the cap allows.
Capped(r) == Cardinality(ActiveOf(r)) >= SeatCap

\* Why hold_seat or sell_unreserved may refuse before reserving anything.
Refusals(r) ==
    LET recent == Cardinality(RecentOf(r))
        fanout == Cardinality({row[b].seat : b \in ActiveOf(r)})
    IN  {why \in {"invalid", "unbookable", "capped", "velocity", "suspect"} :
          \/ why = "invalid" /\ ~ValidLeg(req[r].leg)
          \/ why = "unbookable" /\ req[r].op = "hold" /\ req[r].seat \notin Reserved
          \/ why = "unbookable" /\ req[r].op = "sell" /\ Pool(r) = {}
          \/ why = "capped" /\ Capped(r)
          \/ why = "velocity" /\ recent >= VelocityLimit
          \/ why = "suspect" /\ <<recent, fanout>> \in Suspects}

\* The order of the checks: the counter looks for a coach of the class last.
Turn(r) == [invalid |-> 1, unbookable |-> IF req[r].op = "hold" THEN 2 ELSE 6,
            capped |-> 3, velocity |-> 4, suspect |-> 5]

\* validate_leg, the seat or pool check and enforce_anti_tout, around its one query.
Admit(r) ==
    /\ At(r, "admit")
    /\ \/ \E why \in Refusals(r) :
            /\ \A other \in Refusals(r) : Turn(r)[why] <= Turn(r)[other]
            /\ Rollback(r, why)
       \/ /\ Refusals(r) = {}
          /\ unread' = [unread EXCEPT ![r] = IF req[r].op = "sell" THEN Pool(r) ELSE {}]
          /\ Goto(r, IF req[r].op = "sell" THEN "scan" ELSE "insert")
          /\ UNCHANGED <<now, status, row, pend, req, t0, due, free, got, charged,
                         announced, answer>>

\* active_for_seat finds nothing in the way on seat s.
SeatLooksFree(r, s) ==
    \A b \in Req : ~ /\ Seen(r, b) \in Active
                     /\ row[b].trip = req[r].trip /\ row[b].seat = s
                     /\ Overlaps(row[b].leg, req[r].leg)

\* One query per pool seat, in seat order; after the last, choose_seat takes one
\* of the seats found free: which one is the business of domain/packing.py.
ScanSeat(r) ==
    /\ At(r, "scan")
    /\ \E s \in unread[r] :
        /\ \A u \in unread[r] : s <= u
        /\ LET found == free[r] \cup (IF SeatLooksFree(r, s) THEN {s} ELSE {})
           IN  IF unread[r] # {s}
               THEN free' = [free EXCEPT ![r] = found] /\ UNCHANGED pc
               ELSE \/ /\ found = {}
                       /\ Goto(r, "count")
                       /\ UNCHANGED free
                    \/ \E chosen \in found :
                       /\ free' = [free EXCEPT ![r] = {chosen}]
                       /\ Goto(r, "charge")
        /\ unread' = [unread EXCEPT ![r] = @ \ {s}]
    /\ UNCHANGED <<now, status, row, pend, req, t0, due, got, charged, announced, answer>>

\* The standing tickets of this class on this trip.
Standing(r) ==
    {b \in Req : /\ Seen(r, b) = "STANDING"
                 /\ row[b].trip = req[r].trip /\ row[b].class = req[r].class}

\* Fault: the ticket that reaches the capacity is one too many.
FullLate(r) == Cardinality(Standing(r)) > StandingCap

Full(r) == Cardinality(Standing(r)) >= StandingCap

\* _guard_standing_capacity
CountStanding(r) ==
    /\ At(r, "count")
    /\ \/ Full(r) /\ Rollback(r, "full")
       \/ /\ ~Full(r)
          /\ Goto(r, "charge")
          /\ UNCHANGED <<now, status, row, pend, req, t0, due, unread, free, got,
                         charged, announced, answer>>

\* Fault: result.ok is not looked at.
ChargeUnchecked(r) ==
    /\ At(r, "charge")
    /\ charged' \in {charged, charged \cup {r}}
    /\ Goto(r, IF req[r].op = "sell" THEN "insert" ELSE "write")
    /\ UNCHANGED <<now, status, row, pend, req, t0, due, unread, free, got, announced,
                   answer>>

\* payment.charge: money moves, or the gateway declines.
Charge(r) ==
    /\ At(r, "charge")
    /\ \/ Rollback(r, "declined")
       \/ /\ charged' = charged \cup {r}
          /\ Goto(r, IF req[r].op = "sell" THEN "insert" ELSE "write")
          /\ UNCHANGED <<now, status, row, pend, req, t0, due, unread, free, got,
                         announced, answer>>

\* The seat of the new row.
SeatFor(r) ==
    IF req[r].op = "hold" THEN req[r].seat
    ELSE IF free[r] = {} THEN NoSeat ELSE CHOOSE s \in free[r] : TRUE

\* Fault: no reference is made up for a sale or hold that comes without.
NewRowNoReference(r) ==
    [trip |-> req[r].trip, seat |-> SeatFor(r), leg |-> req[r].leg,
     class |-> req[r].class, who |-> req[r].who, ref |-> req[r].ref,
     until |-> IF req[r].op = "hold" THEN t0[r] + HoldTTL ELSE 0,
     created |-> t0[r]]

\* The columns of the new row.  A counter ticket has held_until = 0.
NewRow(r) ==
    [trip |-> req[r].trip, seat |-> SeatFor(r), leg |-> req[r].leg,
     class |-> req[r].class, who |-> req[r].who,
     ref |-> IF req[r].ref = NoRef THEN r ELSE req[r].ref,
     until |-> IF req[r].op = "hold" THEN t0[r] + HoldTTL ELSE 0,
     created |-> t0[r]]

\* Its first status.
NewStatus(r) ==
    IF req[r].op = "hold" THEN "HELD"
    ELSE IF free[r] = {} THEN "STANDING" ELSE "CONFIRMED"

\* add_hold, first half: the row and its index entry are in place, uncommitted.
\* A standing ticket is outside the constraint and has nothing to announce.
Insert(r) ==
    /\ At(r, "insert")
    /\ row' = [row EXCEPT ![r] = NewRow(r)]
    /\ pend' = [pend EXCEPT ![r][r] = NewStatus(r)]
    /\ Goto(r, IF NewStatus(r) \in Active THEN "check" ELSE "commit")
    /\ UNCHANGED <<now, status, req, t0, due, unread, free, got, charged,
                   announced, answer>>

\* What confirm and cancel ask of the status machine.
EventOf(r) == IF req[r].op = "confirm" THEN "CONFIRM" ELSE "CANCEL"

\* bookings.get and the guard apply(...).
Get(r) ==
    /\ At(r, "get")
    /\ LET found == Seen(r, req[r].target)
       IN  \/ found = Absent /\ Rollback(r, "notfound")
           \/ /\ found # Absent /\ ~CanApply(found, EventOf(r))
              /\ Rollback(r, "illegal")
           \/ /\ found # Absent /\ CanApply(found, EventOf(r))
              /\ got' = [got EXCEPT ![r] = found]
              /\ Goto(r, IF req[r].op = "confirm" THEN "charge" ELSE "write")
              /\ UNCHANGED <<now, status, row, pend, req, t0, due, unread, free,
                             charged, announced, answer>>

\* Fault: only a hold that is cancelled is announced.
FreesHeldOnly(r) == got[r] = "HELD"

\* The booking as r read it occupies a seat.
Frees(r) == got[r] \in Active

\* set_status.  The identity map has forgotten the row, so it is read afresh: if it
\* already has the target status nothing is flushed, otherwise one UPDATE by
\* primary key overwrites the status it has by now.
SetStatus(r) ==
    /\ At(r, "write")
    /\ LET b == req[r].target
           target == ApplyEvent(got[r], EventOf(r))
           writes == Seen(r, b) # target
           checks == writes /\ target \in Active
       IN  /\ \/ writes /\ WaitsFor(r) = {} /\ pend' = [pend EXCEPT ![r][b] = target]
              \/ ~writes /\ UNCHANGED pend
           /\ Goto(r, IF checks THEN "check" ELSE "commit")
           /\ announced' = IF ~checks /\ Frees(r)
                           THEN announced \cup {r} ELSE announced
    /\ UNCHANGED <<now, status, row, req, t0, due, unread, free, got, charged, answer>>

\* The exclusion check that ends an INSERT or UPDATE of an active version.  A
\* violation is an OverlapError out of add_hold, an untranslated IntegrityError
\* out of set_status.  When the statement succeeds the event is published.
Check(r) ==
    /\ At(r, "check")
    /\ \/ /\ Taken(r, Subject(r))
          /\ Rollback(r, IF req[r].op = "confirm" THEN "error" ELSE "overlap")
       \/ /\ ~Taken(r, Subject(r))
          /\ WaitsFor(r) = {}
          /\ announced' = announced \cup {r}
          /\ Goto(r, "commit")
          /\ UNCHANGED <<now, status, row, pend, req, t0, due, unread, free, got,
                         charged, answer>>

\* leg_availability reads and commits; verify_ticket needs its reference to exist.
View(r) ==
    /\ At(r, "view")
    /\ \/ req[r].op = "verify" /\ WithReference(r) = {} /\ Rollback(r, "notfound")
       \/ /\ req[r].op = "browse" \/ WithReference(r) # {}
          /\ Goto(r, "commit")
          /\ UNCHANGED <<now, status, row, pend, req, t0, due, unread, free, got,
                         charged, announced, answer>>

\* What the use-case reports after its commit: confirm, sell and verify build a
\* receipt then (verify for whichever row by_reference came upon first).
Outcome(r) ==
    CASE req[r].op \in {"confirm", "sell"} -> {ReceiptFor(Subject(r), "ok")}
      [] req[r].op = "verify" -> {ReceiptFor(b, "ok") : b \in WithReference(r)}
      [] OTHER -> {"ok"}

\* uow.commit.  The answer may be lost with the connection.
Commit(r) ==
    /\ At(r, "commit")
    /\ status' = [b \in Req |-> Seen(r, b)]
    /\ \/ \E why \in Outcome(r) : End(r, why)
       \/ r \in MayFail /\ End(r, "error")

\* PostgreSQL breaks a deadlock by failing one of the statements in it; the driver's
\* error is not an IntegrityError and ends the request.
DeadlockVictim(r) == r \in Deadlocked /\ Rollback(r, "error")

\* The connection or the process dies in mid-transaction.
Fail(r) == r \in MayFail \cap Open /\ Rollback(r, "error")

Step(r) ==
    \/ Lookup(r) \/ Validate(r) \/ SelectDue(r) \/ ExpireRow(r) \/ Admit(r)
    \/ ScanSeat(r) \/ CountStanding(r) \/ Charge(r) \/ Insert(r) \/ Get(r)
    \/ SetStatus(r) \/ Check(r) \/ View(r) \/ Commit(r) \/ DeadlockVictim(r)

Next ==
    \/ Tick
    \/ \E r \in Req : (\E c \in Calls : Begin(r, c)) \/ Step(r) \/ Fail(r)

Spec == Init /\ [][Next]_vars

\* Threads are scheduled and the database answers: a request that can take its next
\* step takes it.  Nothing obliges a client to send a request, time to pass within
\* the bound, or a connection to fail.
FairSpec == Spec /\ \A r \in Req : WF_vars(Step(r))

-----------------------------------------------------------------------------
(* What holds however the transactions interleave.                         *)

\* The one invariant (PLAN D2): no two active bookings share a seat over
\* overlapping legs, for any interleaving of inserts, confirmations of cancelled
\* or lapsed holds, expiry and rollbacks.
NoDoubleSeat ==
    \A b, c \in Req :
        b # c /\ status[b] \in Active /\ status[c] \in Active
            => ~Clash(row[b], row[c])

\* Nobody travels free: a booking is CONFIRMED or STANDING only if some request
\* that was about it got its payment through (confirm_booking, sell_unreserved).
PaidBeforeTicket ==
    \A b \in Req : status[b] \in Paid => \E r \in charged : Subject(r) = b

\* A counter ticket ("a paid ticket never expires") is only ever cancelled, and
\* stays cancelled, although its held_until of 0 is always in the past.
CounterTicketKept ==
    [][\A b \in Req : status[b] # Absent /\ req[b].op = "sell" =>
           \/ status'[b] = status[b]
           \/ status[b] \in Paid /\ status'[b] = "CANCELLED"]_vars

\* expire_due, however late its writes land, never expires a booking before the
\* time it was held until.
NoEarlyExpiry ==
    [][\A b \in Req : status'[b] = "EXPIRED" /\ status[b] # "EXPIRED" =>
           req[b].op = "hold" /\ row[b].until <= now]_vars

\* Every committed change of a seat that a use-case makes on request has been
\* published: the insert, the confirmation and the cancellation of its booking.
ChangeAnnounced ==
    \A b \in Req :
        LET by(op) == \E r \in announced : Subject(r) = b /\ req[r].op = op
        IN  /\ status[b] \in Active => b \in announced
            /\ status[b] = "CONFIRMED" /\ req[b].op = "hold" => by("confirm")
            /\ status[b] = "CANCELLED" /\ row[b].seat # NoSeat => by("cancel")

\* Every request that has begun is answered: none waits for a row lock, an exclusion
\* check or a deadlock for ever.  (There are finitely many requests, so all are
\* answered exactly when a time comes at which none is open.)
EveryRequestAnswered == (Open # {}) ~> (Open = {})

\* The table as the abstract ledger sees it: committed rows only.
Issued == [b \in Req |-> IF status[b] = Absent THEN NoRow ELSE row[b]]

HeldOnce == {b \in Req : status[b] # Absent /\ req[b].op = "hold"}

Ledger == INSTANCE SeatLedger WITH Booking <- Req, row <- Issued, held <- HeldOnce

\* Every commit, in any interleaving, is one transaction of the abstract ledger:
\* atomic, about one booking besides lapsed holds, and clear of the seats taken.
ImplementsLedger == Ledger!Spec

-----------------------------------------------------------------------------
(* What the code promises, and keeps when requests do not interleave.      *)

\* booking_sm: every committed change of status is a transition of the table.
LegalTransitions ==
    [][\A b \in Req :
           \/ status'[b] = status[b]
           \/ status[b] = Absent /\ status'[b] \in {"HELD", "CONFIRMED", "STANDING"}
           \/ \E e \in BEvent : <<status[b], e, status'[b]>> \in Transitions]_vars

\* values.py: "Terminal statuses, no transition leaves them."
TerminalIsFinal ==
    [][\A b \in Req : status[b] \in Terminal => status'[b] = status[b]]_vars

\* _policy.py: "Caps and velocity are hard config limits."
HardCap ==
    \A t \in Trip, p \in Passenger :
        Cardinality({b \in Req : /\ status[b] \in Active
                                 /\ row[b].trip = t /\ row[b].who = p}) <= SeatCap

\* No coach carries more standing passengers of a class than its capacity.
StandingCeiling ==
    \A t \in Trip, c \in Class :
        Cardinality({b \in Req : /\ status[b] = "STANDING"
                                 /\ row[b].trip = t /\ row[b].class = c}) <= StandingCap

\* hold_seat.py: "idempotent replay, no second hold": a reference names one booking.
OneBookingPerReference ==
    \A b, c \in Req :
        b # c /\ status[b] # Absent /\ status[c] # Absent => row[b].ref # row[c].ref

\* A booking is paid for once.
ChargedOnce == \A r, u \in charged : Subject(r) = Subject(u) => r = u

\* confirm_booking.py: "HELD to CONFIRMED, or fail clean": a request that answers
\* with a failure has not taken the money.
FailClean == \A r \in charged : pc[r] = "done" => answer[r] = "ok"

\* PLAN D12: lapsed holds are retired before the insert, so the booking that makes
\* a hold or sale fail with OverlapError is not one of them.
LapsedNeverBlocks ==
    [][\A r \in Req : answer[r] # "overlap" /\ answer'[r] = "overlap" =>
           \E c \in Req : /\ status[c] \in Active
                          /\ status[c] = "HELD" => row[c].until > t0[r]
                          /\ Clash(row[r], row[c])]_vars

\* PLAN D6: "cancel/expire -> segment reopens and the freed leg is pushed to every
\* watching client": a booking that lost its seat has had that announced.
FreedLegPushed ==
    \A b \in Req :
        status[b] \in Terminal /\ row[b].seat # NoSeat =>
            \E r \in announced : Subject(r) = b /\ r # b
=============================================================================
