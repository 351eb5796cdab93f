------------------------- MODULE BookingTxStepProofs -------------------------
(***************************************************************************)
(* What one step of BookingTx may do to the committed table, from the      *)
(* inductive invariant: the action properties NoEarlyExpiry and            *)
(* CounterTicketKept, that every step is one of SeatLedger or none, that   *)
(* what it changes of a seat has been published (ChangeAnnounced), and     *)
(* what may become of a request that has charged (ChargeAnswered).         *)
(***************************************************************************)
EXTENDS BookingTxProofs

\* Only a commit changes what is committed.  A row is only written, and a request only
\* received, before its booking is.
LEMMA OnlyCommits ==
    ASSUME CoreInv, [Next]_vars, ~ \E r \in Req : Commit(r)
    PROVE  /\ UNCHANGED status
           /\ \A b \in Req : status[b] # Absent => row'[b] = row[b] /\ req'[b] = req[b]
           /\ now' = now \/ (now' = now + 1 /\ UNCHANGED <<row, req>>)
<1>1. CASE Tick \/ UNCHANGED vars
    BY <1>1 DEF Tick, vars
<1>2. ASSUME NEW r \in Req, NEW why, Rollback(r, why)
      PROVE  UNCHANGED <<now, status, row, req>>
    BY <1>2 DEF Rollback, End
<1>3. ASSUME NEW r \in Req, NEW c \in Calls, Begin(r, c)
      PROVE  /\ UNCHANGED <<now, status, row>>
             /\ \A b \in Req : status[b] # Absent => req'[b] = req[b]
    BY <1>3 DEF Begin, At, CoreInv, TypeOK, IssuedInv
<1>4. ASSUME NEW r \in Req, Insert(r)
      PROVE  /\ UNCHANGED <<now, status, req>>
             /\ \A b \in Req : status[b] # Absent => row'[b] = row[b]
    BY <1>4 DEF Insert, At, CoreInv, TypeOK, IssuedInv
<1>5. ASSUME NEW r \in Req, Step(r) \/ Fail(r), ~Insert(r)
      PROVE  UNCHANGED <<now, status, row, req>>
  <2>1. CASE DeadlockVictim(r) \/ Fail(r)
    BY <1>2, <2>1 DEF DeadlockVictim, Fail
  <2>2. CASE Lookup(r) \/ Validate(r) \/ Admit(r)
    BY <1>2, <2>2 DEF Lookup, Validate, Admit
  <2>3. CASE SelectDue(r) \/ ExpireRow(r) \/ ScanSeat(r)
    BY <2>3 DEF SelectDue, ExpireRow, ScanSeat
  <2>4. CASE CountStanding(r) \/ Charge(r)
    BY <1>2, <2>4 DEF CountStanding, Charge
  <2>5. CASE Get(r) \/ View(r) \/ Check(r)
    BY <1>2, <2>5 DEF Get, View, Check
  <2>6. CASE SetStatus(r)
    BY <2>6 DEF SetStatus
  <2> QED
    BY <1>5, <2>1, <2>2, <2>3, <2>4, <2>5, <2>6 DEF Step
<1> QED
    BY <1>1, <1>3, <1>4, <1>5 DEF Next, Step

\* What a commit makes of a booking: its uncommitted status, if there is one, which is
\* the expiry of a hold out of time or the request's own act.
LEMMA CommitWrites ==
    ASSUME CoreInv, NEW r \in Req, Commit(r), NEW b \in Req
    PROVE  /\ UNCHANGED <<now, row, req>>
           /\ status'[b] = IF pend[r][b] = Absent THEN status[b] ELSE pend[r][b]
           /\ pend[r][b] # Absent => ExpiryWrite(r, b) \/ OwnWrite(r, b)
BY DEF Commit, End, Seen, CoreInv, WriteInv

\* Whatever interleaves with it, an expiry is committed after the hold's time.
THEOREM HoldsLastTheirTime == Spec => NoEarlyExpiry
<1> DEFINE A == \A b \in Req : status'[b] = "EXPIRED" /\ status[b] # "EXPIRED" =>
                    req[b].op = "hold" /\ row[b].until <= now
<1>1. CoreInv /\ [Next]_vars => [A]_vars
  <2> SUFFICES ASSUME CoreInv, [Next]_vars, NEW b \in Req,
                      status'[b] = "EXPIRED", status[b] # "EXPIRED"
               PROVE  req[b].op = "hold" /\ row[b].until <= now
    OBVIOUS
  <2>1. PICK r \in Req : Commit(r)
    BY OnlyCommits
  <2>2. pend[r][b] = "EXPIRED"
    BY <2>1, CommitWrites
  <2>3. ~OwnWrite(r, b)
    BY <2>2 DEF OwnWrite, Paid
  <2> QED
    BY <2>1, <2>2, <2>3, CommitWrites DEF ExpiryWrite, Absent
<1>2. Spec => []CoreInv
    BY Inductive
<1> QED
    BY <1>1, <1>2, PTL DEF Spec, NoEarlyExpiry

\* Whatever interleaves with it, a counter ticket only ever becomes CANCELLED.
THEOREM CounterTicketsLast == Spec => CounterTicketKept
<1> DEFINE A == \A b \in Req : status[b] # Absent /\ req[b].op = "sell" =>
                    \/ status'[b] = status[b]
                    \/ status[b] \in Paid /\ status'[b] = "CANCELLED"
<1>1. CoreInv /\ [Next]_vars => [A]_vars
  <2> SUFFICES ASSUME CoreInv, [Next]_vars, NEW b \in Req, status[b] # Absent,
                      req[b].op = "sell", status'[b] # status[b]
               PROVE  status[b] \in Paid /\ status'[b] = "CANCELLED"
    OBVIOUS
  <2>1. PICK r \in Req : Commit(r)
    BY OnlyCommits
  <2>2. pend[r][b] # Absent /\ status'[b] = pend[r][b]
    BY <2>1, CommitWrites
  <2>3. OwnWrite(r, b)
    BY <2>1, <2>2, CommitWrites DEF ExpiryWrite
  <2>4. pend[r][b] = "CANCELLED"
    BY <2>2, <2>3 DEF OwnWrite, Subject
  <2>5. status[b] \in Paid \cup {"CANCELLED"}
    BY DEF CoreInv, IssuedInv
  <2> QED
    BY <2>2, <2>4, <2>5
<1>2. Spec => []CoreInv
    BY Inductive
<1> QED
    BY <1>1, <1>2, PTL DEF Spec, CounterTicketKept

-----------------------------------------------------------------------------
(* Refinement of SeatLedger.                                               *)

\* The ledger's rows are the table's.
LEMMA SameRows ==
    /\ Ledger!Absent = Absent /\ Ledger!Active = Active
    /\ \A x, y : Ledger!Clash(x, y) <=> Clash(x, y)
BY DEF Ledger!Absent, Absent, Ledger!Active, Active, Ledger!Clash, Clash,
       Ledger!NoSeat, NoSeat, Ledger!Overlaps, Overlaps

\* The holds a transaction retires.
Expiring(r) == {b \in Req : pend[r][b] # Absent /\ ~OwnWrite(r, b)}

\* They are holds out of time, and expired by the commit.
LEMMA RetiresLapsed ==
    ASSUME CoreInv, NEW r \in Req
    PROVE  /\ Expiring(r) \in SUBSET Ledger!Lapsed
           /\ \A b \in Expiring(r) : pend[r][b] = "EXPIRED" /\ status[b] # Absent
<1>1. ASSUME NEW b \in Expiring(r)
      PROVE  /\ b \in HeldOnce /\ Issued[b].until <= now
             /\ pend[r][b] = "EXPIRED" /\ status[b] # Absent
  <2>1. b \in Req /\ ExpiryWrite(r, b)
    BY DEF Expiring, CoreInv, WriteInv
  <2> QED
    BY <2>1 DEF ExpiryWrite, HeldOnce, Issued
<1> QED
    BY <1>1 DEF Ledger!Lapsed

\* A step that commits nothing leaves the ledger alone, but for its clock.
LEMMA OthersStutter ==
    ASSUME CoreInv, [Next]_vars, ~ \E r \in Req : Commit(r)
    PROVE  [Ledger!Next]_(Ledger!vars)
<1>1. status' = status /\ Issued' = Issued
    BY OnlyCommits DEF Issued
<1>2. HeldOnce' = HeldOnce
    BY OnlyCommits DEF HeldOnce
<1> QED
    BY <1>1, <1>2, OnlyCommits DEF Ledger!Next, Ledger!Tick, Ledger!vars

\* A commit is one transaction of the ledger.
LEMMA CommitSteps ==
    ASSUME CoreInv, CoreInv', NEW r \in Req, Commit(r)
    PROVE  Ledger!Next
<1> DEFINE E == Expiring(r)
           b == Subject(r)
<1>1. /\ E \in SUBSET Ledger!Lapsed
      /\ \A c \in E : c \in Req /\ pend[r][c] = "EXPIRED" /\ status[c] # Absent
    BY RetiresLapsed DEF Expiring
<1>2. /\ UNCHANGED <<now, row, req>>
      /\ \A c \in Req : status'[c] = IF pend[r][c] = Absent THEN status[c] ELSE pend[r][c]
    BY CommitWrites
<1>3. status \in [Req -> BStatus \cup {Absent}] /\ status' \in [Req -> BStatus \cup {Absent}]
    BY DEF CoreInv, TypeOK
<1>4. Ledger!Retired(E) = [c \in Req |-> IF c \in E THEN "EXPIRED" ELSE status[c]]
    BY DEF Ledger!Retired
<1>5. CASE ~ OwnWrite(r, b) \/ pend[r][b] = Absent
  <2>1. \A c \in Req : pend[r][c] # Absent <=> c \in E
    BY <1>5 DEF Expiring, OwnWrite
  <2>2. status' = Ledger!Retired(E)
    BY <1>1, <1>2, <1>3, <1>4, <2>1
  <2>3. Issued' = Issued /\ HeldOnce' = HeldOnce
    BY <1>1, <1>2, <2>1 DEF Issued, HeldOnce, Absent
  <2> QED
    BY <1>1, <1>2, <2>2, <2>3 DEF Ledger!Next, Ledger!Retire
<1>6. CASE OwnWrite(r, b) /\ pend[r][b] # Absent
  <2> DEFINE s == pend[r][b]
  <2>1. /\ b \in Req /\ b \notin E
        /\ \A c \in Req \ {b} : pend[r][c] # Absent <=> c \in E
    <3>1. req[r] \in Call
        BY CallsAssumption DEF Commit, At, CoreInv, BegunInv
    <3>2. b \in Req
        BY <3>1 DEF Call, Subject
    <3>3. \A c \in Req : OwnWrite(r, c) => c = b
        BY DEF OwnWrite
    <3> QED
        BY <1>6, <3>2, <3>3 DEF Expiring
  <2>2. status' = [Ledger!Retired(E) EXCEPT ![b] = s]
    BY <1>1, <1>2, <1>3, <1>4, <1>6, <2>1
  <2>3. \A c \in Req \ {b} :
            /\ Issued'[c] = Issued[c]
            /\ c \in HeldOnce' <=> c \in HeldOnce
    BY <1>1, <1>2, <2>1 DEF Issued, HeldOnce, Absent
  <2>4. Issued'[b] = row[b] /\ row[b] \in Row
    BY <1>2, <1>6, <2>1 DEF Issued, CoreInv, WriteInv
  <2>5. s \in Active => Ledger!Free(E, b, row[b])
    <3>1. SUFFICES ASSUME s \in Active, NEW c \in Req \ {b}, Ledger!Retired(E)[c] \in Active
                   PROVE  ~Clash(row[b], Issued[c])
        BY SameRows DEF Ledger!Free
    <3>2. status'[c] \in Active /\ status'[b] \in Active
      <4>1. status'[b] = s
        BY <1>2, <1>6, <2>1
      <4>2. status'[c] = Ledger!Retired(E)[c]
        BY <1>1, <1>2, <1>4, <2>1, <3>1
      <4> QED
        BY <3>1, <4>1, <4>2
    <3>3. status[c] # Absent
        BY <1>4, <3>1 DEF Active, Absent
    <3>4. ~Clash(row[b], row[c])
        BY <1>2, <2>1, <3>2 DEF CoreInv, NoDoubleSeat
    <3> QED
        BY <3>3, <3>4 DEF Issued
  <2>6. CASE req[r].op \in {"hold", "sell"}
    <3>1. b = r /\ status[b] = Absent /\ s \in {"HELD", "CONFIRMED", "STANDING"}
        BY <1>6, <2>6 DEF OwnWrite, Subject, Paid
    <3>2. s = "HELD" <=> req[b].op = "hold"
        BY <1>6, <2>6, <3>1 DEF OwnWrite, Paid
    <3>3. Issued' = [Issued EXCEPT ![b] = Issued'[b]]
        BY <2>1, <2>3 DEF Issued
    <3>4. HeldOnce' = IF s = "HELD" THEN HeldOnce \cup {b} ELSE HeldOnce
        BY <1>2, <1>6, <2>1, <2>3, <3>1, <3>2 DEF HeldOnce
    <3>5. Ledger!Issue(E, b, s)
        BY <1>2, <2>2, <2>4, <2>5, <3>1, <3>3, <3>4, SameRows DEF Ledger!Issue
    <3> QED
        BY <1>1, <2>1, <3>1, <3>5 DEF Ledger!Next
  <2>7. CASE req[r].op \in {"confirm", "cancel"}
    <3>1. status[b] # Absent /\ s \in {"CONFIRMED", "CANCELLED"}
        BY <1>6, <2>7 DEF OwnWrite
    <3>2. s = "CONFIRMED" => b \in HeldOnce
        BY <1>6, <2>1, <2>7, <3>1 DEF OwnWrite, HeldOnce
    <3>3. Issued[b] = row[b] /\ Issued' = Issued /\ HeldOnce' = HeldOnce
        BY <1>2, <2>1, <2>2, <2>3, <2>4, <3>1 DEF Issued, HeldOnce, Absent
    <3>4. Ledger!Settle(E, b, s)
        BY <1>2, <2>2, <2>5, <3>1, <3>2, <3>3, SameRows DEF Ledger!Settle, Active
    <3> QED
        BY <1>1, <2>1, <3>1, <3>4 DEF Ledger!Next
  <2> QED
    BY <1>6, <2>6, <2>7 DEF OwnWrite
<1> QED
    BY <1>5, <1>6

\* However many transactions interleave, wait, fail and roll back, the committed table
\* behaves as the ledger: one atomic transaction at a time.
THEOREM TransactionsImplementLedger == Spec => ImplementsLedger
<1>1. Init => Ledger!Init
    BY SameRows DEF Init, Ledger!Init, Issued, HeldOnce
<1>2. CoreInv /\ CoreInv' /\ [Next]_vars => [Ledger!Next]_(Ledger!vars)
    BY OthersStutter, CommitSteps
<1>3. Spec => []CoreInv
    BY Inductive
<1> QED
    BY <1>1, <1>2, <1>3, PTL DEF Spec, ImplementsLedger, Ledger!Spec

-----------------------------------------------------------------------------
(* What is committed has been published.                                   *)

\* A request that moves on to a statement other than its commit, or only reads, has
\* nothing to publish.
LEMMA MoveNews ==
    ASSUME CoreInv, NewsInv, NEW r \in Req, NEW p \in Phase,
           pc' = [pc EXCEPT ![r] = p], pc[r] \notin {"commit", "done"},
           UNCHANGED <<status, row, announced>>,
           \A t, b \in Req : pend'[t][b] # pend[t][b] => t = r /\ pend'[t][b] # "STANDING",
           \A t \in Req \ {r} : req'[t] = req[t] /\ got'[t] = got[t],
           \A b \in Req : status[b] # Absent => req'[b] = req[b],
           p = "commit" => req'[r].op \in {"browse", "verify"},
           p = "write" /\ got'[r] = "STANDING" => row[req'[r].target].seat = NoSeat
    PROVE  NewsInv'
<1>1. /\ \A t \in Req : pc'[t] = IF t = r THEN p ELSE pc[t]
      /\ announced \subseteq Req /\ r \notin announced
    BY DEF CoreInv, TypeOK, NewsInv, AnnouncedInv
<1>2. \A t \in Req \ {r} : Subject(t)' = Subject(t)
    BY DEF Subject
<1>3. AnnouncedInv'
    BY <1>1 DEF NewsInv, AnnouncedInv
<1>4. StandingInv'
    BY <1>1 DEF NewsInv, StandingInv
<1>5. PublishInv'
    BY <1>1 DEF NewsInv, PublishInv
<1>6. KnownInv'
    BY DEF NewsInv, KnownInv
<1>7. ChangeAnnounced'
  <2>1. \A t \in announced : req'[t] = req[t] /\ Subject(t)' = Subject(t)
    BY <1>1, <1>2
  <2>2. \A b \in Req : status[b] = "CONFIRMED" => req'[b] = req[b]
    BY DEF Absent
  <2> QED
    BY <2>1, <2>2 DEF NewsInv, ChangeAnnounced
<1> QED
    BY <1>3, <1>4, <1>5, <1>6, <1>7 DEF NewsInv

\* Nor has a request that ends without committing.
LEMMA RollbackNews ==
    ASSUME CoreInv, NewsInv, NEW r \in Req, NEW why, Rollback(r, why)
    PROVE  NewsInv'
<1> USE DEF Rollback, End, CloseSession
<1>1. \A t \in Req :
        /\ pc'[t] = IF t = r THEN "done" ELSE pc[t]
        /\ got'[t] = IF t = r THEN Absent ELSE got[t]
        /\ \A b \in Req : pend'[t][b] = IF t = r THEN Absent ELSE pend[t][b]
    BY DEF CoreInv, TypeOK, NoWrites
<1>2. \A t \in Req : Subject(t)' = Subject(t)
    BY DEF Subject
<1>3. AnnouncedInv'
    BY <1>1 DEF NewsInv, AnnouncedInv, CoreInv, TypeOK
<1>4. StandingInv'
    BY <1>1 DEF NewsInv, StandingInv, Absent
<1>5. PublishInv'
    BY <1>1 DEF NewsInv, PublishInv
<1>6. KnownInv'
    BY DEF NewsInv, KnownInv
<1>7. ChangeAnnounced'
    BY <1>2 DEF NewsInv, ChangeAnnounced, CoreInv, TypeOK
<1> QED
    BY <1>3, <1>4, <1>5, <1>6, <1>7 DEF NewsInv

\* Statements that only read, up to the first write of a use-case.
LEMMA ReadNews ==
    ASSUME CoreInv, NewsInv, NEW r \in Req,
           \/ Lookup(r) \/ Validate(r) \/ SelectDue(r) \/ Admit(r) \/ ScanSeat(r)
           \/ CountStanding(r) \/ View(r)
    PROVE  NewsInv'
<1>1. CASE \E why : Rollback(r, why)
    BY <1>1, RollbackNews
<1>2. CASE ~ \E why : Rollback(r, why)
  <2>1. PICK p \in Phase : pc' = [pc EXCEPT ![r] = p] /\ p # "write"
                           /\ (p = "commit" => pc[r] = "view")
    <3>1. pc = [pc EXCEPT ![r] = pc[r]]
        BY DEF CoreInv, TypeOK
    <3>2. CASE Lookup(r) \/ Validate(r)
        BY <1>2, <3>2 DEF Lookup, Validate, Goto, Phase
    <3>3. CASE SelectDue(r)
        BY <3>3 DEF SelectDue, AfterExpiry, Goto, Phase
    <3>4. CASE Admit(r) \/ CountStanding(r)
        BY <1>2, <3>4 DEF Admit, CountStanding, Goto, Phase
    <3>5. CASE ScanSeat(r)
        BY <3>1, <3>5 DEF ScanSeat, At, Goto, Phase
    <3>6. CASE View(r)
        BY <1>2, <3>6 DEF View, At, Goto, Phase
    <3> QED
        BY <3>2, <3>3, <3>4, <3>5, <3>6
  <2>2. /\ pc[r] \notin {"new", "commit", "done"}
        /\ UNCHANGED <<status, row, pend, req, got, announced>>
    BY <1>2 DEF Lookup, Validate, SelectDue, Admit, ScanSeat, CountStanding, View, At
  <2>3. p = "commit" => req[r].op \in {"browse", "verify"}
    BY <2>1, <2>2, OpAt
  <2> QED
    BY <2>1, <2>2, <2>3, MoveNews
<1> QED
    BY <1>1, <1>2

\* The arrival of a request, an expiry, a payment and a guard that has been passed.
LEMMA EarlyNews ==
    ASSUME CoreInv, NewsInv, NEW r \in Req,
           \/ \E c \in Calls : Begin(r, c)
           \/ ExpireRow(r) \/ Charge(r) \/ Get(r)
    PROVE  NewsInv'
<1>1. ASSUME NEW c \in Calls, Begin(r, c)
      PROVE  NewsInv'
  <2>1. c.op \in Op
    BY CallsAssumption DEF Call
  <2>2. FirstPhase(c) \in Phase \ {"commit", "write"}
    BY <2>1 DEF FirstPhase, Phase, Op
  <2>3. /\ pc[r] = "new" /\ status[r] = Absent
        /\ \A t \in Req \ {r} : req'[t] = req[t]
    BY <1>1 DEF Begin, At, CoreInv, TypeOK, IssuedInv
  <2> QED
    BY <1>1, <2>2, <2>3, MoveNews DEF Begin, Goto
<1>2. CASE ExpireRow(r)
  <2>1. PICK b \in NextDue(r), p \in {AfterExpiry(r), "expire"} :
            /\ pend' = [pend EXCEPT ![r][b] = "EXPIRED"]
            /\ pc' = [pc EXCEPT ![r] = p]
            /\ pc[r] = "expire"
            /\ UNCHANGED <<status, row, req, got, announced>>
    BY <1>2 DEF ExpireRow, Goto, At
  <2>2. p \in Phase \ {"commit", "write"}
    BY DEF AfterExpiry, Phase
  <2>3. \A t, c \in Req : pend'[t][c] # pend[t][c] => t = r /\ pend'[t][c] = "EXPIRED"
    BY <2>1 DEF CoreInv, TypeOK
  <2> HIDE DEF NextDue
  <2> QED
    BY <2>1, <2>2, <2>3, MoveNews
<1>3. CASE \E why : Rollback(r, why)
    BY <1>3, RollbackNews
<1>4. CASE Charge(r) /\ ~ \E why : Rollback(r, why)
  <2> DEFINE p == IF req[r].op = "sell" THEN "insert" ELSE "write"
  <2>1. /\ pc' = [pc EXCEPT ![r] = p] /\ pc[r] = "charge"
        /\ UNCHANGED <<status, row, pend, req, got, announced>>
    BY <1>4 DEF Charge, Goto, At
  <2>2. p = "write" => got[r] # "STANDING"
    <3>1. req[r] \in Calls /\ req[r].op \in {"sell", "confirm"}
        BY <2>1, OpAt
    <3>2. p = "write" => CanApply(got[r], "CONFIRM")
        BY <2>1, <3>1 DEF CoreInv, TargetInv, EventOf
    <3> QED
        BY <3>2 DEF CanApply, Transitions
  <2>3. p \in Phase \ {"commit"}
    BY DEF Phase
  <2> QED
    BY <2>1, <2>2, <2>3, MoveNews
<1>5. CASE Get(r) /\ ~ \E why : Rollback(r, why)
  <2> DEFINE b == req[r].target
             found == Seen(r, b)
             p == IF req[r].op = "confirm" THEN "charge" ELSE "write"
  <2>1. /\ pc' = [pc EXCEPT ![r] = p] /\ pc[r] = "get"
        /\ got' = [got EXCEPT ![r] = found]
        /\ UNCHANGED <<status, row, pend, req, announced>>
    BY <1>5 DEF Get, Goto, At
  <2>2. b \in Req
    BY <2>1, OpAt, CallsAssumption DEF Call
  <2>3. found = "STANDING" => row[b].seat = NoSeat
    BY <2>2 DEF Seen, NewsInv, StandingInv
  <2>4. got'[r] = found /\ \A t \in Req \ {r} : got'[t] = got[t]
    BY <2>1 DEF CoreInv, TypeOK
  <2>5. p \in Phase \ {"commit"}
    BY DEF Phase
  <2> HIDE DEF found
  <2> QED
    BY <2>1, <2>3, <2>4, <2>5, MoveNews
<1> QED
    BY <1>1, <1>2, <1>3, <1>4, <1>5

\* A row is inserted without anything being published yet; one without a seat need not be.
LEMMA InsertNews ==
    ASSUME CoreInv, NewsInv, NEW r \in Req, Insert(r) PROVE NewsInv'
<1> DEFINE p == IF NewStatus(r) \in Active THEN "check" ELSE "commit"
<1>1. pc[r] = "insert" /\ req[r].op \in {"hold", "sell"} /\ status[r] = Absent
    BY OpAt DEF Insert, At, CoreInv, IssuedInv
<1>2. \A t \in Req :
        /\ pc'[t] = IF t = r THEN p ELSE pc[t]
        /\ row'[t] = IF t = r THEN NewRow(r) ELSE row[t]
    BY DEF Insert, Goto, CoreInv, TypeOK
<1>3. \A t, c \in Req :
        pend'[t][c] = IF t = r /\ c = r THEN NewStatus(r) ELSE pend[t][c]
    BY DEF Insert, CoreInv, TypeOK
<1>4. UNCHANGED <<status, req, got, announced>>
    BY DEF Insert
<1>5. \A t \in Req : Subject(t)' = Subject(t)
    BY <1>4 DEF Subject
<1>6. NewStatus(r) = "STANDING" => NewRow(r).seat = NoSeat
    BY DEF NewStatus, NewRow, SeatFor
<1>7. \A t \in Req : pend[t][r] = Absent
  <2>1. \A t \in Req : ~OwnWrite(t, r) \/ pend[t][r] = Absent
    BY <1>1 DEF OwnWrite, Subject
  <2> QED
    BY <1>1, <2>1 DEF CoreInv, WriteInv, ExpiryWrite
<1>8. AnnouncedInv'
    BY <1>1, <1>2, <1>4 DEF NewsInv, AnnouncedInv, CoreInv, TypeOK
<1>9. StandingInv'
  <2>1. \A b \in Req : status[b] = "STANDING" => row'[b].seat = NoSeat
    BY <1>1, <1>2 DEF NewsInv, StandingInv, Absent
  <2>2. \A t, b \in Req : pend'[t][b] = "STANDING" => row'[b].seat = NoSeat
    BY <1>2, <1>3, <1>6, <1>7 DEF NewsInv, StandingInv, Absent
  <2>3. \A t \in Req : pc'[t] = "write" /\ got[t] = "STANDING"
                           => row'[req[t].target].seat = NoSeat
    <3> TAKE t \in Req
    <3> HAVE pc'[t] = "write" /\ got[t] = "STANDING"
    <3>1. pc[t] = "write"
        BY <1>2
    <3>2. status[req[t].target] # Absent /\ req[t].target \in Req
        BY <3>1, OpAt, CallsAssumption DEF CoreInv, TargetInv, Call
    <3> QED
        BY <1>1, <1>2, <3>1, <3>2 DEF NewsInv, StandingInv
  <2> QED
    BY <1>4, <2>1, <2>2, <2>3 DEF StandingInv
<1>10. PublishInv'
  <2> SUFFICES ASSUME NEW t \in Req, pc'[t] = "commit"
               PROVE  /\ req[t].op \in {"hold", "sell"} /\ pend'[t][t] \in Active
                            => t \in announced
                      /\ req[t].op = "confirm" => t \in announced
                      /\ req[t].op = "cancel" =>
                            /\ status[req[t].target] # Absent
                            /\ t \in announced \/ row'[req[t].target].seat = NoSeat
    BY <1>4 DEF PublishInv
  <2>1. CASE t = r
    BY <1>1, <1>2, <1>3, <2>1
  <2>2. CASE t # r
    <3>1. pc[t] = "commit" /\ pend'[t][t] = pend[t][t]
        BY <1>2, <1>3, <2>2
    <3>2. req[t].target \in Req
        BY <3>1, OpAt, CallsAssumption DEF Call
    <3> QED
        BY <1>1, <1>2, <3>1, <3>2 DEF NewsInv, PublishInv
  <2> QED
    BY <2>1, <2>2
<1>11. KnownInv'
    BY <1>4 DEF NewsInv, KnownInv
<1>12. ChangeAnnounced'
  <2>1. \A b \in Req : status[b] = "CANCELLED" => row'[b] = row[b]
    BY <1>1, <1>2 DEF Absent
  <2>2. \A t \in announced : Subject(t)' = Subject(t)
    BY <1>5 DEF CoreInv, TypeOK
  <2> QED
    BY <1>4, <2>1, <2>2 DEF NewsInv, ChangeAnnounced
<1> QED
    BY <1>8, <1>9, <1>10, <1>11, <1>12 DEF NewsInv

\* A change of status that needs no check is published with its update, a cancellation
\* of a standing ticket is not.
LEMMA SetStatusNews ==
    ASSUME CoreInv, NewsInv, NEW r \in Req, SetStatus(r) PROVE NewsInv'
<1> DEFINE b == req[r].target
           target == ApplyEvent(got[r], EventOf(r))
           checks == Seen(r, b) # target /\ target \in Active
           p == IF checks THEN "check" ELSE "commit"
<1>1. /\ pc[r] = "write" /\ req[r].op \in {"confirm", "cancel"} /\ b \in Req
      /\ status[b] # Absent /\ CanApply(got[r], EventOf(r))
    <2>1. pc[r] = "write" /\ req[r] \in Calls /\ req[r].op \in {"confirm", "cancel"}
        BY OpAt DEF SetStatus, At
    <2> QED
        BY <2>1, CallsAssumption DEF Call, CoreInv, TargetInv
<1>2. /\ pc' = [pc EXCEPT ![r] = p]
      /\ announced' = IF ~checks /\ Frees(r) THEN announced \cup {r} ELSE announced
      /\ pend' \in {pend, [pend EXCEPT ![r][b] = target]}
      /\ UNCHANGED <<status, row, req, got>>
    BY DEF SetStatus, Goto
<1>3. /\ req[r].op = "confirm" => got[r] = "HELD"
      /\ got[r] \in {"HELD", "CONFIRMED", "STANDING"}
    BY <1>1 DEF CanApply, EventOf, Transitions
<1>4. target \in {"CONFIRMED", "CANCELLED"}
  <2>1. PICK t \in BStatus : <<got[r], EventOf(r), t>> \in Transitions
    BY <1>1 DEF CanApply
  <2>2. <<got[r], EventOf(r), target>> \in Transitions
    BY <2>1 DEF ApplyEvent
  <2> QED
    BY <1>1, <2>2 DEF EventOf, Transitions
<1>5. \A t \in Req : pc'[t] = IF t = r THEN p ELSE pc[t]
    BY <1>2 DEF CoreInv, TypeOK
<1>6. \A t, c \in Req : pend'[t][c] # pend[t][c] => t = r /\ pend'[t][c] = target
    BY <1>1, <1>2 DEF CoreInv, TypeOK
<1>7. \A t \in Req : Subject(t)' = Subject(t)
    BY <1>2 DEF Subject
<1>8. p = "commit" => r \in announced' \/ got[r] = "STANDING"
    BY <1>2, <1>3 DEF Frees, Active
<1>9. announced \subseteq announced' /\ announced' \subseteq announced \cup {r}
    BY <1>2
<1>10. r \in announced' => p = "commit"
    BY <1>1, <1>2 DEF NewsInv, AnnouncedInv
<1> HIDE DEF target, checks, p
<1>11. AnnouncedInv'
    BY <1>1, <1>5, <1>9, <1>10 DEF NewsInv, AnnouncedInv, CoreInv, TypeOK
<1>12. StandingInv'
  <2>1. \A t \in Req : pc'[t] = "write" => pc[t] = "write"
    BY <1>1, <1>5
  <2> QED
    BY <1>2, <1>4, <1>6, <2>1 DEF NewsInv, StandingInv
<1>13. PublishInv'
  <2>1. got[r] = "STANDING" => row[b].seat = NoSeat
    BY <1>1 DEF NewsInv, StandingInv
  <2>2. \A t \in Req : t # r /\ pc'[t] = "commit" => pc[t] = "commit" /\ pend'[t][t] = pend[t][t]
    BY <1>5, <1>6
  <2> QED
    BY <1>1, <1>2, <1>3, <1>5, <1>8, <1>9, <2>1, <2>2 DEF NewsInv, PublishInv
<1>14. KnownInv'
    BY <1>2, <1>9 DEF NewsInv, KnownInv
<1>15. ChangeAnnounced'
  <2>1. \A t \in announced : Subject(t)' = Subject(t) /\ t \in announced'
    BY <1>7, <1>9 DEF CoreInv, TypeOK
  <2> QED
    BY <1>2, <2>1 DEF NewsInv, ChangeAnnounced
<1> QED
    BY <1>11, <1>12, <1>13, <1>14, <1>15 DEF NewsInv

\* A check that passes is followed by the event.
LEMMA CheckNews ==
    ASSUME CoreInv, NewsInv, NEW r \in Req, Check(r) PROVE NewsInv'
<1>1. CASE \E why : Rollback(r, why)
    BY <1>1, RollbackNews
<1>2. CASE ~ \E why : Rollback(r, why)
  <2>1. /\ announced' = announced \cup {r}
        /\ pc' = [pc EXCEPT ![r] = "commit"] /\ pc[r] = "check"
        /\ UNCHANGED <<status, row, pend, req, got>>
    BY <1>2 DEF Check, Goto, At
  <2>2. req[r].op # "cancel"
    BY <2>1, OpAt
  <2>3. \A t \in Req : pc'[t] = IF t = r THEN "commit" ELSE pc[t]
    BY <2>1 DEF CoreInv, TypeOK
  <2>4. \A t \in Req : Subject(t)' = Subject(t)
    BY <2>1 DEF Subject
  <2>5. AnnouncedInv'
    BY <2>1, <2>3 DEF NewsInv, AnnouncedInv, CoreInv, TypeOK
  <2>6. StandingInv'
    BY <2>1, <2>3 DEF NewsInv, StandingInv
  <2>7. PublishInv'
    BY <2>1, <2>2, <2>3 DEF NewsInv, PublishInv
  <2>8. KnownInv'
    BY <2>1 DEF NewsInv, KnownInv
  <2>9. ChangeAnnounced'
    <3>1. \A t \in announced : Subject(t)' = Subject(t) /\ t \in announced'
        BY <2>1, <2>4 DEF CoreInv, TypeOK
    <3> QED
        BY <2>1, <3>1 DEF NewsInv, ChangeAnnounced
  <2> QED
    BY <2>5, <2>6, <2>7, <2>8, <2>9 DEF NewsInv
<1> QED
    BY <1>1, <1>2

\* What a commit changes of a seat, its request has published.
LEMMA CommitNews ==
    ASSUME CoreInv, NewsInv, NEW r \in Req, Commit(r) PROVE NewsInv'
<1>1. pc[r] = "commit" /\ req[r] \in Calls /\ req[r].op \in Op
    BY OpAt DEF Commit, At
<1>2. UNCHANGED <<row, req, announced>>
    BY DEF Commit, End
<1>3. \A t \in Req :
        /\ pc'[t] = IF t = r THEN "done" ELSE pc[t]
        /\ got'[t] = IF t = r THEN Absent ELSE got[t]
        /\ \A b \in Req : pend'[t][b] = IF t = r THEN Absent ELSE pend[t][b]
    BY DEF Commit, End, CloseSession, CoreInv, TypeOK, NoWrites
<1>4. \A b \in Req :
        /\ status'[b] = IF pend[r][b] = Absent THEN status[b] ELSE pend[r][b]
        /\ pend[r][b] # Absent => ExpiryWrite(r, b) \/ OwnWrite(r, b)
    BY CommitWrites
<1>5. \A t \in Req : Subject(t)' = Subject(t)
    BY <1>2 DEF Subject
<1>6. AnnouncedInv'
    BY <1>2, <1>3 DEF NewsInv, AnnouncedInv, CoreInv, TypeOK
<1>7. StandingInv'
    BY <1>2, <1>3, <1>4 DEF NewsInv, StandingInv, Absent
<1>8. PublishInv'
  <2> SUFFICES ASSUME NEW t \in Req, t # r, pc[t] = "commit", req[t].op = "cancel"
               PROVE  status'[req[t].target] # Absent
    BY <1>2, <1>3 DEF NewsInv, PublishInv
  <2>1. req[t].target \in Req
    BY OpAt, CallsAssumption DEF Call
  <2> QED
    BY <1>4, <2>1 DEF NewsInv, PublishInv
<1>9. KnownInv'
  <2> SUFFICES ASSUME NEW b \in Req, status'[b] # Absent
               PROVE  b \in announced \/ (req[b].op = "sell"
                                             /\ status'[b] \in {"STANDING", "CANCELLED"})
    BY <1>2 DEF KnownInv
  <2>1. CASE pend[r][b] = Absent
    BY <1>4, <2>1 DEF NewsInv, KnownInv
  <2>2. CASE pend[r][b] # Absent /\ ExpiryWrite(r, b)
    BY <2>2 DEF ExpiryWrite, NewsInv, KnownInv
  <2>3. CASE pend[r][b] # Absent /\ OwnWrite(r, b)
    <3>1. CASE req[r].op \in {"hold", "sell"}
        BY <1>1, <1>4, <2>3, <3>1 DEF OwnWrite, Subject, NewsInv, PublishInv, Active, Paid
    <3>2. CASE req[r].op \in {"confirm", "cancel"}
        BY <1>4, <2>3, <3>2 DEF OwnWrite, NewsInv, KnownInv
    <3> QED
        BY <2>3, <3>1, <3>2 DEF OwnWrite
  <2> QED
    BY <1>4, <2>1, <2>2, <2>3
<1>10. ChangeAnnounced'
  <2> DEFINE By(b, op) == \E t \in announced : Subject(t) = b /\ req[t].op = op
  <2>1. \A t \in announced : Subject(t)' = Subject(t)
    BY <1>5 DEF CoreInv, TypeOK
  <2> SUFFICES ASSUME NEW b \in Req
               PROVE  /\ status'[b] \in Active => b \in announced
                      /\ status'[b] = "CONFIRMED" /\ req[b].op = "hold" => By(b, "confirm")
                      /\ status'[b] = "CANCELLED" /\ row[b].seat # NoSeat => By(b, "cancel")
    BY <1>2, <2>1 DEF ChangeAnnounced
  <2>2. status'[b] \in Active => b \in announced
    BY <1>2, <1>9 DEF KnownInv, Active, Absent
  <2>3. CASE pend[r][b] = Absent
    BY <1>4, <2>2, <2>3 DEF NewsInv, ChangeAnnounced
  <2>4. CASE pend[r][b] # Absent /\ ExpiryWrite(r, b)
    BY <1>4, <2>2, <2>4 DEF ExpiryWrite
  <2>5. CASE pend[r][b] # Absent /\ OwnWrite(r, b)
    <3>1. b = Subject(r) /\ status'[b] = pend[r][b]
        BY <1>4, <2>5 DEF OwnWrite
    <3>2. CASE req[r].op \in {"hold", "sell"}
        BY <2>2, <2>5, <3>1, <3>2 DEF OwnWrite, Subject, Paid
    <3>3. CASE req[r].op \in {"confirm", "cancel"}
        BY <1>1, <2>2, <2>5, <3>1, <3>3 DEF OwnWrite, Subject, NewsInv, PublishInv
    <3> QED
        BY <2>5, <3>2, <3>3 DEF OwnWrite
  <2> QED
    BY <1>4, <2>3, <2>4, <2>5
<1> QED
    BY <1>6, <1>7, <1>8, <1>9, <1>10 DEF NewsInv

\* Every step keeps what is committed and what is public in line.
LEMMA NextNews == ASSUME CoreInv, NewsInv, [Next]_vars PROVE NewsInv'
<1>1. CASE Tick \/ UNCHANGED vars
  <2>1. UNCHANGED <<status, row, pend, pc, req, got, announced>>
    BY <1>1 DEF Tick, vars
  <2>2. \A t \in Req : Subject(t)' = Subject(t)
    BY <2>1 DEF Subject
  <2>3. AnnouncedInv' /\ StandingInv' /\ PublishInv' /\ KnownInv'
    BY <2>1 DEF NewsInv, AnnouncedInv, StandingInv, PublishInv, KnownInv
  <2>4. ChangeAnnounced'
    BY <2>1, <2>2 DEF NewsInv, ChangeAnnounced, CoreInv, TypeOK
  <2> QED
    BY <2>3, <2>4 DEF NewsInv
<1>2. ASSUME NEW r \in Req, NEW c \in Calls, Begin(r, c) PROVE NewsInv'
    BY <1>2, EarlyNews
<1>3. ASSUME NEW r \in Req, Step(r) \/ Fail(r) PROVE NewsInv'
  <2>1. CASE Lookup(r) \/ Validate(r) \/ SelectDue(r) \/ Admit(r) \/ ScanSeat(r)
                \/ CountStanding(r) \/ View(r)
    BY <2>1, ReadNews
  <2>2. CASE ExpireRow(r) \/ Charge(r) \/ Get(r)
    BY <2>2, EarlyNews
  <2>3. CASE Insert(r)         BY <2>3, InsertNews
  <2>4. CASE SetStatus(r)      BY <2>4, SetStatusNews
  <2>5. CASE Check(r)          BY <2>5, CheckNews
  <2>6. CASE Commit(r)         BY <2>6, CommitNews
  <2>7. CASE DeadlockVictim(r) \/ Fail(r)
    BY <2>7, RollbackNews DEF DeadlockVictim, Fail
  <2> QED
    BY <1>3, <2>1, <2>2, <2>3, <2>4, <2>5, <2>6, <2>7 DEF Step
<1> QED
    BY <1>1, <1>2, <1>3 DEF Next

-----------------------------------------------------------------------------
(* What has been paid for.                                                 *)

\* Whoever acts, the others stay where they are; only a payment moves money, and only
\* a check that fails ends with an OverlapError.
LEMMA OneActs ==
    ASSUME CoreInv, NEW r \in Req, (\E c \in Calls : Begin(r, c)) \/ Step(r) \/ Fail(r)
    PROVE  /\ \A t \in Req \ {r} : /\ pc'[t] = pc[t] /\ req'[t] = req[t]
                                   /\ answer'[t] = answer[t]
           /\ pc[r] # "new" => req'[r] = req[r]
           /\ charged' = charged
                \/ /\ charged' = charged \cup {r} /\ pc[r] = "charge"
                   /\ pc'[r] \in {"insert", "write"} /\ Charge(r)
           /\ answer'[r] = "overlap" /\ answer[r] # "overlap" =>
                Check(r) /\ Taken(r, Subject(r)) /\ req[r].op # "confirm"
<1> DEFINE Others == \A t \in Req \ {r} : /\ pc'[t] = pc[t] /\ req'[t] = req[t]
                                          /\ answer'[t] = answer[t]
<1> USE DEF CoreInv, TypeOK
<1>1. ASSUME NEW why, End(r, why)
      PROVE  Others /\ req' = req /\ charged' = charged /\ answer'[r] = why
    BY <1>1 DEF End
<1>2. ASSUME NEW why \in Answers \ {"overlap"}, End(r, why)
      PROVE  /\ Others /\ req' = req /\ charged' = charged
             /\ answer'[r] # "overlap"
    BY <1>1, <1>2
<1>3. ASSUME NEW p, Goto(r, p) \/ UNCHANGED pc, UNCHANGED <<req, answer>>
      PROVE  Others
    BY <1>3 DEF Goto
<1> HIDE DEF CoreInv, TypeOK
<1>4. CASE \E c \in Calls : Begin(r, c)
    BY <1>4 DEF Begin, At, Goto, CoreInv, TypeOK
<1>5. CASE Lookup(r)
    BY <1>2, <1>3, <1>5 DEF Lookup, Rollback, ReceiptFor, Answers
<1>6. CASE Validate(r) \/ CountStanding(r) \/ View(r)
    BY <1>2, <1>3, <1>6 DEF Validate, CountStanding, View, Rollback, Answers
<1>7. CASE SelectDue(r)
    BY <1>3, <1>7 DEF SelectDue
<1>8. CASE ExpireRow(r)
    BY <1>3, <1>8 DEF ExpireRow
<1>9. CASE Admit(r)
    BY <1>2, <1>3, <1>9 DEF Admit, Rollback, Refusals, Answers
<1>10. CASE ScanSeat(r)
    BY <1>3, <1>10 DEF ScanSeat
<1>11. CASE Charge(r)
  <2>1. CASE Rollback(r, "declined")
    BY <1>2, <2>1 DEF Rollback, Answers
  <2>2. CASE ~Rollback(r, "declined")
    BY <1>3, <1>11, <2>2 DEF Charge, At, Goto, CoreInv, TypeOK
  <2> QED
    BY <2>1, <2>2
<1>12. CASE Insert(r)
    BY <1>3, <1>12 DEF Insert
<1>13. CASE Get(r)
    BY <1>2, <1>3, <1>13 DEF Get, Rollback, Answers
<1>14. CASE SetStatus(r)
    BY <1>3, <1>14 DEF SetStatus
<1>15. CASE Check(r)
    BY <1>1, <1>3, <1>15 DEF Check, Rollback
<1>16. CASE Commit(r)
  <2>1. Outcome(r) \subseteq {"ok", "receipt"}
    BY DEF Outcome, ReceiptFor
  <2>2. PICK why \in {"ok", "receipt", "error"} : End(r, why)
    BY <1>16, <2>1 DEF Commit
  <2> QED
    BY <1>2, <2>2 DEF Answers
<1>17. CASE DeadlockVictim(r) \/ Fail(r)
    BY <1>2, <1>17 DEF DeadlockVictim, Fail, Rollback, Answers
<1> QED
    BY <1>4, <1>5, <1>6, <1>7, <1>8, <1>9, <1>10, <1>11, <1>12, <1>13, <1>14, <1>15,
       <1>16, <1>17 DEF Step

\* What was once more than a hold stays that, however late it is written.
LEMMA SettledStays ==
    ASSUME CoreInv, [Next]_vars, NEW b \in Req, status[b] \in Settled
    PROVE  status'[b] \in Settled /\ row'[b] = row[b]
<1> USE DEF Settled, Paid, Absent
<1>1. CASE \E r \in Req : Commit(r)
  <2>1. PICK r \in Req : Commit(r)
    BY <1>1
  <2>2. pend[r][b] # Absent => ExpiryWrite(r, b) \/ OwnWrite(r, b)
    BY <2>1, CommitWrites
  <2>3. row'[b] = row[b] /\ status'[b] = IF pend[r][b] = Absent THEN status[b] ELSE pend[r][b]
    BY <2>1, CommitWrites
  <2>4. CASE OwnWrite(r, b)
    BY <2>3, <2>4 DEF OwnWrite
  <2>5. CASE ExpiryWrite(r, b)
    BY <2>3, <2>5 DEF ExpiryWrite
  <2> QED
    BY <2>2, <2>3, <2>4, <2>5
<1>2. CASE ~ \E r \in Req : Commit(r)
    BY <1>2, OnlyCommits
<1> QED
    BY <1>1, <1>2

\* A request writes in its own transaction only.
LEMMA OthersWrite ==
    ASSUME CoreInv, NEW r \in Req, (\E c \in Calls : Begin(r, c)) \/ Step(r) \/ Fail(r),
           NEW t \in Req \ {r}
    PROVE  pend'[t] = pend[t]
<1> USE DEF CoreInv, TypeOK
<1>1. ASSUME NEW why, End(r, why) PROVE pend'[t] = pend[t]
    BY <1>1 DEF End, CloseSession
<1> HIDE DEF CoreInv, TypeOK
<1>2. CASE \E c \in Calls : Begin(r, c)
    BY <1>2 DEF Begin
<1>3. CASE Lookup(r) \/ Validate(r) \/ SelectDue(r) \/ Admit(r) \/ ScanSeat(r)
    BY <1>1, <1>3 DEF Lookup, Validate, SelectDue, Admit, ScanSeat, Rollback
<1>4. CASE CountStanding(r) \/ Charge(r) \/ Get(r) \/ Check(r) \/ View(r)
    BY <1>1, <1>4 DEF CountStanding, Charge, Get, Check, View, Rollback
<1>5. CASE ExpireRow(r) \/ Insert(r) \/ SetStatus(r)
    BY <1>5 DEF ExpireRow, Insert, SetStatus, CoreInv, TypeOK
<1>6. CASE Commit(r) \/ DeadlockVictim(r) \/ Fail(r)
    BY <1>1, <1>6 DEF Commit, DeadlockVictim, Fail, Rollback
<1> QED
    BY <1>2, <1>3, <1>4, <1>5, <1>6 DEF Step

\* A request that has charged and acts writes, checks, commits or fails.
LEMMA PaidSteps ==
    ASSUME CoreInv, PastGuardsInv, NEW r \in charged,
           (\E c \in Calls : Begin(r, c)) \/ Step(r) \/ Fail(r)
    PROVE  /\ r \in Req /\ Subject(r) \in Req /\ Subject(r)' = Subject(r)
           /\ req'[r] = req[r] /\ req[r].op \in {"sell", "confirm"}
           /\ \/ Insert(r) \/ SetStatus(r) \/ Check(r) \/ Commit(r)
              \/ Rollback(r, "error")
<1>1. /\ r \in Req /\ req[r].op \in {"sell", "confirm"}
      /\ pc[r] \in {"insert", "write", "check", "commit", "done"}
    BY DEF CoreInv, TypeOK, PastGuardsInv
<1>2. ~ \E c \in Calls : Begin(r, c)
    BY <1>1 DEF Begin, At
<1>3. req'[r] = req[r]
    BY <1>1, OneActs
<1>4. Subject(r) \in Req
    BY <1>1, OpAt, CallsAssumption DEF Subject, Call
<1>5. CASE Fail(r) \/ DeadlockVictim(r)
    BY <1>1, <1>3, <1>4, <1>5 DEF Fail, DeadlockVictim, Subject
<1>6. CASE Step(r) /\ ~DeadlockVictim(r)
  <2>1. Insert(r) \/ SetStatus(r) \/ Check(r) \/ Commit(r)
    BY <1>1, <1>6
    DEF Step, At, Lookup, Validate, SelectDue, ExpireRow, Admit, ScanSeat,
        CountStanding, Charge, Get, View
  <2> QED
    BY <1>1, <1>3, <1>4, <2>1 DEF Subject
<1> QED
    BY <1>2, <1>5, <1>6

\* It comes to its commit with a ticket written, and is answered as ChargeAnswered says.
LEMMA PaidGoesOn ==
    ASSUME CoreInv, PastGuardsInv, [Next]_vars, NEW r \in charged,
           (\E c \in Calls : Begin(r, c)) \/ Step(r) \/ Fail(r)
    PROVE  /\ pc'[r] \in {"check", "commit", "done"}
           /\ pc'[r] = "commit" => Seen(r, Subject(r))' \in Settled
           /\ pc'[r] = "done" =>
                \/ status'[Subject(r)] \in Settled /\ answer'[r] = ReceiptFor(Subject(r), "ok")
                \/ answer'[r] = "overlap" /\ req[r].op = "sell"
                \/ answer'[r] = "error"
<1> DEFINE b == Subject(r)
<1>1. /\ r \in Req /\ b \in Req /\ b' = b /\ req[r].op \in {"sell", "confirm"}
    BY PaidSteps
<1>2. CASE Rollback(r, "error")
    BY <1>1, <1>2 DEF Rollback, End, CoreInv, TypeOK
<1>3. CASE Insert(r)
  <2>1. /\ req[r].op = "sell" /\ b = r
        /\ pend'[r][r] = NewStatus(r) /\ NewStatus(r) \in Settled /\ NewStatus(r) # Absent
        /\ pc'[r] \in {"check", "commit"}
    BY <1>1, <1>3, OpAt DEF Insert, At, Subject, Goto, NewStatus, Settled, Paid, Absent,
                           CoreInv, TypeOK
  <2> QED
    BY <1>1, <2>1 DEF Seen
<1>4. CASE SetStatus(r)
  <2>1. pc[r] = "write" /\ req[r].op = "confirm" /\ b = req[r].target
    BY <1>1, <1>4, OpAt DEF SetStatus, At, Subject
  <2>2. ApplyEvent(got[r], EventOf(r)) = "CONFIRMED"
    <3>1. req[r] \in Calls /\ CanApply(got[r], "CONFIRM")
        BY <1>1, <2>1, OpAt DEF CoreInv, TargetInv, EventOf
    <3> QED
        BY <2>1, <3>1 DEF EventOf, ApplyEvent, CanApply, Transitions, BStatus
  <2>3. /\ UNCHANGED status
        /\ \/ pend' = [pend EXCEPT ![r][b] = "CONFIRMED"]
           \/ Seen(r, b) = "CONFIRMED" /\ pend' = pend
        /\ pc'[r] \in {"check", "commit"}
    BY <1>1, <1>4, <2>1, <2>2 DEF SetStatus, Goto, CoreInv, TypeOK
  <2>4. Seen(r, b)' = "CONFIRMED"
    <3>1. pend[r] \in [Req -> BStatus \cup {Absent}] /\ pend \in [Req -> [Req -> BStatus \cup {Absent}]]
        BY <1>1 DEF CoreInv, TypeOK
    <3> QED
        BY <1>1, <2>3, <3>1 DEF Seen, Absent
  <2> QED
    BY <1>1, <2>3, <2>4 DEF Settled, Paid
<1>5. CASE Check(r)
  <2>1. pc[r] = "check" /\ pend[r][b] \in Active
    BY <1>1, <1>5 DEF Check, At, CoreInv, CheckInv
  <2>2. pend[r][b] \in Settled /\ pend[r][b] # Absent
    BY <1>1, <2>1, ActiveWrite DEF OwnWrite, Settled, Paid, Active, Absent
  <2>3. CASE Rollback(r, IF req[r].op = "confirm" THEN "error" ELSE "overlap")
    BY <1>1, <2>3 DEF Rollback, End, CoreInv, TypeOK
  <2>4. CASE Goto(r, "commit") /\ UNCHANGED <<pend, status>>
    BY <1>1, <2>2, <2>4 DEF Goto, Seen, CoreInv, TypeOK
  <2> QED
    BY <1>5, <2>3, <2>4 DEF Check
<1>6. CASE Commit(r)
  <2>1. Seen(r, b) \in Settled /\ status'[b] = Seen(r, b)
    BY <1>1, <1>6 DEF Commit, At, PastGuardsInv
  <2>2. Outcome(r) = {ReceiptFor(b, "ok")}
    BY <1>1 DEF Outcome
  <2>3. PICK why \in {ReceiptFor(b, "ok"), "error"} : End(r, why)
    BY <1>6, <2>2 DEF Commit
  <2>4. pc'[r] = "done" /\ answer'[r] = why
    BY <1>1, <2>3 DEF End, CoreInv, TypeOK
  <2> QED
    BY <2>1, <2>4
<1> QED
    BY <1>2, <1>3, <1>4, <1>5, <1>6, PaidSteps

LEMMA NextPaid == ASSUME CoreInv, MoneyKnown, [Next]_vars PROVE MoneyKnown'
<1> USE DEF MoneyKnown
<1>1. CASE Tick \/ UNCHANGED vars
  <2>1. UNCHANGED <<status, row, pend, pc, req, charged, answer>>
    BY <1>1 DEF Tick, vars
  <2> QED
    BY <2>1 DEF PastGuardsInv, ChargeAnswered, Seen, Subject, ReceiptFor
<1>2. ASSUME NEW r \in Req, (\E c \in Calls : Begin(r, c)) \/ Step(r) \/ Fail(r)
      PROVE  MoneyKnown'
  <2>1. /\ \A t \in Req \ {r} : pc'[t] = pc[t] /\ req'[t] = req[t] /\ answer'[t] = answer[t]
        /\ pc[r] # "new" => req'[r] = req[r]
        /\ \/ charged' = charged
           \/ charged' = charged \cup {r} /\ pc[r] = "charge" /\ pc'[r] \in {"insert", "write"}
    BY <1>2, OneActs
  <2>2. charged \subseteq Req
    BY DEF CoreInv, TypeOK
  <2>3. ASSUME NEW t \in charged, t # r
        PROVE  /\ req'[t].op \in {"sell", "confirm"}
               /\ pc'[t] \in {"insert", "write", "check", "commit", "done"}
               /\ pc'[t] = "commit" => Seen(t, Subject(t))' \in Settled
               /\ pc'[t] = "done" =>
                    \/ status'[Subject(t)'] \in Settled /\ answer'[t] = ReceiptFor(Subject(t), "ok")'
                    \/ answer'[t] = "overlap" /\ req'[t].op = "sell"
                    \/ answer'[t] = "error"
    <3>1. /\ t \in Req /\ pc'[t] = pc[t] /\ req'[t] = req[t] /\ answer'[t] = answer[t]
          /\ Subject(t)' = Subject(t)
        BY <2>1, <2>2, <2>3 DEF Subject
    <3>2. /\ req[t].op \in {"sell", "confirm"}
          /\ pc[t] \in {"insert", "write", "check", "commit", "done"}
        BY DEF PastGuardsInv
    <3>3. Subject(t) \in Req
        BY <3>1, <3>2, OpAt, CallsAssumption DEF Subject, Call
    <3>4. status[Subject(t)] \in Settled => status'[Subject(t)] \in Settled
                                             /\ ReceiptFor(Subject(t), "ok")' = ReceiptFor(Subject(t), "ok")
        BY <3>1, <3>3, SettledStays DEF ReceiptFor, Served
    <3>5. pend'[t] = pend[t]
        BY <1>2, <2>3, <3>1, OthersWrite
    <3>6. pc[t] = "commit" => Seen(t, Subject(t))' \in Settled
        BY <3>1, <3>3, <3>4, <3>5 DEF PastGuardsInv, Seen
    <3> QED
        BY <3>1, <3>2, <3>4, <3>6 DEF ChargeAnswered
  <2>4. ASSUME r \in charged
        PROVE  /\ req'[r].op \in {"sell", "confirm"}
               /\ pc'[r] \in {"insert", "write", "check", "commit", "done"}
               /\ pc'[r] = "commit" => Seen(r, Subject(r))' \in Settled
               /\ pc'[r] = "done" =>
                    \/ status'[Subject(r)'] \in Settled /\ answer'[r] = ReceiptFor(Subject(r), "ok")'
                    \/ answer'[r] = "overlap" /\ req'[r].op = "sell"
                    \/ answer'[r] = "error"
    <3>1. Subject(r) \in Req /\ Subject(r)' = Subject(r) /\ req'[r] = req[r]
          /\ req[r].op \in {"sell", "confirm"}
        BY <1>2, <2>4, PaidSteps
    <3>2. pc'[r] = "done" => UNCHANGED row
      <4>1. CASE Insert(r)
        BY <2>2, <2>4, <4>1 DEF Insert, Goto, CoreInv, TypeOK
      <4>2. CASE SetStatus(r) \/ Check(r) \/ Commit(r) \/ Rollback(r, "error")
        BY <4>2 DEF SetStatus, Check, Commit, Rollback, End
      <4> QED
        BY <1>2, <2>4, <4>1, <4>2, PaidSteps
    <3> QED
        BY <1>2, <2>4, <3>1, <3>2, PaidGoesOn DEF ReceiptFor
  <2>5. ASSUME r \notin charged, r \in charged'
        PROVE  /\ req'[r].op \in {"sell", "confirm"} /\ pc'[r] \in {"insert", "write"}
    BY <1>2, <2>1, <2>5, OpAt
  <2>6. PastGuardsInv'
    BY <2>1, <2>3, <2>4, <2>5 DEF PastGuardsInv
  <2>7. ChargeAnswered'
    BY <2>1, <2>3, <2>4, <2>5 DEF ChargeAnswered
  <2> QED
    BY <2>6, <2>7
<1> QED
    BY <1>1, <1>2 DEF Next

\* IInv holds in every state of every behaviour.
THEOREM PublishedInductive == Spec => []IInv
<1>1. Init => NewsInv
  <2> SUFFICES ASSUME Init PROVE NewsInv
    OBVIOUS
  <2> QED
    BY DEF Init, NewsInv, AnnouncedInv, StandingInv, PublishInv, KnownInv, ChangeAnnounced,
           NoWrites, Active, Absent
<1>2. CoreInv /\ NewsInv /\ [Next]_vars => NewsInv'
    BY NextNews
<1>3. Init => MoneyKnown
    BY DEF Init, MoneyKnown, PastGuardsInv, ChargeAnswered
<1>4. CoreInv /\ MoneyKnown /\ [Next]_vars => MoneyKnown'
    BY NextPaid
<1>5. CoreInv /\ NewsInv /\ MoneyKnown <=> IInv
    BY DEF IInv
<1> QED
    BY <1>1, <1>2, <1>3, <1>4, <1>5, Inductive, PTL DEF Spec

\* Whatever interleaves and fails, the insert, the confirmation and the cancellation of a
\* booking with a seat have been published by the time they are committed.
THEOREM CommittedIsAnnounced == Spec => []ChangeAnnounced
<1>1. IInv => ChangeAnnounced
    BY DEF IInv, NewsInv
<1> QED
    BY <1>1, PublishedInductive, PTL

\* Whatever interleaves, fails or is passed through, no rule refuses who has paid: the
\* answer is a receipt or that there is none, a sale's seat conflict, or a failure.
THEOREM PaidIsAnswered == Spec => []ChargeAnswered
<1>1. IInv => ChargeAnswered
    BY DEF IInv, MoneyKnown
<1> QED
    BY <1>1, PublishedInductive, PTL
=============================================================================
