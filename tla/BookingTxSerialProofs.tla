------------------------ MODULE BookingTxSerialProofs ------------------------
(***************************************************************************)
(* What BookingTx keeps when one request is served at a time, for any      *)
(* calls, seats and limits: the caps, one booking for a reference, legal   *)
(* transitions, and no OverlapError because of a lapsed hold; and, when no *)
(* connection or process fails in the middle, what becomes of the money.   *)
(***************************************************************************)
EXTENDS BookingTxSerial, BookingTxStepProofs, FiniteSetTheorems

\* The other requests have not begun or are over: they lock nothing and nobody waits.
LEMMA Alone ==
    ASSUME CoreInv, OneOpenInv, NEW r \in Req, pc[r] \notin {"new", "done"}
    PROVE  /\ \A t \in Req \ {r} : pc[t] \in {"new", "done"}
           /\ \A t \in Req \ {r}, b \in Req : pend[t][b] = Absent
           /\ \A b \in Req : Lockers(r, b) = {} /\ InDoubt(r, b) = {}
           /\ r \notin Deadlocked
<1>1. \A t \in Req \ {r} : pc[t] \in {"new", "done"}
    BY DEF OneOpenInv, Open
<1>2. \A t \in Req \ {r}, b \in Req : pend[t][b] = Absent
    BY <1>1 DEF CoreInv, QuietInv, NoWrites
<1>3. \A b \in Req : Lockers(r, b) = {} /\ InDoubt(r, b) = {}
  <2>1. \A b \in Req : InDoubt(r, b) = {}
    BY <1>2 DEF InDoubt
  <2>2. \A b \in Req : Lockers(r, b) = {}
    BY <1>2 DEF Lockers
  <2> QED
    BY <2>1, <2>2
<1>4. r \notin Deadlocked
  <2>1. WaitsFor(r) = {}
    <3>1. \A b \in NextDue(r) : b \in Req
        BY DEF NextDue, CoreInv, TypeOK
    <3>2. CASE pc[r] = "expire"
        BY <1>3, <3>1, <3>2 DEF WaitsFor
    <3>3. CASE pc[r] = "write"
        BY <1>3, <3>3, OpAt, CallsAssumption DEF WaitsFor, Subject, Call
    <3>4. CASE pc[r] = "check"
        BY <1>3, <3>4, OpAt, CallsAssumption DEF WaitsFor, Subject, Call
    <3>5. CASE pc[r] \notin {"expire", "write", "check"}
        BY <3>5 DEF WaitsFor
    <3> QED
        BY <3>2, <3>3, <3>4, <3>5
  <2> QED
    BY <2>1 DEF Deadlocked
<1> QED
    BY <1>1, <1>2, <1>3, <1>4

\* Who has not begun or is over knows nothing that could be wrong.
LEMMA IdleKnows ==
    ASSUME CoreInv', NEW t \in Req, pc'[t] \in {"new", "done"}, free'[t] = {}
    PROVE  KnowledgeInv(t)'
<1>1. (\A b \in Req : pend'[t][b] = Absent) /\ due'[t] = {}
    BY DEF CoreInv, QuietInv, DueInv, NoWrites
<1>2. LapsesKnown(t)' /\ LegalWrites(t)' /\ ReadIsCurrent(t)'
    BY <1>1 DEF LapsesKnown, LegalWrites, ReadIsCurrent
<1>3. RefIsUnknown(t)' /\ HasRoom(t)' /\ ScanIsCurrent(t)'
    BY DEF RefIsUnknown, HasRoom, ScanIsCurrent
<1> QED
    BY <1>2, <1>3 DEF KnowledgeInv

\* A step of the one open request that leaves it knowing what it must.
LEMMA StepKnows ==
    ASSUME CoreInv, CoreInv', SerialInv, NEW r \in Req, pc[r] \notin {"new", "done"},
           NEW p, pc' = [pc EXCEPT ![r] = p], UNCHANGED <<row, req>>,
           \A t \in Req \ {r} : free'[t] = free[t],
           row[r] # NoRow => p \in {"check", "commit", "done"},
           KnowledgeInv(r)'
    PROVE  SerialInv'
<1>1. \A t \in Req : pc'[t] = IF t = r THEN p ELSE pc[t]
    BY DEF CoreInv, TypeOK
<1>2. \A t \in Req \ {r} : pc[t] \in {"new", "done"}
    BY DEF SerialInv, OneOpenInv, Open
<1>3. OneOpenInv'
    BY <1>1, <1>2 DEF OneOpenInv, Open
<1>4. RowInv'
    BY <1>1 DEF SerialInv, RowInv, Books, ValidLeg
<1>5. RefInv'
    BY <1>1, <1>2 DEF SerialInv, RefInv
<1>6. \A t \in Req \ {r} : KnowledgeInv(t)'
  <2>1. \A t \in Req \ {r} : free'[t] = {}
    BY <1>2 DEF SerialInv, KnowledgeInv, ScanIsCurrent
  <2> QED
    BY <1>1, <1>2, <2>1, IdleKnows
<1> QED
    BY <1>3, <1>4, <1>5, <1>6 DEF SerialInv

\* The end of a request, by commit or by rollback.
LEMMA EndKnows ==
    ASSUME CoreInv, CoreInv', SerialInv, NEW r \in Req, pc[r] \notin {"new", "done"},
           NEW why, End(r, why)
    PROVE  SerialInv'
<1>1. /\ pc' = [pc EXCEPT ![r] = "done"] /\ UNCHANGED <<row, req>>
      /\ \A t \in Req \ {r} : free'[t] = free[t]
      /\ pc'[r] = "done" /\ free'[r] = {}
    BY DEF End, CoreInv, TypeOK
<1>2. KnowledgeInv(r)'
    BY <1>1, IdleKnows
<1> QED
    BY <1>1, <1>2, StepKnows

\* A statement that reads leaves what a request sees as it was.
LEMMA SameView ==
    ASSUME CoreInv, NEW r \in Req, UNCHANGED <<status, row, pend, req>>
    PROVE  /\ \A b \in Req : Seen(r, b)' = Seen(r, b)
           /\ LegalWrites(r) => LegalWrites(r)'
           /\ OthersActive(r)' = OthersActive(r) /\ OthersStanding(r)' = OthersStanding(r)
           /\ \A s : SeatLooksFree(r, s) => SeatLooksFree(r, s)'
<1>1. \A b \in Req : Seen(r, b)' = Seen(r, b)
    BY DEF Seen
<1>2. LegalWrites(r) => LegalWrites(r)'
    BY DEF LegalWrites
<1>3. OthersActive(r)' = OthersActive(r) /\ OthersStanding(r)' = OthersStanding(r)
    BY <1>1 DEF OthersActive, OthersStanding
<1>4. \A s : SeatLooksFree(r, s) => SeatLooksFree(r, s)'
    BY <1>1 DEF SeatLooksFree
<1> QED
    BY <1>1, <1>2, <1>3, <1>4

\* A reference that nobody else has.
LEMMA LookupKnows ==
    ASSUME CoreInv, CoreInv', SerialInv, NEW r \in Req, Lookup(r) PROVE SerialInv'
<1>1. pc[r] = "lookup"
    BY DEF Lookup, At
<1>2. CASE \E why : Rollback(r, why)
    BY <1>1, <1>2, EndKnows DEF Rollback
<1>3. CASE ~ \E why : Rollback(r, why)
  <2>1. /\ WithReference(r) = {} /\ pc' = [pc EXCEPT ![r] = "select"]
        /\ UNCHANGED <<status, row, pend, req, t0, due, free>>
    BY <1>3 DEF Lookup, Goto
  <2>2. pc'[r] = "select"
    BY <2>1 DEF CoreInv, TypeOK
  <2>3. due'[r] = {} /\ free'[r] = {}
    BY <1>1, <2>1, <2>2 DEF CoreInv, DueInv, SerialInv, KnowledgeInv, ScanIsCurrent
  <2>4. LapsesKnown(r)' /\ LegalWrites(r)' /\ ReadIsCurrent(r)'
    BY <2>1, <2>2, <2>3, SameView DEF LapsesKnown, ReadIsCurrent, SerialInv, KnowledgeInv
  <2>5. RefIsUnknown(r)'
    BY <2>1, SameView DEF RefIsUnknown, WithReference
  <2>6. HasRoom(r)' /\ ScanIsCurrent(r)'
    BY <2>2, <2>3 DEF HasRoom, ScanIsCurrent
  <2>7. row[r] = NoRow
    BY <1>1 DEF SerialInv, RowInv
  <2> QED
    BY <1>1, <2>1, <2>4, <2>5, <2>6, <2>7, StepKnows DEF KnowledgeInv
<1> QED
    BY <1>2, <1>3

\* A leg of the route, and nothing looked at yet.
LEMMA ValidateKnows ==
    ASSUME CoreInv, CoreInv', SerialInv, NEW r \in Req, Validate(r) PROVE SerialInv'
<1>1. pc[r] = "validate" /\ req[r].op = "browse"
    BY OpAt DEF Validate, At
<1>2. CASE \E why : Rollback(r, why)
    BY <1>1, <1>2, EndKnows DEF Rollback
<1>3. CASE ~ \E why : Rollback(r, why)
  <2>1. /\ pc' = [pc EXCEPT ![r] = "select"]
        /\ UNCHANGED <<status, row, pend, req, due, free>>
    BY <1>3 DEF Validate, Goto
  <2>2. pc'[r] = "select"
    BY <2>1 DEF CoreInv, TypeOK
  <2>3. due'[r] = {} /\ free'[r] = {} /\ row[r] = NoRow
    BY <1>1, <2>1, <2>2
    DEF CoreInv, DueInv, SerialInv, RowInv, KnowledgeInv, ScanIsCurrent
  <2>4. LapsesKnown(r)' /\ LegalWrites(r)' /\ ReadIsCurrent(r)'
    BY <2>1, <2>2, <2>3, SameView DEF LapsesKnown, ReadIsCurrent, SerialInv, KnowledgeInv
  <2>5. RefIsUnknown(r)' /\ HasRoom(r)' /\ ScanIsCurrent(r)'
    BY <1>1, <2>1, <2>2, <2>3 DEF RefIsUnknown, Books, HasRoom, ScanIsCurrent
  <2> QED
    BY <1>1, <2>1, <2>3, <2>4, <2>5, StepKnows DEF KnowledgeInv
<1> QED
    BY <1>2, <1>3

\* Every lapsed hold is selected.
LEMMA SelectDueKnows ==
    ASSUME CoreInv, CoreInv', SerialInv, NEW r \in Req, SelectDue(r) PROVE SerialInv'
<1> DEFINE p == IF Lapsed(r) = {} THEN AfterExpiry(r) ELSE "expire"
<1>1. pc[r] = "select" /\ req[r].op # "cancel"
    BY OpAt DEF SelectDue, At
<1>2. /\ pc' = [pc EXCEPT ![r] = p] /\ due' = [due EXCEPT ![r] = Lapsed(r)]
      /\ UNCHANGED <<status, row, pend, req, t0, free>>
    BY DEF SelectDue, Goto
<1>3. pc'[r] = p /\ due'[r] = Lapsed(r) /\ p \in {"admit", "get", "view", "expire"}
    BY <1>2 DEF CoreInv, TypeOK, AfterExpiry
<1>4. \A b \in Req : pend[r][b] = Absent
    BY <1>1 DEF CoreInv, QuietInv, NoWrites
<1>5. free'[r] = {} /\ row[r] = NoRow
    BY <1>1, <1>2 DEF SerialInv, RowInv, KnowledgeInv, ScanIsCurrent
<1> HIDE DEF p
<1>6. LapsesKnown(r)'
    BY <1>2, <1>3, <1>4 DEF LapsesKnown, Lapsed, Seen
<1>7. LegalWrites(r)' /\ ReadIsCurrent(r)'
    BY <1>2, <1>3, SameView DEF ReadIsCurrent, SerialInv, KnowledgeInv
<1>8. RefIsUnknown(r)'
    BY <1>1, <1>2, <1>3, SameView DEF RefIsUnknown, Books, SerialInv, KnowledgeInv
<1>9. HasRoom(r)' /\ ScanIsCurrent(r)'
    BY <1>3, <1>5 DEF HasRoom, ScanIsCurrent
<1> QED
    BY <1>1, <1>2, <1>5, <1>6, <1>7, <1>8, <1>9, StepKnows DEF KnowledgeInv

\* One hold fewer to retire.
LEMMA ExpireRowKnows ==
    ASSUME CoreInv, CoreInv', SerialInv, NEW r \in Req, ExpireRow(r) PROVE SerialInv'
<1>1. pc[r] = "expire" /\ req[r].op # "cancel"
    BY OpAt DEF ExpireRow, At
<1>2. PICK b \in due[r], p \in {"admit", "get", "view", "expire"} :
        /\ pc' = [pc EXCEPT ![r] = p]
        /\ pend' = [pend EXCEPT ![r][b] = "EXPIRED"]
        /\ due' = [due EXCEPT ![r] = @ \ {b}]
        /\ UNCHANGED <<status, row, req, t0, free>>
    BY DEF ExpireRow, NextDue, Goto, AfterExpiry
<1>3. b \in Req /\ status[b] = "HELD" /\ pend[r][b] = Absent
    BY DEF SerialInv, KnowledgeInv, LapsesKnown, CoreInv, TypeOK
<1>4. /\ pc'[r] = p /\ due'[r] = due[r] \ {b} /\ due[r] \subseteq Req
      /\ \A c \in Req : pend'[r][c] = IF c = b THEN "EXPIRED" ELSE pend[r][c]
    BY <1>2, <1>3 DEF CoreInv, TypeOK
<1>5. \A c \in Req : Seen(r, c)' = IF c = b THEN "EXPIRED" ELSE Seen(r, c)
    BY <1>2, <1>4 DEF Seen, Absent
<1>6. LapsesKnown(r)'
    BY <1>1, <1>2, <1>4, <1>5 DEF LapsesKnown, SerialInv, KnowledgeInv
<1>7. LegalWrites(r)'
  <2>1. <<status[b], "EXPIRE", "EXPIRED">> \in Transitions /\ status[b] # Absent
    BY <1>3 DEF Transitions, Absent
  <2>2. \A c \in Req : pend'[r][c] # Absent =>
            IF status[c] = Absent THEN pend'[r][c] \in {"HELD", "CONFIRMED", "STANDING"}
            ELSE \E e \in BEvent : <<status[c], e, pend'[r][c]>> \in Transitions
    BY <1>4, <2>1 DEF LegalWrites, SerialInv, KnowledgeInv, BEvent
  <2> QED
    BY <1>2, <2>2 DEF LegalWrites
<1>8. ReadIsCurrent(r)' /\ HasRoom(r)'
    BY <1>4 DEF ReadIsCurrent, HasRoom
<1>9. RefIsUnknown(r)'
  <2>1. Seen(r, b) # Absent
    BY <1>3 DEF Seen, Absent
  <2> QED
    BY <1>1, <1>2, <1>5, <2>1 DEF RefIsUnknown, Books, SerialInv, KnowledgeInv
<1>10. ScanIsCurrent(r)' /\ row[r] = NoRow
    BY <1>1, <1>2, <1>4 DEF ScanIsCurrent, SerialInv, KnowledgeInv, RowInv
<1> QED
    BY <1>1, <1>2, <1>6, <1>7, <1>8, <1>9, <1>10, StepKnows DEF KnowledgeInv

\* What a request counts is finite.
LEMMA FewerThan ==
    ASSUME NEW S \in SUBSET Req, NEW T \in SUBSET S
    PROVE  /\ IsFiniteSet(S) /\ IsFiniteSet(T)
           /\ Cardinality(S) \in Nat /\ Cardinality(T) \in Nat
           /\ Cardinality(T) <= Cardinality(S)
BY ReqAssumption, FS_Subset, FS_CardinalityType

\* There is room for one more.
LEMMA AdmitKnows ==
    ASSUME CoreInv, CoreInv', SerialInv, NEW r \in Req, Admit(r) PROVE SerialInv'
<1> DEFINE p == IF req[r].op = "sell" THEN "scan" ELSE "insert"
<1>1. pc[r] = "admit"
    BY DEF Admit, At
<1>2. CASE \E why : Rollback(r, why)
    BY <1>1, <1>2, EndKnows DEF Rollback
<1>3. CASE ~ \E why : Rollback(r, why)
  <2>1. /\ Refusals(r) = {} /\ pc' = [pc EXCEPT ![r] = p]
        /\ UNCHANGED <<status, row, pend, req, t0, due, free>>
    BY <1>3 DEF Admit, Goto
  <2>2. pc'[r] = p
    BY <2>1 DEF CoreInv, TypeOK
  <2>3. free'[r] = {} /\ row[r] = NoRow
    BY <1>1, <2>1 DEF SerialInv, RowInv, KnowledgeInv, ScanIsCurrent
  <2>4. LapsesKnown(r)' /\ LegalWrites(r)' /\ ReadIsCurrent(r)' /\ RefIsUnknown(r)'
    BY <1>1, <2>1, <2>2, SameView
    DEF LapsesKnown, ReadIsCurrent, RefIsUnknown, Books, SerialInv, KnowledgeInv
  <2>5. HasRoom(r)'
    <3>1. ValidLeg(req[r].leg) /\ ~Capped(r)
        BY <2>1 DEF Refusals
    <3>2. OthersActive(r) \subseteq ActiveOf(r) /\ ActiveOf(r) \subseteq Req
        BY DEF OthersActive, ActiveOf
    <3>3. Cardinality(OthersActive(r)) < SeatCap
        BY <3>1, <3>2, FewerThan, LimitAssumption DEF Capped
    <3> QED
        BY <2>1, <2>2, <3>1, <3>3, SameView DEF HasRoom, ValidLeg
  <2>6. ScanIsCurrent(r)'
    BY <2>2, <2>3 DEF ScanIsCurrent
  <2> QED
    BY <1>1, <2>1, <2>3, <2>4, <2>5, <2>6, StepKnows DEF KnowledgeInv
<1> QED
    BY <1>2, <1>3

\* A seat found free is free.
LEMMA ScanSeatKnows ==
    ASSUME CoreInv, CoreInv', SerialInv, NEW r \in Req, ScanSeat(r) PROVE SerialInv'
<1>1. pc[r] = "scan" /\ req[r].op = "sell"
    BY OpAt DEF ScanSeat, At
<1>2. PICK p \in {"scan", "count", "charge"}, f \in SUBSET Seat :
        /\ pc' = [pc EXCEPT ![r] = p] /\ free' = [free EXCEPT ![r] = f]
        /\ \A s \in f : s \in free[r] \/ SeatLooksFree(r, s)
        /\ p = "count" => f = {}
        /\ p = "charge" => f # {}
        /\ UNCHANGED <<status, row, pend, req, t0, due>>
  <2>1. pc = [pc EXCEPT ![r] = "scan"] /\ free = [free EXCEPT ![r] = free[r]]
    BY <1>1 DEF CoreInv, TypeOK
  <2>2. UNCHANGED <<status, row, pend, req, t0, due>>
    BY DEF ScanSeat
  <2>3. PICK s \in unread[r] :
        LET found == free[r] \cup (IF SeatLooksFree(r, s) THEN {s} ELSE {})
        IN  IF unread[r] # {s}
            THEN free' = [free EXCEPT ![r] = found] /\ UNCHANGED pc
            ELSE \/ /\ found = {}
                    /\ Goto(r, "count")
                    /\ UNCHANGED free
                 \/ \E chosen \in found :
                    /\ free' = [free EXCEPT ![r] = {chosen}]
                    /\ Goto(r, "charge")
    BY DEF ScanSeat
  <2> DEFINE found == free[r] \cup (IF SeatLooksFree(r, s) THEN {s} ELSE {})
  <2>4. \A u \in found : u \in free[r] \/ SeatLooksFree(r, u)
    OBVIOUS
  <2>5. found \in SUBSET Seat /\ free[r] \in SUBSET Seat
    BY DEF CoreInv, TypeOK
  <2>6. found = {} => free[r] = {}
    OBVIOUS
  <2> HIDE DEF found
  <2>7. CASE UNCHANGED pc /\ free' = [free EXCEPT ![r] = found]
    BY <2>1, <2>2, <2>4, <2>5, <2>7
  <2>8. CASE found = {} /\ Goto(r, "count") /\ UNCHANGED free
    BY <2>1, <2>2, <2>5, <2>6, <2>8 DEF Goto
  <2>9. ASSUME NEW chosen \in found, free' = [free EXCEPT ![r] = {chosen}],
               Goto(r, "charge")
        PROVE \E p \in {"scan", "count", "charge"}, f \in SUBSET Seat :
                /\ pc' = [pc EXCEPT ![r] = p] /\ free' = [free EXCEPT ![r] = f]
                /\ \A u \in f : u \in free[r] \/ SeatLooksFree(r, u)
                /\ p = "count" => f = {}
                /\ p = "charge" => f # {}
                /\ UNCHANGED <<status, row, pend, req, t0, due>>
    BY <2>2, <2>4, <2>5, <2>9 DEF Goto
  <2> QED
    BY <2>3, <2>7, <2>8, <2>9 DEF found
<1>3. pc'[r] = p /\ free'[r] = f /\ \A t \in Req \ {r} : free'[t] = free[t]
    BY <1>2 DEF CoreInv, TypeOK
<1>4. row[r] = NoRow
    BY <1>1 DEF SerialInv, RowInv
<1>5. LapsesKnown(r)' /\ LegalWrites(r)' /\ ReadIsCurrent(r)' /\ RefIsUnknown(r)'
    BY <1>1, <1>2, <1>3, SameView
    DEF LapsesKnown, ReadIsCurrent, RefIsUnknown, Books, SerialInv, KnowledgeInv
<1>6. HasRoom(r)'
    BY <1>1, <1>2, <1>3, SameView
    DEF HasRoom, Books, ValidLeg, SerialInv, KnowledgeInv
<1>7. ScanIsCurrent(r)'
  <2>1. \A s \in f : SeatLooksFree(r, s)'
    BY <1>1, <1>2, SameView DEF ScanIsCurrent, SerialInv, KnowledgeInv
  <2> QED
    BY <1>1, <1>2, <1>3, <2>1 DEF ScanIsCurrent
<1> QED
    BY <1>1, <1>2, <1>3, <1>4, <1>5, <1>6, <1>7, StepKnows DEF KnowledgeInv

\* There is room for one more to stand.
LEMMA CountStandingKnows ==
    ASSUME CoreInv, CoreInv', SerialInv, NEW r \in Req, CountStanding(r) PROVE SerialInv'
<1>1. pc[r] = "count" /\ req[r].op = "sell"
    BY OpAt DEF CountStanding, At
<1>2. CASE \E why : Rollback(r, why)
    BY <1>1, <1>2, EndKnows DEF Rollback
<1>3. CASE ~ \E why : Rollback(r, why)
  <2>1. /\ ~Full(r) /\ pc' = [pc EXCEPT ![r] = "charge"]
        /\ UNCHANGED <<status, row, pend, req, t0, due, free>>
    BY <1>3 DEF CountStanding, Goto
  <2>2. pc'[r] = "charge"
    BY <2>1 DEF CoreInv, TypeOK
  <2>3. free'[r] = {} /\ row[r] = NoRow
    BY <1>1, <2>1 DEF SerialInv, RowInv, KnowledgeInv, ScanIsCurrent
  <2>4. LapsesKnown(r)' /\ LegalWrites(r)' /\ ReadIsCurrent(r)' /\ RefIsUnknown(r)'
    BY <1>1, <2>1, <2>2, SameView
    DEF LapsesKnown, ReadIsCurrent, RefIsUnknown, Books, SerialInv, KnowledgeInv
  <2>5. HasRoom(r)'
    <3>1. OthersStanding(r) \subseteq Standing(r) /\ Standing(r) \subseteq Req
        BY DEF OthersStanding, Standing
    <3>2. Cardinality(OthersStanding(r)) < StandingCap
        BY <2>1, <3>1, FewerThan, LimitAssumption DEF Full
    <3> QED
        BY <1>1, <2>1, <2>2, <3>2, SameView
        DEF HasRoom, Books, ValidLeg, SerialInv, KnowledgeInv
  <2>6. ScanIsCurrent(r)'
    BY <2>2, <2>3 DEF ScanIsCurrent
  <2> QED
    BY <1>1, <2>1, <2>3, <2>4, <2>5, <2>6, StepKnows DEF KnowledgeInv
<1> QED
    BY <1>2, <1>3

\* The payment changes nothing the request has read.
LEMMA ChargeKnows ==
    ASSUME CoreInv, CoreInv', SerialInv, NEW r \in Req, Charge(r) PROVE SerialInv'
<1> DEFINE p == IF req[r].op = "sell" THEN "insert" ELSE "write"
<1>1. pc[r] = "charge" /\ req[r].op \in {"sell", "confirm"}
    BY OpAt DEF Charge, At
<1>2. CASE \E why : Rollback(r, why)
    BY <1>1, <1>2, EndKnows DEF Rollback
<1>3. CASE ~ \E why : Rollback(r, why)
  <2>1. /\ pc' = [pc EXCEPT ![r] = p]
        /\ UNCHANGED <<status, row, pend, req, t0, due, free, got>>
    BY <1>3 DEF Charge, Goto
  <2>2. pc'[r] = p /\ row[r] = NoRow
    BY <1>1, <2>1 DEF CoreInv, TypeOK, SerialInv, RowInv
  <2>3. LapsesKnown(r)' /\ LegalWrites(r)' /\ RefIsUnknown(r)'
    BY <1>1, <2>1, <2>2, SameView
    DEF LapsesKnown, RefIsUnknown, Books, SerialInv, KnowledgeInv
  <2>4. ReadIsCurrent(r)'
    BY <1>1, <2>1, <2>2 DEF ReadIsCurrent, SerialInv, KnowledgeInv
  <2>5. HasRoom(r)'
    BY <1>1, <2>1, <2>2, SameView DEF HasRoom, Books, ValidLeg, SerialInv, KnowledgeInv
  <2>6. ScanIsCurrent(r)'
    <3>1. \A s \in free[r] : SeatLooksFree(r, s)'
        BY <1>1, <2>1, SameView DEF ScanIsCurrent, SerialInv, KnowledgeInv
    <3>2. p = "write" => free[r] = {}
        BY <1>1, <2>1, <2>2, OpAt DEF SerialInv, KnowledgeInv, ScanIsCurrent
    <3> QED
        BY <2>1, <2>2, <3>1, <3>2 DEF ScanIsCurrent
  <2> QED
    BY <1>1, <2>1, <2>2, <2>3, <2>4, <2>5, <2>6, StepKnows DEF KnowledgeInv
<1> QED
    BY <1>2, <1>3

\* The status read is the committed one: what the request itself has retired it may not
\* confirm.
LEMMA GetKnows ==
    ASSUME CoreInv, CoreInv', SerialInv, NEW r \in Req, Get(r) PROVE SerialInv'
<1> DEFINE b == req[r].target
           p == IF req[r].op = "confirm" THEN "charge" ELSE "write"
<1>1. pc[r] = "get" /\ req[r].op \in {"confirm", "cancel"} /\ b \in Req
    BY OpAt, CallsAssumption DEF Get, At, Call
<1>2. CASE \E why : Rollback(r, why)
    BY <1>1, <1>2, EndKnows DEF Rollback
<1>3. CASE ~ \E why : Rollback(r, why)
  <2>1. /\ pc' = [pc EXCEPT ![r] = p] /\ got' = [got EXCEPT ![r] = Seen(r, b)]
        /\ CanApply(Seen(r, b), EventOf(r))
        /\ UNCHANGED <<status, row, pend, req, t0, due, free>>
    BY <1>3 DEF Get, Goto
  <2>2. pc'[r] = p /\ got'[r] = Seen(r, b) /\ row[r] = NoRow
    BY <1>1, <2>1 DEF CoreInv, TypeOK, SerialInv, RowInv
  <2>3. pend[r][b] = Absent /\ Seen(r, b) = status[b]
    <3>1. ~OwnWrite(r, b)
        BY <1>1 DEF OwnWrite
    <3>2. Seen(r, b) # "EXPIRED"
        BY <2>1 DEF CanApply, Transitions
    <3>3. pend[r][b] # Absent => pend[r][b] = "EXPIRED"
        BY <1>1, <3>1 DEF CoreInv, WriteInv, ExpiryWrite
    <3> QED
        BY <3>2, <3>3 DEF Seen
  <2>4. LapsesKnown(r)' /\ LegalWrites(r)'
    BY <1>1, <2>1, <2>2, SameView DEF LapsesKnown, SerialInv, KnowledgeInv
  <2>5. ReadIsCurrent(r)'
    BY <2>1, <2>2, <2>3 DEF ReadIsCurrent
  <2>6. RefIsUnknown(r)' /\ HasRoom(r)'
    BY <1>1, <2>1 DEF RefIsUnknown, HasRoom, Books
  <2>7. ScanIsCurrent(r)'
    BY <1>1, <2>1, <2>2 DEF ScanIsCurrent, Books, SerialInv, KnowledgeInv
  <2> QED
    BY <1>1, <2>1, <2>2, <2>4, <2>5, <2>6, <2>7, StepKnows DEF KnowledgeInv
<1> QED
    BY <1>2, <1>3

\* A reader has nothing to be wrong about.
LEMMA ViewKnows ==
    ASSUME CoreInv, CoreInv', SerialInv, NEW r \in Req, View(r) PROVE SerialInv'
<1>1. pc[r] = "view" /\ req[r].op \in {"browse", "verify"}
    BY OpAt DEF View, At
<1>2. CASE \E why : Rollback(r, why)
    BY <1>1, <1>2, EndKnows DEF Rollback
<1>3. CASE ~ \E why : Rollback(r, why)
  <2>1. /\ pc' = [pc EXCEPT ![r] = "commit"]
        /\ UNCHANGED <<status, row, pend, req, t0, due, free>>
    BY <1>3 DEF View, Goto
  <2>2. pc'[r] = "commit" /\ row[r] = NoRow /\ free'[r] = {}
    BY <1>1, <2>1
    DEF CoreInv, TypeOK, SerialInv, RowInv, KnowledgeInv, ScanIsCurrent
  <2>3. LapsesKnown(r)' /\ LegalWrites(r)'
    BY <1>1, <2>1, <2>2, SameView DEF LapsesKnown, SerialInv, KnowledgeInv
  <2>4. ReadIsCurrent(r)' /\ RefIsUnknown(r)' /\ HasRoom(r)' /\ ScanIsCurrent(r)'
    BY <1>1, <2>1, <2>2 DEF ReadIsCurrent, RefIsUnknown, HasRoom, ScanIsCurrent, Books
  <2> QED
    BY <1>1, <2>1, <2>2, <2>3, <2>4, StepKnows DEF KnowledgeInv
<1> QED
    BY <1>2, <1>3

\* What apply makes of a status it accepts.
LEMMA ApplyIsTransition ==
    ASSUME NEW current, NEW event, CanApply(current, event)
    PROVE  /\ <<current, event, ApplyEvent(current, event)>> \in Transitions
           /\ ApplyEvent(current, event) # current
           /\ ApplyEvent(current, event) \notin {"HELD", Absent}
           /\ event = "CONFIRM" => ApplyEvent(current, event) = "CONFIRMED"
           /\ event = "CANCEL" => ApplyEvent(current, event) = "CANCELLED"
<1>1. PICK t \in BStatus : <<current, event, t>> \in Transitions
    BY DEF CanApply
<1>2. <<current, event, ApplyEvent(current, event)>> \in Transitions
    BY <1>1 DEF ApplyEvent
<1> QED
    BY <1>2 DEF Transitions, Absent

\* The update is the transition the guard allowed.
LEMMA SetStatusKnows ==
    ASSUME CoreInv, CoreInv', SerialInv, NEW r \in Req, SetStatus(r) PROVE SerialInv'
<1> DEFINE b == req[r].target
           target == ApplyEvent(got[r], EventOf(r))
<1>1. /\ pc[r] = "write" /\ req[r].op \in {"confirm", "cancel"} /\ b \in Req
      /\ status[b] # Absent /\ CanApply(got[r], EventOf(r))
  <2>1. pc[r] = "write" /\ req[r] \in Calls /\ req[r].op \in {"confirm", "cancel"}
    BY OpAt DEF SetStatus, At
  <2> QED
    BY <2>1, CallsAssumption DEF Call, CoreInv, TargetInv
<1>2. /\ <<got[r], EventOf(r), target>> \in Transitions /\ target # got[r]
      /\ target \notin {"HELD", Absent}
      /\ req[r].op = "confirm" => target = "CONFIRMED"
    BY <1>1, ApplyIsTransition DEF EventOf
<1> HIDE DEF target
<1>3. status[b] = got[r] /\ pend[r][b] = Absent
    BY <1>1 DEF SerialInv, KnowledgeInv, ReadIsCurrent
<1>4. Seen(r, b) # target
    BY <1>2, <1>3 DEF Seen
<1>5. PICK p \in {"check", "commit"} :
        /\ pc' = [pc EXCEPT ![r] = p] /\ pend' = [pend EXCEPT ![r][b] = target]
        /\ target = "CONFIRMED" => p = "check"
        /\ UNCHANGED <<status, row, req, t0, due, free>>
    BY <1>4 DEF SetStatus, Goto, Active, target
<1>6. /\ pc'[r] = p /\ row[r] = NoRow
      /\ \A c \in Req : pend'[r][c] = IF c = b THEN target ELSE pend[r][c]
    BY <1>1, <1>5 DEF CoreInv, TypeOK, SerialInv, RowInv
<1>7. \A c \in Req : Seen(r, c)' = IF c = b THEN target ELSE Seen(r, c)
    BY <1>2, <1>5, <1>6 DEF Seen
<1>8. LapsesKnown(r)'
  <2>1. due[r] = {}
    BY <1>1 DEF CoreInv, DueInv
  <2> QED
    BY <1>1, <1>2, <1>5, <1>6, <1>7, <2>1 DEF LapsesKnown, SerialInv, KnowledgeInv
<1>9. LegalWrites(r)'
  <2>1. EventOf(r) \in BEvent
    BY DEF EventOf, BEvent
  <2>2. \A c \in Req : pend'[r][c] # Absent =>
            IF status[c] = Absent THEN pend'[r][c] \in {"HELD", "CONFIRMED", "STANDING"}
            ELSE \E e \in BEvent : <<status[c], e, pend'[r][c]>> \in Transitions
    BY <1>1, <1>2, <1>3, <1>6, <2>1 DEF LegalWrites, SerialInv, KnowledgeInv
  <2> QED
    BY <1>5, <2>2 DEF LegalWrites
<1>10. ReadIsCurrent(r)'
    BY <1>2, <1>5, <1>6 DEF ReadIsCurrent
<1>11. RefIsUnknown(r)' /\ HasRoom(r)'
    BY <1>1, <1>5 DEF RefIsUnknown, HasRoom, Books
<1>12. ScanIsCurrent(r)'
    BY <1>1, <1>5, <1>6 DEF ScanIsCurrent, Books, SerialInv, KnowledgeInv
<1> QED
    BY <1>1, <1>5, <1>6, <1>8, <1>9, <1>10, <1>11, <1>12, StepKnows DEF KnowledgeInv

\* A check that passes changes nothing.
LEMMA CheckKnows ==
    ASSUME CoreInv, CoreInv', SerialInv, NEW r \in Req, Check(r) PROVE SerialInv'
<1>1. pc[r] = "check" /\ req[r].op \in {"hold", "sell", "confirm"}
    BY OpAt DEF Check, At
<1>2. CASE \E why : Rollback(r, why)
    BY <1>1, <1>2, EndKnows DEF Rollback
<1>3. CASE ~ \E why : Rollback(r, why)
  <2>1. /\ pc' = [pc EXCEPT ![r] = "commit"]
        /\ UNCHANGED <<status, row, pend, req, t0, due, free>>
    BY <1>3 DEF Check, Goto
  <2>2. pc'[r] = "commit"
    BY <2>1 DEF CoreInv, TypeOK
  <2>3. LapsesKnown(r)' /\ LegalWrites(r)' /\ RefIsUnknown(r)'
    BY <1>1, <2>1, <2>2, SameView
    DEF LapsesKnown, RefIsUnknown, Books, SerialInv, KnowledgeInv
  <2>4. pend[r][Subject(r)] \in Active
    BY <1>1 DEF CoreInv, CheckInv
  <2>5. ReadIsCurrent(r)'
    <3>1. req[r].op = "confirm" => req[r].target \in Req
        BY <1>1, OpAt, CallsAssumption DEF Call
    <3>2. req[r].op = "confirm" => pend[r][req[r].target] = "CONFIRMED"
        BY <2>4, <3>1, ActiveWrite DEF OwnWrite, Subject
    <3> QED
        BY <2>1, <2>2, <3>2 DEF ReadIsCurrent
  <2>6. HasRoom(r)'
    <3>1. req[r].op = "sell" => free[r] # {}
        BY <1>1, <2>4
        DEF SerialInv, KnowledgeInv, ScanIsCurrent, Books, NewStatus, Subject, Active
    <3> QED
        BY <1>1, <2>1, <2>2, <3>1, SameView
        DEF HasRoom, Books, ValidLeg, SerialInv, KnowledgeInv
  <2>7. ScanIsCurrent(r)'
    BY <1>1, <2>1, <2>2 DEF ScanIsCurrent, Books, NewStatus, SerialInv, KnowledgeInv
  <2> QED
    BY <1>1, <2>1, <2>3, <2>5, <2>6, <2>7, StepKnows DEF KnowledgeInv
<1> QED
    BY <1>2, <1>3

\* The row is what was asked for, on a seat that nobody has.
LEMMA InsertKnows ==
    ASSUME CoreInv, CoreInv', SerialInv, NEW r \in Req, Insert(r) PROVE SerialInv'
<1> DEFINE p == IF NewStatus(r) \in Active THEN "check" ELSE "commit"
<1>1. pc[r] = "insert" /\ req[r].op \in {"hold", "sell"} /\ status[r] = Absent
    BY OpAt DEF Insert, At, CoreInv, IssuedInv
<1>2. /\ \A t \in Req : /\ pc'[t] = IF t = r THEN p ELSE pc[t]
                        /\ row'[t] = IF t = r THEN NewRow(r) ELSE row[t]
      /\ \A b \in Req : pend'[r][b] = IF b = r THEN NewStatus(r) ELSE pend[r][b]
    BY DEF Insert, Goto, CoreInv, TypeOK
<1>3. UNCHANGED <<status, req, t0, due, free, got>>
    BY DEF Insert
<1>4. \A b \in Req \ {r} : Seen(r, b)' = Seen(r, b)
    BY <1>2, <1>3 DEF Seen
<1>5. NewStatus(r)' = NewStatus(r) /\ NewStatus(r) \in {"HELD", "CONFIRMED", "STANDING"}
    BY <1>3 DEF NewStatus
<1>6. \A t \in Req \ {r} : pc[t] \in {"new", "done"}
    BY <1>1 DEF SerialInv, OneOpenInv, Open
<1>7. OneOpenInv' /\ RefInv'
    BY <1>1, <1>2, <1>3, <1>6 DEF OneOpenInv, Open, SerialInv, RefInv
<1>8. RowInv'
  <2>1. ValidLeg(req[r].leg)
    BY <1>1 DEF SerialInv, KnowledgeInv, HasRoom, Books
  <2>2. ASSUME NEW b \in Req, row'[b] # NoRow
        PROVE  /\ pc'[b] \in {"check", "commit", "done"} /\ Books(b)'
               /\ row'[b].trip = req[b].trip /\ row'[b].class = req[b].class
               /\ row'[b].who = req[b].who /\ row'[b].leg = req[b].leg
               /\ row'[b].ref = IF req[b].ref = NoRef THEN b ELSE req[b].ref
               /\ ValidLeg(row'[b].leg)
    <3>1. CASE b = r
        BY <1>1, <1>2, <1>3, <2>1, <3>1 DEF NewRow, Books
    <3>2. CASE b # r
        BY <1>2, <1>3, <2>2, <3>2 DEF SerialInv, RowInv, Books
    <3> QED
        BY <3>1, <3>2
  <2> QED
    BY <1>3, <2>2 DEF RowInv, ValidLeg
<1>9. \A t \in Req \ {r} : KnowledgeInv(t)'
  <2>1. \A t \in Req \ {r} : free'[t] = {} /\ pc'[t] \in {"new", "done"}
    BY <1>2, <1>3, <1>6 DEF SerialInv, KnowledgeInv, ScanIsCurrent
  <2> QED
    BY <2>1, IdleKnows
<1>10. LapsesKnown(r)'
  <2>1. due[r] = {}
    BY <1>1 DEF CoreInv, DueInv
  <2> QED
    BY <1>1, <1>2, <1>3, <1>4, <2>1 DEF LapsesKnown, SerialInv, KnowledgeInv
<1>11. LegalWrites(r)'
    BY <1>1, <1>2, <1>3, <1>5 DEF LegalWrites, SerialInv, KnowledgeInv
<1>12. ReadIsCurrent(r)'
    BY <1>1, <1>2, <1>3 DEF ReadIsCurrent
<1>13. RefIsUnknown(r)'
    BY <1>1, <1>2, <1>3, <1>4 DEF RefIsUnknown, Books, SerialInv, KnowledgeInv
<1>14. HasRoom(r)'
  <2>1. OthersActive(r)' = OthersActive(r) /\ OthersStanding(r)' = OthersStanding(r)
    BY <1>2, <1>3, <1>4 DEF OthersActive, OthersStanding
  <2> QED
    BY <1>1, <1>2, <1>3, <2>1 DEF HasRoom, Books, ValidLeg, SerialInv, KnowledgeInv
<1>15. ScanIsCurrent(r)'
  <2>1. p = "check" /\ req[r].op = "sell" => ~Taken(r, r)'
    <3>1. SUFFICES ASSUME p = "check", req[r].op = "sell", NEW c \in Req \ {r},
                          Seen(r, c)' \in Active
                   PROVE  ~Clash(row'[r], row'[c])
        BY DEF Taken
    <3>2. free[r] # {}
        BY <3>1 DEF NewStatus, Active
    <3>3. SeatFor(r) \in free[r]
        BY <3>1, <3>2 DEF SeatFor
    <3>4. SeatLooksFree(r, SeatFor(r))
        BY <1>1, <3>3 DEF SerialInv, KnowledgeInv, ScanIsCurrent
    <3>5. ~ /\ row[c].trip = req[r].trip /\ row[c].seat = SeatFor(r)
            /\ Overlaps(row[c].leg, req[r].leg)
        BY <1>4, <3>1, <3>4 DEF SeatLooksFree
    <3>6. /\ row'[r].trip = req[r].trip /\ row'[r].leg = req[r].leg
          /\ row'[r].seat = SeatFor(r) /\ row'[c] = row[c]
        BY <1>2 DEF NewRow
    <3> QED
        BY <3>5, <3>6 DEF Clash, Overlaps
  <2>2. p \in {"check", "commit"} /\ pc'[r] = p /\ pend'[r][r] = NewStatus(r)
    BY <1>2
  <2>3. free[r] # {} => req[r].op = "sell"
    BY DEF SerialInv, KnowledgeInv, ScanIsCurrent
  <2> HIDE DEF p
  <2> QED
    BY <1>3, <1>5, <2>1, <2>2, <2>3 DEF ScanIsCurrent
<1> QED
    BY <1>7, <1>8, <1>9, <1>10, <1>11, <1>12, <1>13, <1>14, <1>15
    DEF SerialInv, KnowledgeInv

\* With one thread a request arrives when nobody else is being served.
LEMMA BeginKnows ==
    ASSUME Threads = 1, CoreInv, CoreInv', SerialInv, NEW r \in Req, NEW c \in Calls,
           Begin(r, c)
    PROVE  SerialInv'
<1>1. \A t \in Req : pc[t] \in {"new", "done"}
  <2>1. Cardinality(Open) < 1 /\ IsFiniteSet(Open)
    BY ReqAssumption, FS_Subset DEF Begin, Open
  <2>2. Open = {}
    BY <2>1, FS_CardinalityType, FS_EmptySet
  <2> QED
    BY <2>2 DEF Open
<1>2. /\ pc[r] = "new" /\ c \in Call /\ (c.ref \in Req => pc[c.ref] = "done")
      /\ UNCHANGED <<status, row, pend, due, free, got>>
    BY CallsAssumption DEF Begin, At
<1>3. \A t \in Req : /\ pc'[t] = IF t = r THEN FirstPhase(c) ELSE pc[t]
                     /\ req'[t] = IF t = r THEN c ELSE req[t]
    BY DEF Begin, Goto, CoreInv, TypeOK
<1>4. /\ FirstPhase(c) \in {"lookup", "get", "validate", "select"}
      /\ FirstPhase(c) = "get" => c.op = "cancel"
      /\ c.op \in {"hold", "sell"} /\ c.ref # NoRef => FirstPhase(c) = "lookup"
    BY <1>2 DEF FirstPhase, Call
<1> HIDE DEF FirstPhase
<1>5. OneOpenInv'
    BY <1>1, <1>3 DEF OneOpenInv, Open
<1>6. RowInv'
    BY <1>2, <1>3 DEF SerialInv, RowInv, Books, ValidLeg
<1>7. RefInv'
    BY <1>2, <1>3 DEF SerialInv, RefInv
<1>8. /\ \A t \in Req : free'[t] = {}
      /\ due'[r] = {} /\ \A b \in Req : pend'[r][b] = Absent
    BY <1>1, <1>2
    DEF SerialInv, KnowledgeInv, ScanIsCurrent, CoreInv, DueInv, QuietInv, NoWrites
<1>9. \A t \in Req \ {r} : KnowledgeInv(t)'
    BY <1>1, <1>3, <1>8, IdleKnows
<1>10. LapsesKnown(r)' /\ LegalWrites(r)' /\ ReadIsCurrent(r)'
    BY <1>3, <1>4, <1>8 DEF LapsesKnown, LegalWrites, ReadIsCurrent
<1>11. RefIsUnknown(r)' /\ HasRoom(r)' /\ ScanIsCurrent(r)'
    BY <1>3, <1>4, <1>8 DEF RefIsUnknown, Books, HasRoom, ScanIsCurrent
<1> QED
    BY <1>5, <1>6, <1>7, <1>9, <1>10, <1>11 DEF SerialInv, KnowledgeInv

\* Every step keeps what the open request knows true.
LEMMA NextSerial ==
    ASSUME Threads = 1, CoreInv, CoreInv', SerialInv, [Next]_vars
    PROVE  SerialInv'
<1>1. CASE Tick \/ UNCHANGED vars
  <2>1. UNCHANGED <<status, row, pend, pc, req, t0, due, free, got>>
    BY <1>1 DEF Tick, vars
  <2>2. OneOpenInv' /\ RowInv' /\ RefInv'
    BY <2>1 DEF SerialInv, OneOpenInv, Open, RowInv, Books, ValidLeg, RefInv
  <2>3. ASSUME NEW r \in Req PROVE KnowledgeInv(r)'
    <3>1. LapsesKnown(r)' /\ LegalWrites(r)' /\ ReadIsCurrent(r)'
        BY <2>1, SameView
        DEF SerialInv, KnowledgeInv, LapsesKnown, ReadIsCurrent
    <3>2. RefIsUnknown(r)' /\ HasRoom(r)'
        BY <2>1, SameView
        DEF SerialInv, KnowledgeInv, RefIsUnknown, Books, HasRoom, ValidLeg
    <3>3. Taken(r, r)' = Taken(r, r) /\ NewStatus(r)' = NewStatus(r)
        BY <2>1 DEF Taken, Seen, Lockers, NewStatus
    <3>4. ScanIsCurrent(r)'
        BY <2>1, <3>3, SameView DEF SerialInv, KnowledgeInv, ScanIsCurrent, Books
    <3> QED
        BY <3>1, <3>2, <3>4 DEF KnowledgeInv
  <2> QED
    BY <2>2, <2>3 DEF SerialInv
<1>2. ASSUME NEW r \in Req, NEW c \in Calls, Begin(r, c) PROVE SerialInv'
    BY <1>2, BeginKnows
<1>3. ASSUME NEW r \in Req, Step(r) \/ Fail(r) PROVE SerialInv'
  <2>1. CASE Lookup(r)         BY <2>1, LookupKnows
  <2>2. CASE Validate(r)       BY <2>2, ValidateKnows
  <2>3. CASE SelectDue(r)      BY <2>3, SelectDueKnows
  <2>4. CASE ExpireRow(r)      BY <2>4, ExpireRowKnows
  <2>5. CASE Admit(r)          BY <2>5, AdmitKnows
  <2>6. CASE ScanSeat(r)       BY <2>6, ScanSeatKnows
  <2>7. CASE CountStanding(r)  BY <2>7, CountStandingKnows
  <2>8. CASE Charge(r)         BY <2>8, ChargeKnows
  <2>9. CASE Insert(r)         BY <2>9, InsertKnows
  <2>10. CASE Get(r)           BY <2>10, GetKnows
  <2>11. CASE SetStatus(r)     BY <2>11, SetStatusKnows
  <2>12. CASE Check(r)         BY <2>12, CheckKnows
  <2>13. CASE View(r)          BY <2>13, ViewKnows
  <2>14. CASE Commit(r)        BY <2>14, EndKnows DEF Commit, At
  <2>15. CASE DeadlockVictim(r) \/ Fail(r)
    <3>1. pc[r] \notin {"new", "done"}
        BY <2>15 DEF DeadlockVictim, Deadlocked, Fail, Open
    <3> QED
        BY <2>15, <3>1, EndKnows DEF DeadlockVictim, Fail, Rollback
  <2> QED
    BY <1>3, <2>1, <2>2, <2>3, <2>4, <2>5, <2>6, <2>7, <2>8, <2>9, <2>10, <2>11,
       <2>12, <2>13, <2>14, <2>15 DEF Step
<1> QED
    BY <1>1, <1>2, <1>3 DEF Next

\* With one request served at a time, what it has decided from what it read stays true of
\* the table until it commits.
THEOREM SerialInductive == ASSUME Threads = 1 PROVE Spec => [](CoreInv /\ SerialInv)
<1>1. Init => SerialInv
  <2> SUFFICES ASSUME Init PROVE SerialInv
    OBVIOUS
  <2>1. OneOpenInv /\ RowInv /\ RefInv
    BY DEF Init, OneOpenInv, Open, RowInv, RefInv
  <2>2. ASSUME NEW r \in Req PROVE KnowledgeInv(r)
    BY DEF Init, KnowledgeInv, LapsesKnown, LegalWrites, ReadIsCurrent, RefIsUnknown,
           Books, HasRoom, ScanIsCurrent, NoWrites
  <2> QED
    BY <2>1, <2>2 DEF SerialInv
<1>2. CoreInv /\ CoreInv' /\ SerialInv /\ [Next]_vars => SerialInv'
    BY NextSerial
<1> QED
    BY <1>1, <1>2, Inductive, PTL DEF Spec

-----------------------------------------------------------------------------
(* What that is worth.                                                     *)

\* One more than a set with room for one.
LEMMA OneMore ==
    ASSUME NEW S \in SUBSET Req, NEW T \in SUBSET Req, NEW r, S \ {r} \subseteq T,
           NEW n \in Nat, Cardinality(T) < n
    PROVE  Cardinality(S) <= n
<1>1. IsFiniteSet(S) /\ IsFiniteSet(S \ {r})
    BY ReqAssumption, FS_Subset
<1>2. Cardinality(S \ {r}) <= Cardinality(T)
    BY ReqAssumption, FS_Subset
<1>3. Cardinality(S) <= Cardinality(S \ {r}) + 1
    BY <1>1, FS_RemoveElement, FS_CardinalityType
<1>4. IsFiniteSet(T)
    BY ReqAssumption, FS_Subset
<1>5. Cardinality(S) \in Nat /\ Cardinality(S \ {r}) \in Nat /\ Cardinality(T) \in Nat
    BY <1>1, <1>4, FS_CardinalityType
<1> QED
    BY <1>2, <1>3, <1>5

\* What one commit changes: the request's own booking is new, every other active or
\* standing one was so before.
LEMMA CommitAdds ==
    ASSUME CoreInv, SerialInv, NEW r \in Req, Commit(r), NEW b \in Req
    PROVE  /\ status'[b] \in Active => status[b] \in Active \/ (b = r /\ status[r] = Absent)
           /\ status'[b] = "STANDING" =>
                status[b] = "STANDING" \/ (b = r /\ status[r] = Absent)
           /\ status'[b] # Absent => status[b] # Absent \/ (b = r /\ status[r] = Absent)
           /\ status'[b] = Seen(r, b) /\ (status'[b] # Absent => row[b] # NoRow)
           /\ b = r /\ status[r] = Absent /\ status'[r] # Absent => Books(r)
           /\ pc[r] = "commit" /\ row'[b] = row[b]
<1>1. pc[r] = "commit" /\ status'[b] = Seen(r, b) /\ row'[b] = row[b]
    BY DEF Commit, At, End
<1>2. CASE pend[r][b] = Absent
  <2>1. status[b] # Absent => row[b] # NoRow
    BY NoneAssumption DEF CoreInv, IssuedInv
  <2> QED
    BY <1>1, <1>2, <2>1 DEF Seen
<1>3. CASE pend[r][b] # Absent /\ status[b] = Absent
  <2>1. OwnWrite(r, b) /\ row[b] # NoRow
    BY <1>3, NoneAssumption DEF CoreInv, WriteInv, ExpiryWrite
  <2>2. b = r /\ Books(r)
    BY <1>1, <1>3, <2>1 DEF OwnWrite, Subject, Books
  <2> QED
    BY <1>1, <1>3, <2>1, <2>2
<1>4. CASE pend[r][b] # Absent /\ status[b] # Absent
  <2>1. \E e \in BEvent : <<status[b], e, pend[r][b]>> \in Transitions
    BY <1>4 DEF SerialInv, KnowledgeInv, LegalWrites
  <2>2. row[b] # NoRow
    BY <1>4, NoneAssumption DEF CoreInv, WriteInv
  <2> QED
    BY <1>1, <1>4, <2>1, <2>2 DEF Seen, Transitions, Active
<1> QED
    BY <1>2, <1>3, <1>4

\* A commit keeps the passenger within the cap.
LEMMA CommitKeepsCap ==
    ASSUME CoreInv, SerialInv, HardCap, NEW r \in Req, Commit(r) PROVE HardCap'
<1> SUFFICES ASSUME NEW t \in Trip, NEW p \in Passenger
             PROVE  Cardinality({b \in Req : /\ status'[b] \in Active
                                             /\ row'[b].trip = t /\ row'[b].who = p}) <= SeatCap
    BY DEF HardCap
<1> DEFINE S == {b \in Req : status[b] \in Active /\ row[b].trip = t /\ row[b].who = p}
           N == {b \in Req : status'[b] \in Active /\ row'[b].trip = t /\ row'[b].who = p}
<1>1. CASE r \notin N \/ status[r] # Absent
  <2>1. N \subseteq S /\ S \subseteq Req
    BY <1>1, CommitAdds
  <2>2. Cardinality(S) <= SeatCap
    BY DEF HardCap
  <2> HIDE DEF N, S
  <2>3. /\ Cardinality(S) \in Nat /\ Cardinality(N) \in Nat
        /\ Cardinality(N) <= Cardinality(S)
    BY <2>1, FewerThan
  <2>4. Cardinality(N) <= SeatCap
    BY <2>2, <2>3, LimitAssumption
  <2> QED
    BY <2>4 DEF N
<1>2. CASE r \in N /\ status[r] = Absent
  <2>1. /\ Books(r) /\ pc[r] = "commit" /\ row[r] # NoRow
        /\ row[r].trip = t /\ row[r].who = p
    BY <1>2, CommitAdds DEF Active, Absent
  <2>2. req[r].trip = t /\ req[r].who = p
    BY <2>1 DEF SerialInv, RowInv
  <2>3. N \ {r} \subseteq OthersActive(r)
    BY <2>2, CommitAdds DEF OthersActive
  <2>4. Cardinality(OthersActive(r)) < SeatCap
    BY <2>1 DEF SerialInv, KnowledgeInv, HasRoom
  <2>5. N \in SUBSET Req /\ OthersActive(r) \in SUBSET Req
    BY DEF OthersActive
  <2> HIDE DEF N
  <2>6. Cardinality(N) <= SeatCap
    BY <2>3, <2>4, <2>5, OneMore, LimitAssumption
  <2> QED
    BY <2>6 DEF N
<1> QED
    BY <1>1, <1>2

\* A commit keeps the standing tickets of a class within the capacity.
LEMMA CommitKeepsCeiling ==
    ASSUME CoreInv, SerialInv, StandingCeiling, NEW r \in Req, Commit(r)
    PROVE  StandingCeiling'
<1> SUFFICES ASSUME NEW t \in Trip, NEW k \in Class
             PROVE  Cardinality({b \in Req : /\ status'[b] = "STANDING"
                                             /\ row'[b].trip = t /\ row'[b].class = k})
                        <= StandingCap
    BY DEF StandingCeiling
<1> DEFINE S == {b \in Req : status[b] = "STANDING" /\ row[b].trip = t /\ row[b].class = k}
           N == {b \in Req : status'[b] = "STANDING" /\ row'[b].trip = t /\ row'[b].class = k}
<1>1. CASE r \notin N \/ status[r] # Absent
  <2>1. N \subseteq S /\ S \subseteq Req
    BY <1>1, CommitAdds
  <2>2. Cardinality(S) <= StandingCap
    BY DEF StandingCeiling
  <2> HIDE DEF N, S
  <2>3. /\ Cardinality(S) \in Nat /\ Cardinality(N) \in Nat
        /\ Cardinality(N) <= Cardinality(S)
    BY <2>1, FewerThan
  <2>4. Cardinality(N) <= StandingCap
    BY <2>2, <2>3, LimitAssumption
  <2> QED
    BY <2>4 DEF N
<1>2. CASE r \in N /\ status[r] = Absent
  <2>1. /\ Books(r) /\ pc[r] = "commit" /\ row[r] # NoRow
        /\ row[r].trip = t /\ row[r].class = k /\ Seen(r, r) = "STANDING"
    BY <1>2, CommitAdds DEF Absent
  <2>2. req[r].trip = t /\ req[r].class = k
    BY <2>1 DEF SerialInv, RowInv
  <2>3. N \ {r} \subseteq OthersStanding(r)
    BY <2>2, CommitAdds DEF OthersStanding
  <2>4. Cardinality(OthersStanding(r)) < StandingCap
    <3>1. NewStatus(r) = "STANDING"
        BY <1>2, <2>1 DEF Seen, Absent, SerialInv, KnowledgeInv, ScanIsCurrent
    <3>2. req[r].op = "sell" /\ free[r] = {}
        BY <2>1, <3>1 DEF NewStatus, Books
    <3> QED
        BY <2>1, <3>2 DEF SerialInv, KnowledgeInv, HasRoom
  <2>5. N \in SUBSET Req /\ OthersStanding(r) \in SUBSET Req
    BY DEF OthersStanding
  <2> HIDE DEF N
  <2>6. Cardinality(N) <= StandingCap
    BY <2>3, <2>4, <2>5, OneMore, LimitAssumption
  <2> QED
    BY <2>6 DEF N
<1> QED
    BY <1>1, <1>2

\* A commit gives a reference to nobody else's booking.
LEMMA CommitKeepsReference ==
    ASSUME CoreInv, SerialInv, OneBookingPerReference, NEW r \in Req, Commit(r)
    PROVE  OneBookingPerReference'
<1>1. ASSUME NEW c \in Req \ {r}, status[r] = Absent, status'[r] # Absent,
             status'[c] # Absent
      PROVE  row[r].ref # row[c].ref
  <2>1. /\ Books(r) /\ pc[r] = "commit" /\ Seen(r, c) # Absent
        /\ row[r] # NoRow /\ row[c] # NoRow
    BY <1>1, CommitAdds
  <2>2. /\ row[r].ref = IF req[r].ref = NoRef THEN r ELSE req[r].ref
        /\ row[c].ref = IF req[c].ref = NoRef THEN c ELSE req[c].ref
        /\ pc[c] # "new"
    BY <2>1 DEF SerialInv, RowInv
  <2>3. CASE req[r].ref # NoRef
    BY <2>1, <2>2, <2>3 DEF SerialInv, KnowledgeInv, RefIsUnknown
  <2>4. CASE req[r].ref = NoRef
    BY <1>1, <2>1, <2>2, <2>4 DEF SerialInv, RefInv
  <2> QED
    BY <2>3, <2>4
<1> SUFFICES ASSUME NEW b \in Req, NEW c \in Req, b # c,
                    status'[b] # Absent, status'[c] # Absent
             PROVE  row'[b].ref # row'[c].ref
    BY DEF OneBookingPerReference
<1>2. row'[b] = row[b] /\ row'[c] = row[c]
    BY CommitAdds
<1>3. CASE status[b] # Absent /\ status[c] # Absent
    BY <1>2, <1>3 DEF OneBookingPerReference
<1>4. CASE status[b] = Absent
    BY <1>1, <1>2, <1>4, CommitAdds
<1>5. CASE status[c] = Absent
    BY <1>1, <1>2, <1>5, CommitAdds
<1> QED
    BY <1>3, <1>4, <1>5

\* A step that commits nothing leaves the three bounds as they are.
LEMMA OthersKeepBounds ==
    ASSUME CoreInv, [Next]_vars, ~ \E r \in Req : Commit(r)
    PROVE  /\ HardCap => HardCap'
           /\ StandingCeiling => StandingCeiling'
           /\ OneBookingPerReference => OneBookingPerReference'
<1>1. UNCHANGED status /\ \A b \in Req : status[b] # Absent => row'[b] = row[b]
    BY OnlyCommits
<1>2. HardCap => HardCap'
  <2>1. ASSUME NEW t \in Trip, NEW p \in Passenger
        PROVE  {b \in Req : status'[b] \in Active /\ row'[b].trip = t /\ row'[b].who = p}
                = {b \in Req : status[b] \in Active /\ row[b].trip = t /\ row[b].who = p}
    BY <1>1 DEF Active, Absent
  <2> QED
    BY <2>1 DEF HardCap
<1>3. StandingCeiling => StandingCeiling'
  <2>1. ASSUME NEW t \in Trip, NEW k \in Class
        PROVE  {b \in Req : status'[b] = "STANDING" /\ row'[b].trip = t /\ row'[b].class = k}
                = {b \in Req : status[b] = "STANDING" /\ row[b].trip = t /\ row[b].class = k}
    BY <1>1 DEF Absent
  <2> QED
    BY <2>1 DEF StandingCeiling
<1>4. OneBookingPerReference => OneBookingPerReference'
    BY <1>1 DEF OneBookingPerReference
<1> QED
    BY <1>2, <1>3, <1>4

\* With one request served at a time nobody has more seats on a train than the cap.
THEOREM SerialHardCap == ASSUME Threads = 1 PROVE Spec => []HardCap
<1>1. Init => HardCap
  <2> SUFFICES ASSUME Init, NEW t \in Trip, NEW p \in Passenger
               PROVE  Cardinality({b \in Req : /\ status[b] \in Active
                                               /\ row[b].trip = t /\ row[b].who = p}) <= SeatCap
    BY DEF HardCap
  <2> DEFINE S == {b \in Req : status[b] \in Active /\ row[b].trip = t /\ row[b].who = p}
  <2>1. S = {}
    BY DEF Init, Active, Absent
  <2> HIDE DEF S
  <2>2. Cardinality(S) <= SeatCap
    BY <2>1, FS_EmptySet, LimitAssumption
  <2> QED
    BY <2>2 DEF S
<1>2. CoreInv /\ SerialInv /\ HardCap /\ [Next]_vars => HardCap'
    BY CommitKeepsCap, OthersKeepBounds
<1> QED
    BY <1>1, <1>2, SerialInductive, PTL DEF Spec

\* With one request served at a time no class has more standing tickets on a train than
\* its coaches may carry.
THEOREM SerialStandingCeiling == ASSUME Threads = 1 PROVE Spec => []StandingCeiling
<1>1. Init => StandingCeiling
  <2> SUFFICES ASSUME Init, NEW t \in Trip, NEW k \in Class
               PROVE  Cardinality({b \in Req : /\ status[b] = "STANDING"
                                               /\ row[b].trip = t /\ row[b].class = k})
                        <= StandingCap
    BY DEF StandingCeiling
  <2> DEFINE S == {b \in Req : status[b] = "STANDING" /\ row[b].trip = t /\ row[b].class = k}
  <2>1. S = {}
    BY DEF Init, Absent
  <2> HIDE DEF S
  <2>2. Cardinality(S) <= StandingCap
    BY <2>1, FS_EmptySet, LimitAssumption
  <2> QED
    BY <2>2 DEF S
<1>2. CoreInv /\ SerialInv /\ StandingCeiling /\ [Next]_vars => StandingCeiling'
    BY CommitKeepsCeiling, OthersKeepBounds
<1> QED
    BY <1>1, <1>2, SerialInductive, PTL DEF Spec

\* With one request served at a time a reference names one booking.
THEOREM SerialReferences == ASSUME Threads = 1 PROVE Spec => []OneBookingPerReference
<1>1. Init => OneBookingPerReference
    BY DEF Init, OneBookingPerReference
<1>2. CoreInv /\ SerialInv /\ OneBookingPerReference /\ [Next]_vars => OneBookingPerReference'
    BY CommitKeepsReference, OthersKeepBounds
<1> QED
    BY <1>1, <1>2, SerialInductive, PTL DEF Spec

\* With one request served at a time every committed change of status is a transition of
\* the table of booking_sm, or the first status of a new booking.
THEOREM SerialTransitions == ASSUME Threads = 1 PROVE Spec => LegalTransitions
<1> DEFINE A == \A b \in Req :
                   \/ status'[b] = status[b]
                   \/ status[b] = Absent /\ status'[b] \in {"HELD", "CONFIRMED", "STANDING"}
                   \/ \E e \in BEvent : <<status[b], e, status'[b]>> \in Transitions
<1>1. CoreInv /\ SerialInv /\ [Next]_vars => [A]_vars
  <2> SUFFICES ASSUME CoreInv, SerialInv, [Next]_vars, NEW b \in Req,
                      status'[b] # status[b]
               PROVE  \/ status[b] = Absent /\ status'[b] \in {"HELD", "CONFIRMED", "STANDING"}
                      \/ \E e \in BEvent : <<status[b], e, status'[b]>> \in Transitions
    OBVIOUS
  <2>1. PICK r \in Req : Commit(r)
    BY OnlyCommits
  <2>2. pend[r][b] # Absent /\ status'[b] = pend[r][b]
    BY <2>1, CommitWrites
  <2> QED
    BY <2>2 DEF SerialInv, KnowledgeInv, LegalWrites
<1> QED
    BY <1>1, SerialInductive, PTL DEF Spec, LegalTransitions

\* With one request served at a time the booking that makes a hold or a sale fail with
\* OverlapError is a committed one, and no hold whose time is over.
THEOREM SerialLapsedNeverBlocks == ASSUME Threads = 1 PROVE Spec => LapsedNeverBlocks
<1> DEFINE A == \A r \in Req : answer[r] # "overlap" /\ answer'[r] = "overlap" =>
                    \E c \in Req : /\ status[c] \in Active
                                   /\ status[c] = "HELD" => row[c].until > t0[r]
                                   /\ Clash(row[r], row[c])
<1>1. CoreInv /\ SerialInv /\ [Next]_vars => [A]_vars
  <2> SUFFICES ASSUME CoreInv, SerialInv, [Next]_vars, NEW r \in Req,
                      answer[r] # "overlap", answer'[r] = "overlap"
               PROVE  \E c \in Req : /\ status[c] \in Active
                                     /\ status[c] = "HELD" => row[c].until > t0[r]
                                     /\ Clash(row[r], row[c])
    OBVIOUS
  <2>1. PICK u \in Req : (\E c \in Calls : Begin(u, c)) \/ Step(u) \/ Fail(u)
    BY DEF Next, Tick, vars
  <2>2. Check(r) /\ Taken(r, Subject(r)) /\ req[r].op # "confirm"
    BY <2>1, OneActs
  <2>3. pc[r] = "check" /\ req[r].op \in {"hold", "sell"} /\ Subject(r) = r
    BY <2>2, OpAt DEF Check, At, Subject
  <2>4. PICK c \in Req \ {r} : Seen(r, c) \in Active /\ Clash(row[r], row[c])
    BY <2>2, <2>3 DEF Taken
  <2>5. pend[r][c] = Absent
    BY <2>3, <2>4, ActiveWrite DEF Seen
  <2>6. status[c] \in Active
    BY <2>4, <2>5 DEF Seen
  <2>7. status[c] = "HELD" => row[c].until > t0[r]
    <3>1. due[r] = {}
        BY <2>3 DEF CoreInv, DueInv
    <3>2. status[c] = "HELD" => ~(row[c].until <= t0[r])
        BY <2>3, <2>5, <3>1 DEF Seen, SerialInv, KnowledgeInv, LapsesKnown
    <3>3. row[c].until \in Nat /\ t0[r] \in Nat
        BY <2>6 DEF CoreInv, IssuedInv, TypeOK, Row, Active, Absent
    <3> QED
        BY <3>2, <3>3
  <2> QED
    BY <2>4, <2>6, <2>7
<1> QED
    BY <1>1, SerialInductive, PTL DEF Spec, LapsedNeverBlocks

-----------------------------------------------------------------------------
(* The money.                                                              *)

\* What is or was a ticket stays that.
LEMMA TicketStays ==
    ASSUME CoreInv, SerialInv, [Next]_vars, NEW b \in Req,
           status[b] \in Paid \cup {"CANCELLED"}
    PROVE  status'[b] \in Paid \cup {"CANCELLED"}
<1>1. CASE status'[b] = status[b]
    BY <1>1
<1>2. CASE status'[b] # status[b]
  <2>1. PICK r \in Req : Commit(r)
    BY <1>2, OnlyCommits
  <2>2. pend[r][b] # Absent /\ status'[b] = pend[r][b] /\ status[b] # Absent
    BY <1>2, <2>1, CommitWrites DEF Paid, Absent
  <2>3. \E e \in BEvent : <<status[b], e, status'[b]>> \in Transitions
    BY <2>2 DEF SerialInv, KnowledgeInv, LegalWrites
  <2> QED
    BY <2>3 DEF Transitions, Paid
<1> QED
    BY <1>1, <1>2

\* A sale or a confirmation that commits has made a ticket, for a leg of the route.
LEMMA CommitPays ==
    ASSUME CoreInv, SerialInv, NEW r \in Req, Commit(r), req[r].op \in {"sell", "confirm"}
    PROVE  /\ Subject(r) \in Req /\ status'[Subject(r)] \in Paid
           /\ row[Subject(r)] \in Row /\ ValidLeg(row[Subject(r)].leg)
<1> DEFINE b == Subject(r)
<1>1. pc[r] = "commit" /\ b \in Req
    BY OpAt, CallsAssumption DEF Commit, At, Subject, Call
<1>2. pend[r][b] \in Paid
  <2>1. CASE req[r].op = "confirm"
    BY <1>1, <2>1 DEF Subject, Paid, SerialInv, KnowledgeInv, ReadIsCurrent
  <2>2. CASE req[r].op = "sell"
    <3>1. pend[r][r] # Absent /\ b = r
        BY <1>1, <2>2 DEF CoreInv, CheckInv, Subject
    <3>2. status[r] = Absent
        BY <1>1 DEF CoreInv, IssuedInv
    <3>3. OwnWrite(r, r)
        BY <3>1, <3>2 DEF CoreInv, WriteInv, ExpiryWrite
    <3> QED
        BY <2>2, <3>1, <3>3 DEF OwnWrite
  <2> QED
    BY <2>1, <2>2
<1>3. pend[r][b] # Absent
    BY <1>2 DEF Paid, Absent
<1>4. status'[b] = pend[r][b] /\ row[b] \in Row
    BY <1>1, <1>3, CommitWrites DEF CoreInv, WriteInv
<1>5. ValidLeg(row[b].leg)
    BY <1>1, <1>4, NoneAssumption DEF SerialInv, RowInv
<1> QED
    BY <1>1, <1>2, <1>4, <1>5

\* The check of a sale or a confirmation passes: the seat was looked at, or it is the
\* hold's own.
LEMMA CheckPasses ==
    ASSUME CoreInv, SerialInv, NEW r \in Req, pc[r] = "check",
           req[r].op \in {"sell", "confirm"}
    PROVE  ~Taken(r, Subject(r))
<1>1. CASE req[r].op = "sell"
    BY <1>1 DEF Subject, SerialInv, KnowledgeInv, ScanIsCurrent
<1>2. CASE req[r].op = "confirm"
  <2> DEFINE b == req[r].target
  <2>1. b \in Req /\ Subject(r) = b
    BY <1>2, OpAt, CallsAssumption DEF Subject, Call
  <2>2. pend[r][b] \in Active
    BY <2>1 DEF CoreInv, CheckInv
  <2>3. pend[r][b] = "CONFIRMED" /\ status[b] # Absent
    BY <1>2, <2>1, <2>2, ActiveWrite DEF OwnWrite
  <2>4. status[b] = "HELD"
    BY <2>1, <2>3 DEF SerialInv, KnowledgeInv, LegalWrites, Transitions, Absent
  <2>5. ASSUME NEW c \in Req \ {b}, Seen(r, c) \in Active
        PROVE  ~Clash(row[b], row[c])
    <3>1. status[c] \in Active
        BY <2>1, <2>5, ActiveWrite DEF Seen
    <3> QED
        BY <2>1, <2>4, <3>1 DEF CoreInv, NoDoubleSeat, Active
  <2> QED
    BY <2>1, <2>5 DEF Taken
<1> QED
    BY <1>1, <1>2

\* Nothing stops a request that has charged: it goes on to its commit.
LEMMA TicketFollows ==
    ASSUME MayFail = {}, CoreInv, SerialInv, MoneyInv, NEW r \in Req, r \in charged,
           Step(r) \/ Fail(r)
    PROVE  /\ pc'[r] \in {"check", "commit", "done"}
           /\ pc'[r] = "done" => Commit(r)
<1>1. /\ req[r].op \in {"sell", "confirm"}
      /\ pc[r] \in {"insert", "write", "check", "commit", "done"}
    BY DEF MoneyInv
<1>2. ~Fail(r)
    BY DEF Fail
<1>3. ~DeadlockVictim(r)
  <2>1. r \notin Deadlocked
    <3>1. CASE pc[r] = "done"
        BY <3>1 DEF Deadlocked, Open
    <3>2. CASE pc[r] # "done"
        BY <1>1, <3>2, Alone DEF SerialInv
    <3> QED
        BY <3>1, <3>2
  <2> QED
    BY <2>1 DEF DeadlockVictim
<1>4. Insert(r) \/ SetStatus(r) \/ Check(r) \/ Commit(r)
    BY <1>1, <1>2, <1>3
    DEF Step, At, Lookup, Validate, SelectDue, ExpireRow, Admit, ScanSeat,
        CountStanding, Charge, Get, View
<1>5. CASE Insert(r)
    BY <1>5 DEF Insert, Goto, CoreInv, TypeOK
<1>6. CASE SetStatus(r)
    BY <1>6 DEF SetStatus, Goto, CoreInv, TypeOK
<1>7. CASE Check(r)
  <2>1. ~Taken(r, Subject(r))
    BY <1>1, <1>7, CheckPasses DEF Check, At
  <2> QED
    BY <1>7, <2>1 DEF Check, Goto, CoreInv, TypeOK
<1>8. CASE Commit(r)
    BY <1>8 DEF Commit, End, CoreInv, TypeOK
<1> QED
    BY <1>4, <1>5, <1>6, <1>7, <1>8

\* Every step keeps a ticket for all the money taken.
LEMMA NextMoney ==
    ASSUME MayFail = {}, CoreInv, SerialInv, MoneyInv, [Next]_vars PROVE MoneyInv'
<1> SUFFICES ASSUME NEW t \in charged'
             PROVE  /\ req'[t].op \in {"sell", "confirm"}
                    /\ pc'[t] \in {"insert", "write", "check", "commit", "done"}
                    /\ pc'[t] = "done" => status'[Subject(t)'] \in Paid \cup {"CANCELLED"}
    BY DEF MoneyInv
<1>1. charged \subseteq Req
    BY DEF CoreInv, TypeOK
<1>2. ASSUME t \in charged, pc'[t] = pc[t], req'[t] = req[t]
      PROVE  /\ req'[t].op \in {"sell", "confirm"}
             /\ pc'[t] \in {"insert", "write", "check", "commit", "done"}
             /\ pc'[t] = "done" => status'[Subject(t)'] \in Paid \cup {"CANCELLED"}
  <2>1. Subject(t)' = Subject(t)
    BY <1>2 DEF Subject
  <2>2. Subject(t) \in Req
    BY <1>1, <1>2, OpAt, CallsAssumption DEF MoneyInv, Subject, Call
  <2> QED
    BY <1>2, <2>1, <2>2, TicketStays DEF MoneyInv
<1>3. CASE Tick \/ UNCHANGED vars
    BY <1>2, <1>3 DEF Tick, vars
<1>4. ASSUME NEW r \in Req, (\E c \in Calls : Begin(r, c)) \/ Step(r) \/ Fail(r)
      PROVE  /\ req'[t].op \in {"sell", "confirm"}
             /\ pc'[t] \in {"insert", "write", "check", "commit", "done"}
             /\ pc'[t] = "done" => status'[Subject(t)'] \in Paid \cup {"CANCELLED"}
  <2>1. CASE t # r
    BY <1>1, <1>2, <1>4, <2>1, OneActs
  <2>2. CASE t = r /\ t \notin charged
    <3>1. pc[r] = "charge" /\ pc'[r] \in {"insert", "write"} /\ req'[r] = req[r]
        BY <1>4, <2>2, OneActs
    <3>2. req[r].op \in {"sell", "confirm"}
        BY <3>1, OpAt
    <3> QED
        BY <2>2, <3>1, <3>2
  <2>3. CASE t = r /\ t \in charged
    <3>1. pc[r] # "new" /\ req[r].op \in {"sell", "confirm"}
        BY <2>3 DEF MoneyInv
    <3>2. Step(r) \/ Fail(r)
        BY <1>4, <3>1 DEF Begin, At
    <3>3. req'[r] = req[r] /\ Subject(r)' = Subject(r)
        BY <1>4, <3>1, OneActs DEF Subject
    <3>4. pc'[r] \in {"check", "commit", "done"} /\ (pc'[r] = "done" => Commit(r))
        BY <2>3, <3>2, TicketFollows
    <3> QED
        BY <2>3, <3>1, <3>3, <3>4, CommitPays
  <2> QED
    BY <2>1, <2>2, <2>3
<1> QED
    BY <1>3, <1>4 DEF Next

\* With one request served at a time, and none that dies half way, every payment is
\* followed by the ticket it is for.
THEOREM SerialMoney ==
    ASSUME Threads = 1, MayFail = {} PROVE Spec => []SerialMoneyInv
<1>1. Init => MoneyInv
    BY DEF Init, MoneyInv
<1>2. CoreInv /\ SerialInv /\ MoneyInv /\ [Next]_vars => MoneyInv'
    BY NextMoney
<1>3. SerialInv /\ MoneyInv <=> SerialMoneyInv
    BY DEF SerialMoneyInv
<1> QED
    BY <1>1, <1>2, <1>3, SerialInductive, PTL DEF Spec

\* Then nobody pays twice for a booking.
THEOREM SerialChargedOnce ==
    ASSUME Threads = 1, MayFail = {} PROVE Spec => []ChargedOnce
<1>1. Init => ChargedOnce
    BY DEF Init, ChargedOnce
<1>2. CoreInv /\ SerialMoneyInv /\ ChargedOnce /\ [Next]_vars => ChargedOnce'
  <2> SUFFICES ASSUME CoreInv, SerialMoneyInv, ChargedOnce, [Next]_vars PROVE ChargedOnce'
    OBVIOUS
  <2>1. /\ charged \subseteq Req /\ SerialInv /\ MoneyInv
        /\ \A t \in charged : pc[t] # "new"
    BY DEF CoreInv, TypeOK, ChargeInv, SerialMoneyInv
  <2>2. \A t \in charged : Subject(t)' = Subject(t)
    <3>1. \A t \in charged : req'[t] = req[t]
      <4>1. CASE Tick \/ UNCHANGED vars
        BY <4>1 DEF Tick, vars
      <4>2. ASSUME NEW r \in Req, (\E c \in Calls : Begin(r, c)) \/ Step(r) \/ Fail(r)
            PROVE  \A t \in charged : req'[t] = req[t]
        BY <2>1, <4>2, OneActs
      <4> QED
        BY <4>1, <4>2 DEF Next
    <3> QED
        BY <3>1 DEF Subject
  <2>3. CASE charged' = charged
    BY <2>2, <2>3 DEF ChargedOnce
  <2>4. CASE charged' # charged
    <3>1. PICK r \in Req : (\E c \in Calls : Begin(r, c)) \/ Step(r) \/ Fail(r)
        BY <2>4 DEF Next, Tick, vars
    <3>2. /\ charged' = charged \cup {r} /\ pc[r] = "charge" /\ req'[r] = req[r]
        BY <2>4, <3>1, OneActs
    <3>3. /\ req[r] \in Call /\ req[r].op \in {"sell", "confirm"}
          /\ Subject(r)' = Subject(r) /\ r \notin charged
        BY <2>1, <3>2, OpAt, CallsAssumption DEF MoneyInv, Subject
    <3>4. status[Subject(r)] \in {Absent, "HELD"}
      <4>1. CASE req[r].op = "sell"
        BY <3>2, <4>1 DEF Subject, CoreInv, IssuedInv
      <4>2. CASE req[r].op = "confirm"
        <5>1. CanApply(got[r], "CONFIRM") /\ status[req[r].target] = got[r]
            BY <2>1, <3>2, <4>2, OpAt
            DEF CoreInv, TargetInv, EventOf, SerialInv, KnowledgeInv, ReadIsCurrent
        <5> QED
            BY <4>2, <5>1 DEF Subject, CanApply, Transitions
      <4> QED
        BY <3>3, <4>1, <4>2
    <3>5. ASSUME NEW u \in charged PROVE Subject(u) # Subject(r)
      <4>1. pc[u] = "done"
        BY <2>1, <3>2, <3>3 DEF SerialInv, OneOpenInv, Open
      <4> QED
        BY <2>1, <3>4, <4>1 DEF MoneyInv, Paid, Absent
    <3> QED
        BY <2>2, <3>2, <3>3, <3>5 DEF ChargedOnce
  <2> QED
    BY <2>3, <2>4
<1>3. SerialMoneyInv => SerialInv
    BY DEF SerialMoneyInv
<1> QED
    BY <1>1, <1>2, SerialMoney, SerialInductive, PTL DEF Spec
=============================================================================
