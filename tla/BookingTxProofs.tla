-------------------------- MODULE BookingTxProofs --------------------------
(***************************************************************************)
(* Proofs about BookingTx for any set of requests, calls, seats and        *)
(* limits: CoreInv of module BookingTxInv is inductive (one lemma for each *)
(* statement), and with it TypeCorrect, SeatsNeverShared, TicketsArePaid.  *)
(***************************************************************************)
EXTENDS BookingTxInv, TLAPS

\* A request that ends without committing takes its writes with it: the rest of the
\* invariant is about the writes and the locals that are left.
LEMMA RollbackCore ==
    ASSUME CoreInv, NEW r \in Req, NEW why \in Answers, pc[r] # "new", Rollback(r, why)
    PROVE  CoreInv'
<1> DEFINE W(t, b) == IF t = r THEN Absent ELSE pend[t][b]
<1> USE DEF Rollback, End, CloseSession
<1>1. TypeOK'
    BY DEF CoreInv, TypeOK, NoWrites, Phase
<1>2. \A t, b \in Req : pend'[t][b] = W(t, b)
    BY DEF CoreInv, TypeOK, NoWrites
<1>3. \A t \in Req : pc'[t] = IF t = r THEN "done" ELSE pc[t]
    BY DEF CoreInv, TypeOK
<1>4. \A t \in Req : Subject(t)' = Subject(t) /\ EventOf(t)' = EventOf(t)
    BY DEF Subject, EventOf
<1>5. BegunInv'
    BY <1>3 DEF CoreInv, BegunInv, PhasesOf
<1>6. ClockInv'
    BY DEF CoreInv, TypeOK, ClockInv
<1>7. LockInv'
    BY <1>2 DEF CoreInv, LockInv
<1>8. QuietInv'
    BY <1>3 DEF CoreInv, TypeOK, QuietInv
<1>9. IssuedInv'
    BY <1>3 DEF CoreInv, IssuedInv
<1>10. DueInv'
    BY <1>3 DEF CoreInv, TypeOK, DueInv
<1>11. WriteInv'
    BY <1>2, <1>3, <1>4 DEF CoreInv, WriteInv, ExpiryWrite, OwnWrite
<1>12. CheckInv'
    BY <1>2, <1>3, <1>4 DEF CoreInv, CheckInv
<1>13. TargetInv'
    BY <1>3, <1>4 DEF CoreInv, TypeOK, TargetInv
<1>14. ChargeInv'
    BY <1>3 DEF CoreInv, ChargeInv
<1>15. NoDoubleSeat' /\ PaidBeforeTicket'
    BY <1>4 DEF CoreInv, TypeOK, NoDoubleSeat, PaidBeforeTicket
<1>16. CommittedVsWritten'
    BY <1>2, <1>3 DEF CoreInv, CommittedVsWritten, Active, Absent
<1>17. WrittenVsWritten'
    BY <1>2, <1>3 DEF CoreInv, WrittenVsWritten, Active, Absent
<1> QED
    BY <1>1, <1>5, <1>6, <1>7, <1>8, <1>9, <1>10, <1>11, <1>12, <1>13, <1>14, <1>15,
       <1>16, <1>17 DEF CoreInv

\* A statement that reads the table, decides, and goes on to a statement that is
\* neither an expiry, a write nor a check.
LEMMA LocalCore ==
    ASSUME CoreInv, NEW r \in Req, TypeOK',
           NEW p \in PhasesOf(req[r].op)
                      \ {"new", "done", "lookup", "validate", "expire", "write", "check"},
           pc[r] \notin {"new", "done", "expire", "check", "commit"},
           pc' = [pc EXCEPT ![r] = p],
           UNCHANGED <<now, status, row, pend, req, due, got, charged>>,
           t0' \in {t0, [t0 EXCEPT ![r] = now]},
           p = "select" => pend[r] = NoWrites,
           p = "commit" => req[r].op \in {"browse", "verify"},
           p = "charge" => req[r].op = "sell",
           p = "insert" /\ req[r].op = "sell" => r \in charged
    PROVE  CoreInv'
<1>1. \A t \in Req : pc'[t] = IF t = r THEN p ELSE pc[t]
    BY DEF CoreInv, TypeOK
<1>2. \A t \in Req : Subject(t)' = Subject(t) /\ EventOf(t)' = EventOf(t)
    BY DEF Subject, EventOf
<1>3. BegunInv'
    BY <1>1 DEF CoreInv, BegunInv
<1>4. ClockInv' /\ LockInv'
    BY DEF CoreInv, TypeOK, ClockInv, LockInv
<1>5. QuietInv'
    BY <1>1 DEF CoreInv, QuietInv
<1>6. IssuedInv'
    BY <1>1 DEF CoreInv, IssuedInv
<1>7. DueInv'
    BY <1>1 DEF CoreInv, DueInv
<1>8. WriteInv'
    BY <1>1, <1>2 DEF CoreInv, WriteInv, ExpiryWrite, OwnWrite
<1>9. CheckInv'
    BY <1>1, <1>2 DEF CoreInv, CheckInv
<1>10. TargetInv'
    BY <1>1, <1>2 DEF CoreInv, TargetInv
<1>11. ChargeInv'
    BY <1>1 DEF CoreInv, ChargeInv
<1>12. NoDoubleSeat' /\ PaidBeforeTicket'
    BY <1>2 DEF CoreInv, TypeOK, NoDoubleSeat, PaidBeforeTicket
<1>13. CommittedVsWritten' /\ WrittenVsWritten'
  <2>1. \A t, c \in Req : pend[t][c] \in Active => pc'[t] = pc[t]
    BY <1>1 DEF CoreInv, WriteInv, ExpiryWrite, OwnWrite, Active, Absent
  <2> QED
    BY <2>1 DEF CoreInv, CommittedVsWritten, WrittenVsWritten
<1> QED
    BY <1>3, <1>4, <1>5, <1>6, <1>7, <1>8, <1>9, <1>10, <1>11, <1>12, <1>13 DEF CoreInv

\* Time passing only makes more holds lapsed.
LEMMA TickCore ==
    ASSUME CoreInv, Tick PROVE CoreInv'
<1> USE DEF Tick
<1>1. now' \in Nat /\ now <= now'
    BY DEF CoreInv, TypeOK
<1>2. TypeOK'
    BY <1>1 DEF CoreInv, TypeOK
<1>3. ClockInv'
    BY <1>1 DEF CoreInv, TypeOK, ClockInv
<1>4. \A t \in Req : Subject(t)' = Subject(t) /\ EventOf(t)' = EventOf(t)
    BY DEF Subject, EventOf
<1>5. \A b \in Req : row[b] \in Row => row[b].until \in Nat
    BY DEF Row
<1>6. DueInv'
    BY <1>1, <1>5 DEF CoreInv, TypeOK, DueInv, IssuedInv
<1>7. WriteInv'
    BY <1>1, <1>4, <1>5 DEF CoreInv, TypeOK, WriteInv, ExpiryWrite, OwnWrite
<1>8. BegunInv' /\ LockInv' /\ QuietInv' /\ IssuedInv'
    BY DEF CoreInv, BegunInv, LockInv, QuietInv, IssuedInv
<1>9. CheckInv' /\ TargetInv' /\ ChargeInv'
    BY <1>4 DEF CoreInv, CheckInv, TargetInv, ChargeInv
<1>10. NoDoubleSeat' /\ PaidBeforeTicket' /\ CommittedVsWritten' /\ WrittenVsWritten'
    BY <1>4 DEF CoreInv, TypeOK, NoDoubleSeat, PaidBeforeTicket, CommittedVsWritten, WrittenVsWritten
<1> QED
    BY <1>2, <1>3, <1>6, <1>7, <1>8, <1>9, <1>10 DEF CoreInv

\* A request that begins has written nothing and stands at its use-case's first statement.
LEMMA BeginCore ==
    ASSUME CoreInv, NEW r \in Req, NEW c \in Calls, Begin(r, c)
    PROVE  CoreInv'
<1> USE DEF Begin, At, Goto
<1>1. \A t \in Req : /\ pc'[t] = IF t = r THEN FirstPhase(c) ELSE pc[t]
                     /\ req'[t] = IF t = r THEN c ELSE req[t]
                     /\ t0'[t] = IF t = r THEN now ELSE t0[t]
    BY DEF CoreInv, TypeOK
<1>2. c.op \in Op
    BY CallsAssumption DEF Call
<1>3. FirstPhase(c) \in {"lookup", "get", "validate", "select"} \cap PhasesOf(c.op)
    BY <1>2 DEF FirstPhase, PhasesOf, Op
<1>4. \A t \in Req \ {r} : Subject(t)' = Subject(t) /\ EventOf(t)' = EventOf(t)
    BY <1>1 DEF Subject, EventOf
<1>5. pend[r] = NoWrites /\ pc[r] = "new" /\ status[r] = Absent
    BY DEF CoreInv, QuietInv, IssuedInv
<1>6. TypeOK'
    BY <1>1, <1>3 DEF CoreInv, TypeOK, Phase
<1>7. BegunInv'
    BY <1>1, <1>3 DEF CoreInv, BegunInv
<1>8. ClockInv' /\ LockInv'
    BY <1>1 DEF CoreInv, TypeOK, ClockInv, LockInv
<1>9. QuietInv'
    BY <1>1, <1>5 DEF CoreInv, QuietInv
<1>10. IssuedInv'
    BY <1>1, <1>5 DEF CoreInv, IssuedInv
<1>11. DueInv'
    BY <1>1, <1>3, <1>5 DEF CoreInv, TypeOK, DueInv
<1>12. WriteInv'
    BY <1>1, <1>4, <1>5 DEF CoreInv, WriteInv, ExpiryWrite, OwnWrite, NoWrites, Subject
<1>13. CheckInv'
    BY <1>1, <1>3, <1>4 DEF CoreInv, CheckInv
<1>14. TargetInv'
    BY <1>1, <1>3, <1>4, <1>5, CallsAssumption DEF CoreInv, TargetInv, Call
<1>15. ChargeInv'
    BY <1>1, <1>3 DEF CoreInv, ChargeInv
<1>16. NoDoubleSeat' /\ PaidBeforeTicket'
    BY <1>4, <1>5 DEF CoreInv, TypeOK, NoDoubleSeat, PaidBeforeTicket, ChargeInv
<1>17. CommittedVsWritten' /\ WrittenVsWritten'
    BY <1>1, <1>5 DEF CoreInv, CommittedVsWritten, WrittenVsWritten, NoWrites, Active, Absent
<1> QED
    BY <1>6, <1>7, <1>8, <1>9, <1>10, <1>11, <1>12, <1>13, <1>14, <1>15, <1>16, <1>17
       DEF CoreInv

\* Where a request that has begun can be, as the statements' guards need it.
LEMMA OpAt ==
    ASSUME CoreInv, NEW r \in Req, pc[r] # "new"
    PROVE  /\ req[r] \in Calls /\ req[r].op \in Op
           /\ pc[r] \in {"lookup", "admit", "insert"} => req[r].op \in {"hold", "sell"}
           /\ pc[r] \in {"scan", "count"} => req[r].op = "sell"
           /\ pc[r] = "charge" => req[r].op \in {"sell", "confirm"}
           /\ pc[r] \in {"get", "write"} => req[r].op \in {"confirm", "cancel"}
           /\ pc[r] = "validate" => req[r].op = "browse"
           /\ pc[r] = "view" => req[r].op \in {"browse", "verify"}
           /\ pc[r] \in {"select", "expire"} => req[r].op # "cancel"
           /\ pc[r] = "check" => req[r].op \in {"hold", "sell", "confirm"}
<1>1. req[r] \in Calls /\ pc[r] \in PhasesOf(req[r].op)
    BY DEF CoreInv, BegunInv
<1>2. req[r].op \in Op
    BY <1>1, CallsAssumption DEF Call
<1> QED
    BY <1>1, <1>2 DEF PhasesOf, Op

\* Looking up a reference changes nothing but where the request is, or ends it.
LEMMA LookupCore ==
    ASSUME CoreInv, NEW r \in Req, Lookup(r) PROVE CoreInv'
<1>1. pc[r] = "lookup" /\ req[r].op \in {"hold", "sell"}
    BY OpAt DEF Lookup, At
<1>2. CASE WithReference(r) # {}
  <2>1. PICK why \in {"replay", "receipt"} : Rollback(r, why)
    BY <1>2 DEF Lookup, ReceiptFor
  <2> QED
    BY <1>1, <2>1, RollbackCore DEF Answers
<1>3. CASE WithReference(r) = {}
  <2>1. TypeOK'
    BY <1>1, <1>3 DEF Lookup, Rollback, At, Goto, CoreInv, TypeOK, Phase
  <2>2. "select" \in PhasesOf(req[r].op)
    BY <1>1 DEF PhasesOf
  <2>3. pend[r] = NoWrites
    BY <1>1 DEF CoreInv, QuietInv
  <2> QED
    BY <1>1, <1>3, <2>1, <2>2, <2>3, LocalCore DEF Lookup, Goto
<1> QED
    BY <1>2, <1>3

\* Validating a leg changes nothing but where the request is, or ends it.
LEMMA ValidateCore ==
    ASSUME CoreInv, NEW r \in Req, Validate(r) PROVE CoreInv'
<1>1. pc[r] = "validate" /\ req[r].op = "browse"
    BY OpAt DEF Validate, At
<1>2. CASE ~ValidLeg(req[r].leg)
    BY <1>1, <1>2, RollbackCore DEF Validate, Answers
<1>3. CASE ValidLeg(req[r].leg)
  <2>0. /\ t0' = [t0 EXCEPT ![r] = now] /\ pc' = [pc EXCEPT ![r] = "select"]
        /\ UNCHANGED <<now, status, row, pend, req, due, unread, free, got,
                       charged, announced, answer>>
    BY <1>3 DEF Validate, Goto
  <2>1. TypeOK'
    BY <2>0 DEF CoreInv, TypeOK, Phase
  <2>2. "select" \in PhasesOf(req[r].op)
    BY <1>1 DEF PhasesOf
  <2>3. pend[r] = NoWrites
    BY <1>1 DEF CoreInv, QuietInv
  <2> QED
    BY <1>1, <2>0, <2>1, <2>2, <2>3, LocalCore
<1> QED
    BY <1>2, <1>3

\* The admission checks lead to the scan, to the insert or to a refusal; a sale is not
\* charged yet in any of them.
LEMMA AdmitCore ==
    ASSUME CoreInv, NEW r \in Req, Admit(r) PROVE CoreInv'
<1>1. pc[r] = "admit" /\ req[r].op \in {"hold", "sell"}
    BY OpAt DEF Admit, At
<1>2. CASE \E why \in Refusals(r) : Rollback(r, why)
  <2>1. PICK why \in Refusals(r) : Rollback(r, why)
    BY <1>2
  <2>2. why \in Answers
    BY DEF Refusals, Answers
  <2> QED
    BY <1>1, <2>1, <2>2, RollbackCore
<1>3. CASE ~ \E why \in Refusals(r) : Rollback(r, why)
  <2> DEFINE p == IF req[r].op = "sell" THEN "scan" ELSE "insert"
  <2>1. /\ Goto(r, p)
        /\ unread' = [unread EXCEPT ![r] = IF req[r].op = "sell" THEN Pool(r) ELSE {}]
        /\ UNCHANGED <<now, status, row, pend, req, t0, due, free, got, charged,
                       announced, answer>>
    BY <1>3 DEF Admit
  <2>2. TypeOK'
    BY <2>1 DEF Goto, CoreInv, TypeOK, Phase, Pool
  <2>3. p \in PhasesOf(req[r].op)
    BY <1>1 DEF PhasesOf
  <2> QED
    BY <1>1, <2>1, <2>2, <2>3, LocalCore DEF Goto
<1> QED
    BY <1>2, <1>3

\* A look at one seat changes only what the sale remembers of the pool.
LEMMA ScanSeatCore ==
    ASSUME CoreInv, NEW r \in Req, ScanSeat(r) PROVE CoreInv'
<1>1. pc[r] = "scan" /\ req[r].op = "sell"
    BY OpAt DEF ScanSeat, At
<1>2. PICK p \in {"scan", "count", "charge"} : pc' = [pc EXCEPT ![r] = p]
  <2>1. pc = [pc EXCEPT ![r] = "scan"]
    BY <1>1 DEF CoreInv, TypeOK
  <2> QED
    BY <2>1 DEF ScanSeat, Goto
<1>3. TypeOK'
  <2>1. PICK s \in unread[r] :
            /\ LET found == free[r] \cup (IF SeatLooksFree(r, s) THEN {s} ELSE {})
               IN  \/ free' = [free EXCEPT ![r] = found]
                   \/ UNCHANGED free
                   \/ \E chosen \in found : free' = [free EXCEPT ![r] = {chosen}]
            /\ unread' = [unread EXCEPT ![r] = @ \ {s}]
    BY DEF ScanSeat
  <2>2. free' \in [Req -> SUBSET Seat] /\ unread' \in [Req -> SUBSET Seat]
    BY <2>1 DEF CoreInv, TypeOK
  <2> QED
    BY <1>2, <2>2 DEF ScanSeat, CoreInv, TypeOK, Phase
<1>4. p \in PhasesOf(req[r].op)
    BY <1>1 DEF PhasesOf
<1> QED
    BY <1>1, <1>2, <1>3, <1>4, LocalCore DEF ScanSeat

\* The standing count leads to the charge or to a refusal.
LEMMA CountStandingCore ==
    ASSUME CoreInv, NEW r \in Req, CountStanding(r) PROVE CoreInv'
<1>1. pc[r] = "count" /\ req[r].op = "sell"
    BY OpAt DEF CountStanding, At
<1>2. CASE Rollback(r, "full")
    BY <1>1, <1>2, RollbackCore DEF Answers
<1>3. CASE ~Rollback(r, "full")
  <2>1. /\ Goto(r, "charge")
        /\ UNCHANGED <<now, status, row, pend, req, t0, due, unread, free, got,
                       charged, announced, answer>>
    BY <1>3 DEF CountStanding
  <2>2. TypeOK'
    BY <2>1 DEF Goto, CoreInv, TypeOK, Phase
  <2>3. "charge" \in PhasesOf(req[r].op)
    BY <1>1 DEF PhasesOf
  <2> QED
    BY <1>1, <2>1, <2>2, <2>3, LocalCore DEF Goto
<1> QED
    BY <1>2, <1>3

\* Reading availability or a ticket writes nothing and leads to the commit.
LEMMA ViewCore ==
    ASSUME CoreInv, NEW r \in Req, View(r) PROVE CoreInv'
<1>1. pc[r] = "view" /\ req[r].op \in {"browse", "verify"}
    BY OpAt DEF View, At
<1>2. CASE Rollback(r, "notfound")
    BY <1>1, <1>2, RollbackCore DEF Answers
<1>3. CASE ~Rollback(r, "notfound")
  <2>1. /\ Goto(r, "commit")
        /\ UNCHANGED <<now, status, row, pend, req, t0, due, unread, free, got,
                       charged, announced, answer>>
    BY <1>3 DEF View
  <2>2. TypeOK'
    BY <2>1 DEF Goto, CoreInv, TypeOK, Phase
  <2>3. "commit" \in PhasesOf(req[r].op)
    BY <1>1 DEF PhasesOf
  <2> QED
    BY <1>1, <2>1, <2>2, <2>3, LocalCore DEF Goto
<1> QED
    BY <1>2, <1>3

\* The holds expire_due selects were issued as holds, and their time is over.
LEMMA SelectDueCore ==
    ASSUME CoreInv, NEW r \in Req, SelectDue(r) PROVE CoreInv'
<1> DEFINE p == IF Lapsed(r) = {} THEN AfterExpiry(r) ELSE "expire"
<1> USE DEF SelectDue, At, Goto
<1>1. pc[r] = "select" /\ req[r].op \in Op \ {"cancel"}
    BY OpAt
<1>2. pend[r] = NoWrites /\ due[r] = {}
    BY <1>1 DEF CoreInv, QuietInv, DueInv
<1>3. p \in PhasesOf(req[r].op) /\ p \in {"admit", "get", "view", "expire"}
    BY <1>1 DEF AfterExpiry, PhasesOf, Op
<1>4. TypeOK'
    BY <1>3 DEF CoreInv, TypeOK, Phase, Lapsed
<1>5. CASE Lapsed(r) = {}
  <2>1. due' = due
    BY <1>2, <1>5 DEF CoreInv, TypeOK
  <2>2. pc' = [pc EXCEPT ![r] = p]
    OBVIOUS
  <2>3. /\ p \in PhasesOf(req[r].op)
                 \ {"new", "done", "lookup", "validate", "expire", "write", "check"}
        /\ p \notin {"select", "commit", "charge", "insert"}
    BY <1>3, <1>5 DEF AfterExpiry
  <2> HIDE DEF p
  <2> QED
    BY <1>1, <1>4, <2>1, <2>2, <2>3, LocalCore
<1>6. CASE Lapsed(r) # {}
  <2>1. \A t \in Req : /\ pc'[t] = IF t = r THEN "expire" ELSE pc[t]
                       /\ due'[t] = IF t = r THEN Lapsed(r) ELSE due[t]
    BY <1>6 DEF CoreInv, TypeOK
  <2>2. \A t \in Req : Subject(t)' = Subject(t) /\ EventOf(t)' = EventOf(t)
    BY DEF Subject, EventOf
  <2>3. \A b \in Lapsed(r) :
            status[b] # Absent /\ req[b].op = "hold" /\ row[b].until <= now
    <3> TAKE b \in Lapsed(r)
    <3>1. status[b] = "HELD" /\ row[b].until <= t0[r]
        BY <1>2 DEF Lapsed, Seen, NoWrites
    <3>2. row[b].until \in Nat /\ req[b].op = "hold"
        BY <3>1 DEF CoreInv, IssuedInv, Row, Lapsed, Paid, Absent
    <3> QED
        BY <3>1, <3>2 DEF CoreInv, TypeOK, ClockInv, Absent
  <2>4. BegunInv'
    BY <1>3, <1>6, <2>1 DEF CoreInv, BegunInv
  <2>5. ClockInv' /\ LockInv'
    BY DEF CoreInv, ClockInv, LockInv
  <2>6. QuietInv'
    BY <2>1 DEF CoreInv, QuietInv
  <2>7. IssuedInv'
    BY <1>1, <2>1 DEF CoreInv, IssuedInv
  <2>8. DueInv'
    BY <1>6, <2>1, <2>3 DEF CoreInv, DueInv
  <2>9. WriteInv'
    BY <1>1, <2>1, <2>2 DEF CoreInv, WriteInv, ExpiryWrite, OwnWrite
  <2>10. CheckInv'
    BY <2>1, <2>2 DEF CoreInv, CheckInv
  <2>11. TargetInv'
    BY <2>1, <2>2 DEF CoreInv, TargetInv
  <2>12. ChargeInv'
    BY <2>1 DEF CoreInv, ChargeInv
  <2>13. NoDoubleSeat' /\ PaidBeforeTicket'
    BY <2>2 DEF CoreInv, TypeOK, NoDoubleSeat, PaidBeforeTicket
  <2>14. CommittedVsWritten' /\ WrittenVsWritten'
    BY <1>2, <2>1 DEF CoreInv, CommittedVsWritten, WrittenVsWritten, NoWrites, Active, Absent
  <2> QED
    BY <1>4, <2>4, <2>5, <2>6, <2>7, <2>8, <2>9, <2>10, <2>11, <2>12, <2>13, <2>14
       DEF CoreInv
<1> QED
    BY <1>5, <1>6

\* An expiry statement waits for the row's writer, so the row has one writer still;
\* the version it writes is not active and meets no other.
LEMMA ExpireRowCore ==
    ASSUME CoreInv, NEW r \in Req, ExpireRow(r) PROVE CoreInv'
<1> USE DEF ExpireRow, At, Goto
<1>1. pc[r] = "expire" /\ req[r].op \in Op \ {"cancel"}
    BY OpAt
<1>2. PICK b \in NextDue(r) :
        /\ pend' = [pend EXCEPT ![r][b] = "EXPIRED"]
        /\ due' = [due EXCEPT ![r] = @ \ {b}]
        /\ pc' = [pc EXCEPT ![r] = IF due[r] = {b} THEN AfterExpiry(r) ELSE "expire"]
    OBVIOUS
<1> DEFINE p == IF due[r] = {b} THEN AfterExpiry(r) ELSE "expire"
<1>3. /\ b \in Req /\ b \in due[r] /\ Lockers(r, b) = {}
      /\ status[b] # Absent /\ req[b].op = "hold" /\ row[b].until <= now
  <2>1. b \in due[r] /\ b \in Req
    BY <1>2 DEF NextDue, CoreInv, TypeOK
  <2>2. WaitsFor(r) = UNION {Lockers(r, c) : c \in NextDue(r)}
    BY <1>1 DEF WaitsFor
  <2>3. Lockers(r, b) = {}
    BY <1>2, <2>2
  <2> QED
    BY <2>1, <2>3 DEF CoreInv, DueInv
<1>4. /\ p \in PhasesOf(req[r].op) /\ p \in {"admit", "get", "view", "expire"}
      /\ p # "expire" <=> due[r] \ {b} = {}
    BY <1>1, <1>3 DEF AfterExpiry, PhasesOf, Op
<1>5. \A t \in Req :
        /\ pc'[t] = IF t = r THEN p ELSE pc[t]
        /\ due'[t] = IF t = r THEN due[r] \ {b} ELSE due[t]
        /\ \A c \in Req : pend'[t][c] = IF t = r /\ c = b THEN "EXPIRED" ELSE pend[t][c]
        /\ t # r => pend'[t] = pend[t]
  <2>1. \A t \in Req : pc'[t] = IF t = r THEN p ELSE pc[t]
    BY <1>2 DEF CoreInv, TypeOK
  <2>2. \A t \in Req : due'[t] = IF t = r THEN due[r] \ {b} ELSE due[t]
    BY <1>2 DEF CoreInv, TypeOK
  <2>3. \A t, c \in Req :
            /\ pend'[t][c] = IF t = r /\ c = b THEN "EXPIRED" ELSE pend[t][c]
            /\ t # r => pend'[t] = pend[t]
    BY <1>2, <1>3 DEF CoreInv, TypeOK
  <2> QED
    BY <2>1, <2>2, <2>3
<1>6. \A t \in Req : Subject(t)' = Subject(t) /\ EventOf(t)' = EventOf(t)
    BY DEF Subject, EventOf
<1>7. TypeOK'
    BY <1>2, <1>3, <1>4 DEF CoreInv, TypeOK, Phase, BStatus
<1>8. \A t \in Req \ {r} : pend[t][b] = Absent
    BY <1>3 DEF Lockers
<1>9. BegunInv'
    BY <1>4, <1>5 DEF CoreInv, BegunInv
<1>10. ClockInv'
    BY DEF CoreInv, ClockInv
<1>11. LockInv'
    BY <1>5, <1>8 DEF CoreInv, LockInv
<1>12. QuietInv'
    BY <1>4, <1>5 DEF CoreInv, QuietInv
<1>13. IssuedInv'
  <2>1. \A c \in Req : pc[c] = "done" => pc'[c] = "done"
    BY <1>1, <1>5
  <2> QED
    BY <2>1 DEF CoreInv, IssuedInv
<1>14. DueInv'
  <2> SUFFICES ASSUME NEW t \in Req
               PROVE  /\ pc'[t] = "expire" => due'[t] # {}
                      /\ due'[t] # {} => pc'[t] = "expire"
                      /\ due'[t] \subseteq due[t]
    BY DEF CoreInv, DueInv
  <2> QED
    BY <1>4, <1>5 DEF CoreInv, DueInv
<1>15. WriteInv'
  <2> SUFFICES ASSUME NEW t \in Req, NEW c \in Req, pend'[t][c] # Absent
               PROVE  row[c] \in Row /\ (ExpiryWrite(t, c)' \/ OwnWrite(t, c)')
    BY DEF WriteInv
  <2>1. CASE t = r /\ c = b
    BY <1>3, <1>5, <2>1 DEF ExpiryWrite, CoreInv, IssuedInv
  <2>2. CASE ~(t = r /\ c = b)
    BY <1>1, <1>5, <1>6, <2>2 DEF CoreInv, WriteInv, ExpiryWrite, OwnWrite
  <2> QED
    BY <2>1, <2>2
<1>16. CheckInv'
    BY <1>4, <1>5, <1>6 DEF CoreInv, CheckInv
<1>17. TargetInv'
    BY <1>4, <1>5, <1>6 DEF CoreInv, TargetInv
<1>18. ChargeInv'
    BY <1>4, <1>5 DEF CoreInv, ChargeInv
<1>19. NoDoubleSeat' /\ PaidBeforeTicket'
    BY <1>6 DEF CoreInv, TypeOK, NoDoubleSeat, PaidBeforeTicket
<1>20. CommittedVsWritten' /\ WrittenVsWritten'
    BY <1>1, <1>4, <1>5 DEF CoreInv, CommittedVsWritten, WrittenVsWritten, Active, Absent
<1> QED
    BY <1>7, <1>9, <1>10, <1>11, <1>12, <1>13, <1>14, <1>15, <1>16, <1>17, <1>18, <1>19,
       <1>20 DEF CoreInv

\* An active version not yet committed belongs to a request that has only its check
\* and its commit left.
LEMMA ActiveWrite ==
    ASSUME CoreInv, NEW t \in Req, NEW b \in Req, pend[t][b] \in Active
    PROVE  OwnWrite(t, b) /\ b = Subject(t) /\ pc[t] \in {"check", "commit"}
BY DEF CoreInv, WriteInv, ExpiryWrite, OwnWrite, Active, Absent

\* A payment commits the request to nothing but its next statement.
LEMMA ChargeCore ==
    ASSUME CoreInv, NEW r \in Req, Charge(r) PROVE CoreInv'
<1>1. pc[r] = "charge" /\ req[r].op \in {"sell", "confirm"}
    BY OpAt DEF Charge, At
<1>2. CASE Rollback(r, "declined")
    BY <1>1, <1>2, RollbackCore DEF Answers
<1>3. CASE ~Rollback(r, "declined")
  <2> DEFINE p == IF req[r].op = "sell" THEN "insert" ELSE "write"
  <2>1. /\ charged' = charged \cup {r}
        /\ pc' = [pc EXCEPT ![r] = p]
        /\ UNCHANGED <<now, status, row, pend, req, t0, due, unread, free, got,
                       announced, answer>>
    BY <1>3 DEF Charge, Goto
  <2>2. p \in {"insert", "write"} /\ p \in PhasesOf(req[r].op)
    BY <1>1 DEF PhasesOf
  <2>3. TypeOK'
    BY <2>1, <2>2 DEF CoreInv, TypeOK, Phase
  <2>4. \A t \in Req : pc'[t] = IF t = r THEN p ELSE pc[t]
    BY <2>1 DEF CoreInv, TypeOK
  <2>5. \A t \in Req : Subject(t)' = Subject(t) /\ EventOf(t)' = EventOf(t)
    BY <2>1 DEF Subject, EventOf
  <2>6. BegunInv' /\ QuietInv'
    BY <1>1, <2>1, <2>2, <2>4 DEF CoreInv, BegunInv, QuietInv
  <2>7. ClockInv' /\ LockInv' /\ IssuedInv'
    BY <1>1, <2>1, <2>4 DEF CoreInv, ClockInv, LockInv, IssuedInv
  <2>8. DueInv'
    BY <1>1, <2>1, <2>2, <2>4 DEF CoreInv, DueInv
  <2>9. WriteInv'
    BY <1>1, <2>1, <2>4, <2>5 DEF CoreInv, WriteInv, ExpiryWrite, OwnWrite
  <2>10. CheckInv'
    BY <2>1, <2>2, <2>4, <2>5 DEF CoreInv, CheckInv
  <2>11. TargetInv'
    BY <1>1, <2>1, <2>4, <2>5 DEF CoreInv, TargetInv
  <2>12. ChargeInv'
    BY <1>1, <2>1, <2>2, <2>4 DEF CoreInv, ChargeInv
  <2>13. NoDoubleSeat' /\ PaidBeforeTicket'
    BY <2>1, <2>5 DEF CoreInv, TypeOK, NoDoubleSeat, PaidBeforeTicket
  <2>14. CommittedVsWritten' /\ WrittenVsWritten'
    <3>1. \A t, c \in Req : pend[t][c] \in Active => pc'[t] = pc[t]
        BY <1>1, <2>4, ActiveWrite
    <3> QED
        BY <2>1, <3>1 DEF CoreInv, CommittedVsWritten, WrittenVsWritten
  <2> QED
    BY <2>3, <2>6, <2>7, <2>8, <2>9, <2>10, <2>11, <2>12, <2>13, <2>14 DEF CoreInv
<1> QED
    BY <1>2, <1>3

\* What the guard lets through exists, and only a hold can be confirmed.
LEMMA GetCore ==
    ASSUME CoreInv, NEW r \in Req, Get(r) PROVE CoreInv'
<1> DEFINE b == req[r].target
           found == Seen(r, b)
           p == IF req[r].op = "confirm" THEN "charge" ELSE "write"
<1>1. pc[r] = "get" /\ req[r].op \in {"confirm", "cancel"} /\ b \in Req
    BY OpAt, CallsAssumption DEF Get, At, Call
<1>2. CASE \E why \in {"notfound", "illegal"} : Rollback(r, why)
    BY <1>1, <1>2, RollbackCore DEF Answers
<1>3. CASE ~ \E why \in {"notfound", "illegal"} : Rollback(r, why)
  <2>1. /\ found # Absent /\ CanApply(found, EventOf(r))
        /\ got' = [got EXCEPT ![r] = found]
        /\ pc' = [pc EXCEPT ![r] = p]
        /\ UNCHANGED <<now, status, row, pend, req, t0, due, unread, free,
                       charged, announced, answer>>
    BY <1>3 DEF Get, Goto
  <2>2. p \in {"charge", "write"} /\ p \in PhasesOf(req[r].op)
    BY <1>1 DEF PhasesOf
  <2>3. found \in BStatus \cup {Absent}
    BY <1>1 DEF CoreInv, TypeOK, Seen
  <2>4. TypeOK'
    BY <2>1, <2>2, <2>3 DEF CoreInv, TypeOK, Phase
  <2>5. \A t \in Req : /\ pc'[t] = IF t = r THEN p ELSE pc[t]
                       /\ got'[t] = IF t = r THEN found ELSE got[t]
    BY <2>1 DEF CoreInv, TypeOK
  <2>6. \A t \in Req : Subject(t)' = Subject(t) /\ EventOf(t)' = EventOf(t)
    BY <2>1 DEF Subject, EventOf
  <2>7. status[b] # Absent /\ (req[r].op = "confirm" => req[b].op = "hold")
    <3>1. pend[r][b] # Absent => ExpiryWrite(r, b)
        BY <1>1 DEF CoreInv, WriteInv, OwnWrite
    <3>2. status[b] # Absent
        BY <2>1, <3>1 DEF ExpiryWrite, Seen
    <3>3. req[r].op = "confirm" => found = "HELD"
        BY <2>1 DEF CanApply, EventOf, Transitions
    <3>4. found = "HELD" => status[b] = "HELD"
        BY <3>1 DEF ExpiryWrite, Seen
    <3> QED
        BY <1>1, <3>2, <3>3, <3>4 DEF CoreInv, IssuedInv, Paid
  <2>8. BegunInv' /\ QuietInv'
    BY <1>1, <2>1, <2>2, <2>5 DEF CoreInv, BegunInv, QuietInv
  <2>9. ClockInv' /\ LockInv' /\ IssuedInv'
    BY <1>1, <2>1, <2>5 DEF CoreInv, ClockInv, LockInv, IssuedInv
  <2>10. DueInv'
    BY <1>1, <2>1, <2>2, <2>5 DEF CoreInv, DueInv
  <2>11. WriteInv'
    BY <1>1, <2>1, <2>5, <2>6 DEF CoreInv, WriteInv, ExpiryWrite, OwnWrite
  <2>12. CheckInv'
    BY <2>1, <2>2, <2>5, <2>6 DEF CoreInv, CheckInv
  <2>13. TargetInv'
    BY <1>1, <2>1, <2>5, <2>6, <2>7 DEF CoreInv, TargetInv
  <2>14. ChargeInv'
    BY <1>1, <2>1, <2>2, <2>5 DEF CoreInv, ChargeInv
  <2>15. NoDoubleSeat' /\ PaidBeforeTicket'
    BY <2>1, <2>6 DEF CoreInv, TypeOK, NoDoubleSeat, PaidBeforeTicket
  <2>16. CommittedVsWritten' /\ WrittenVsWritten'
    <3>1. \A t, c \in Req : pend[t][c] \in Active => pc'[t] = pc[t]
        BY <1>1, <2>5, ActiveWrite
    <3> QED
        BY <2>1, <3>1 DEF CoreInv, CommittedVsWritten, WrittenVsWritten
  <2> QED
    BY <2>4, <2>8, <2>9, <2>10, <2>11, <2>12, <2>13, <2>14, <2>15, <2>16 DEF CoreInv
<1> QED
    BY <1>2, <1>3

\* The columns of a new row are those of a row.
LEMMA NewRowIsRow ==
    ASSUME CoreInv, NEW r \in Req, pc[r] = "insert" PROVE NewRow(r) \in Row
<1>1. req[r] \in Call /\ req[r].op \in {"hold", "sell"}
    BY OpAt, CallsAssumption
<1>2. t0[r] \in Nat /\ t0[r] + HoldTTL \in Nat
    BY LimitAssumption DEF CoreInv, TypeOK
<1>3. SeatFor(r) \in Seat \cup {NoSeat}
  <2>1. CASE req[r].op = "hold"
    BY <1>1, <2>1 DEF SeatFor, Call
  <2>2. CASE req[r].op # "hold" /\ free[r] # {}
    BY <2>2 DEF SeatFor, CoreInv, TypeOK
  <2>3. CASE req[r].op # "hold" /\ free[r] = {}
    BY <2>3 DEF SeatFor
  <2> QED
    BY <2>1, <2>2, <2>3
<1>4. /\ req[r].trip \in Trip /\ req[r].class \in Class /\ req[r].who \in Passenger
      /\ req[r].leg \in {l \in [origin : Nat, dest : Nat] : IsLeg(l)}
      /\ req[r].ref \in Ref \cup Req \cup {NoRef}
    BY <1>1 DEF Call
<1>5. (IF req[r].ref = NoRef THEN r ELSE req[r].ref) \in Ref \cup Req
    BY <1>4
<1>6. (IF req[r].op = "hold" THEN t0[r] + HoldTTL ELSE 0) \in Nat
    BY <1>2
<1> QED
    BY <1>2, <1>3, <1>4, <1>5, <1>6 DEF NewRow, Row

\* An inserted version is new to every transaction, and its check is still to come.
LEMMA InsertCore ==
    ASSUME CoreInv, NEW r \in Req, Insert(r) PROVE CoreInv'
<1> DEFINE p == IF NewStatus(r) \in Active THEN "check" ELSE "commit"
<1>1. pc[r] = "insert" /\ req[r].op \in {"hold", "sell"} /\ Subject(r) = r
    BY OpAt DEF Insert, At, Subject
<1>2. /\ row' = [row EXCEPT ![r] = NewRow(r)]
      /\ pend' = [pend EXCEPT ![r][r] = NewStatus(r)]
      /\ pc' = [pc EXCEPT ![r] = p]
      /\ UNCHANGED <<now, status, req, t0, due, unread, free, got, charged,
                     announced, answer>>
    BY DEF Insert, Goto
<1>3. /\ NewStatus(r) \in {"HELD", "CONFIRMED", "STANDING"}
      /\ IF req[r].op = "hold" THEN NewStatus(r) = "HELD" ELSE NewStatus(r) \in Paid
    BY DEF NewStatus, Paid
<1>4. p \in {"check", "commit"} /\ p \in PhasesOf(req[r].op)
    BY <1>1 DEF PhasesOf
<1>5. status[r] = Absent /\ \A t \in Req : pend[t][r] = Absent
  <2>1. status[r] = Absent
    BY <1>1 DEF CoreInv, IssuedInv
  <2>2. \A t \in Req : pend[t][r] # Absent => OwnWrite(t, r)
    BY <2>1 DEF CoreInv, WriteInv, ExpiryWrite
  <2>3. \A t \in Req : ~OwnWrite(t, r)
    BY <1>1, <2>1 DEF OwnWrite, Subject
  <2> QED
    BY <2>1, <2>2, <2>3
<1>6. \A t \in Req :
        /\ pc'[t] = IF t = r THEN p ELSE pc[t]
        /\ row'[t] = IF t = r THEN NewRow(r) ELSE row[t]
  <2>1. \A t \in Req : pc'[t] = IF t = r THEN p ELSE pc[t]
    BY <1>2 DEF CoreInv, TypeOK
  <2>2. \A t \in Req : row'[t] = IF t = r THEN NewRow(r) ELSE row[t]
    BY <1>2 DEF CoreInv, TypeOK
  <2> QED
    BY <2>1, <2>2
<1>7. \A t, c \in Req :
        /\ pend'[t][c] = IF t = r /\ c = r THEN NewStatus(r) ELSE pend[t][c]
        /\ t # r => pend'[t] = pend[t]
    BY <1>2 DEF CoreInv, TypeOK
<1>8. \A t \in Req : Subject(t)' = Subject(t) /\ EventOf(t)' = EventOf(t)
    BY <1>2 DEF Subject, EventOf
<1>9. TypeOK'
  <2>1. row' \in [Req -> Row \cup {NoRow}]
    BY <1>1, <1>2, NewRowIsRow DEF CoreInv, TypeOK
  <2>2. pend' \in [Req -> [Req -> BStatus \cup {Absent}]]
    BY <1>2, <1>3 DEF CoreInv, TypeOK, BStatus
  <2>3. pc' \in [Req -> Phase]
    BY <1>2, <1>4 DEF CoreInv, TypeOK, Phase
  <2> QED
    BY <1>2, <2>1, <2>2, <2>3 DEF CoreInv, TypeOK
<1>10. BegunInv'
    BY <1>1, <1>2, <1>4, <1>6 DEF CoreInv, BegunInv
<1>11. ClockInv'
    BY <1>2 DEF CoreInv, ClockInv
<1>12. LockInv'
    BY <1>5, <1>7 DEF CoreInv, LockInv
<1>13. QuietInv'
    BY <1>4, <1>6, <1>7 DEF CoreInv, QuietInv
<1>14. IssuedInv'
    BY <1>1, <1>2, <1>5, <1>6 DEF CoreInv, IssuedInv
<1>15. DueInv'
    BY <1>1, <1>2, <1>4, <1>5, <1>6 DEF CoreInv, TypeOK, DueInv
<1>16. WriteInv'
  <2> SUFFICES ASSUME NEW t \in Req, NEW c \in Req, pend'[t][c] # Absent
               PROVE  row'[c] \in Row /\ (ExpiryWrite(t, c)' \/ OwnWrite(t, c)')
    BY DEF WriteInv
  <2>1. CASE t = r /\ c = r
    <3>1. OwnWrite(r, r)'
        BY <1>1, <1>2, <1>3, <1>4, <1>5, <1>6, <1>7, <1>8, <2>1 DEF OwnWrite
    <3> QED
        BY <1>1, <1>6, <2>1, <3>1, NewRowIsRow
  <2>2. CASE ~(t = r /\ c = r)
    <3>1. c # r /\ pend[t][c] # Absent
        BY <1>5, <1>7, <2>2
    <3> QED
        BY <1>1, <1>2, <1>6, <1>7, <1>8, <2>2, <3>1 DEF CoreInv, WriteInv, ExpiryWrite, OwnWrite
  <2> QED
    BY <2>1, <2>2
<1>17. CheckInv'
    BY <1>1, <1>2, <1>3, <1>6, <1>7, <1>8 DEF CoreInv, CheckInv, Active, Paid, Absent
<1>18. TargetInv'
    BY <1>1, <1>2, <1>6, <1>8 DEF CoreInv, TargetInv
<1>19. ChargeInv'
    BY <1>1, <1>2, <1>4, <1>6 DEF CoreInv, ChargeInv
<1>20. NoDoubleSeat' /\ PaidBeforeTicket'
    BY <1>2, <1>5, <1>6, <1>8 DEF CoreInv, TypeOK, NoDoubleSeat, PaidBeforeTicket, Active,
       Absent
<1>21. \A t, c \in Req :
        pend'[t][c] \in Active =>
            \/ t = r /\ c = r /\ pc'[r] = "check"
            \/ t # r /\ c # r /\ pend[t][c] \in Active
  <2>1. \A c \in Req : pend[r][c] \notin Active
    BY <1>1, ActiveWrite
  <2> QED
    BY <1>5, <1>6, <1>7, <2>1 DEF Active, Absent
<1>22. \A b \in Req : status[b] \in Active => b # r
    BY <1>5 DEF Active, Absent
<1>23. CommittedVsWritten'
    BY <1>2, <1>6, <1>7, <1>21, <1>22 DEF CoreInv, CommittedVsWritten
<1>24. WrittenVsWritten'
    BY <1>6, <1>21 DEF CoreInv, WrittenVsWritten
<1> QED
    BY <1>9, <1>10, <1>11, <1>12, <1>13, <1>14, <1>15, <1>16, <1>17, <1>18, <1>19, <1>20,
       <1>23, <1>24 DEF CoreInv

\* A set_status that writes waits for the row's writer first; what it writes is not
\* active, or its check is still to come.
LEMMA SetStatusCore ==
    ASSUME CoreInv, NEW r \in Req, SetStatus(r) PROVE CoreInv'
<1> DEFINE b == req[r].target
           target == ApplyEvent(got[r], EventOf(r))
           writes == Seen(r, b) # target
           checks == writes /\ target \in Active
           p == IF checks THEN "check" ELSE "commit"
<1>1. /\ pc[r] = "write" /\ req[r].op \in {"confirm", "cancel"} /\ b \in Req
      /\ Subject(r) = b
    BY OpAt, CallsAssumption DEF SetStatus, At, Call, Subject
<1>2. /\ \/ writes /\ WaitsFor(r) = {} /\ pend' = [pend EXCEPT ![r][b] = target]
         \/ ~writes /\ UNCHANGED pend
      /\ pc' = [pc EXCEPT ![r] = p]
      /\ announced' \in {announced, announced \cup {r}}
      /\ UNCHANGED <<now, status, row, req, t0, due, unread, free, got, charged, answer>>
    BY DEF SetStatus, Goto
<1>3. /\ status[b] # Absent /\ CanApply(got[r], EventOf(r))
      /\ req[r].op = "confirm" => req[b].op = "hold"
    BY <1>1 DEF CoreInv, BegunInv, TargetInv
<1>4. target = IF req[r].op = "confirm" THEN "CONFIRMED" ELSE "CANCELLED"
  <2>1. \A t \in BStatus : <<got[r], EventOf(r), t>> \in Transitions
            => t = IF req[r].op = "confirm" THEN "CONFIRMED" ELSE "CANCELLED"
    BY <1>1 DEF EventOf, Transitions
  <2>2. PICK t \in BStatus : <<got[r], EventOf(r), t>> \in Transitions
    BY <1>3 DEF CanApply
  <2>3. <<got[r], EventOf(r), target>> \in Transitions /\ target \in BStatus
    BY <2>2 DEF ApplyEvent
  <2> QED
    BY <2>1, <2>3
<1>5. p \in {"check", "commit"} /\ p \in PhasesOf(req[r].op)
    BY <1>1, <1>4 DEF PhasesOf, Active
<1>6. writes => \A t \in Req \ {r} : pend[t][b] = Absent
  <2>1. WaitsFor(r) = Lockers(r, b)
    BY <1>1 DEF WaitsFor
  <2> QED
    BY <1>2, <2>1 DEF Lockers
<1>7. \A t \in Req : pc'[t] = IF t = r THEN p ELSE pc[t]
    BY <1>2 DEF CoreInv, TypeOK
<1>8. \A t, c \in Req :
        /\ pend'[t][c] = IF writes /\ t = r /\ c = b THEN target ELSE pend[t][c]
        /\ t # r => pend'[t] = pend[t]
    BY <1>1, <1>2 DEF CoreInv, TypeOK
<1>9. \A t \in Req : Subject(t)' = Subject(t) /\ EventOf(t)' = EventOf(t)
    BY <1>2 DEF Subject, EventOf
<1> HIDE DEF target, p, writes
<1>10. TypeOK'
  <2>1. pend' \in [Req -> [Req -> BStatus \cup {Absent}]]
    <3>1. target \in BStatus
        BY <1>4 DEF BStatus
    <3>2. pend \in [Req -> [Req -> BStatus \cup {Absent}]]
        BY DEF CoreInv, TypeOK
    <3>3. pend' = pend \/ pend' = [pend EXCEPT ![r][b] = target]
        BY <1>2
    <3> QED
        BY <1>1, <3>1, <3>2, <3>3
  <2>2. pc' \in [Req -> Phase]
    BY <1>2, <1>5 DEF CoreInv, TypeOK, Phase
  <2>3. announced' \subseteq Req
    BY <1>2 DEF CoreInv, TypeOK
  <2> QED
    BY <1>2, <2>1, <2>2, <2>3 DEF CoreInv, TypeOK
<1>11. BegunInv' /\ ClockInv'
    BY <1>1, <1>2, <1>5, <1>7 DEF CoreInv, BegunInv, ClockInv
<1>12. LockInv'
    BY <1>6, <1>8 DEF CoreInv, LockInv
<1>13. QuietInv'
    BY <1>5, <1>7, <1>8 DEF CoreInv, QuietInv
<1>14. IssuedInv'
    BY <1>1, <1>2, <1>7 DEF CoreInv, IssuedInv
<1>15. DueInv'
    BY <1>1, <1>2, <1>5, <1>7 DEF CoreInv, DueInv
<1>16. WriteInv'
  <2> SUFFICES ASSUME NEW t \in Req, NEW c \in Req, pend'[t][c] # Absent
               PROVE  row'[c] \in Row /\ (ExpiryWrite(t, c)' \/ OwnWrite(t, c)')
    BY DEF WriteInv
  <2>1. CASE writes /\ t = r /\ c = b
    <3>1. OwnWrite(r, b)'
        BY <1>1, <1>2, <1>3, <1>4, <1>5, <1>7, <1>8, <1>9, <2>1 DEF OwnWrite
    <3> QED
        BY <1>1, <1>2, <1>3, <2>1, <3>1 DEF CoreInv, IssuedInv
  <2>2. CASE ~(writes /\ t = r /\ c = b)
    <3>1. pend[t][c] # Absent
        BY <1>8, <2>2
    <3> QED
        BY <1>1, <1>2, <1>7, <1>8, <1>9, <2>2, <3>1
           DEF CoreInv, WriteInv, ExpiryWrite, OwnWrite
  <2> QED
    BY <2>1, <2>2
<1>17. CheckInv'
  <2>1. p = "check" => writes /\ target \in Active
    BY DEF p
  <2> QED
    BY <1>1, <1>2, <1>7, <1>8, <1>9, <2>1 DEF CoreInv, CheckInv
<1>18. TargetInv'
    BY <1>1, <1>2, <1>5, <1>7, <1>9 DEF CoreInv, TargetInv
<1>19. ChargeInv'
    BY <1>1, <1>2, <1>5, <1>7 DEF CoreInv, ChargeInv
<1>20. NoDoubleSeat' /\ PaidBeforeTicket'
    BY <1>2, <1>9 DEF CoreInv, TypeOK, NoDoubleSeat, PaidBeforeTicket
<1>21. \A t, c \in Req :
        pend'[t][c] \in Active =>
            \/ t = r /\ pc'[r] = "check"
            \/ t # r /\ pend[t][c] \in Active
  <2>1. \A c \in Req : pend[r][c] \notin Active
    BY <1>1, ActiveWrite
  <2>2. writes /\ target \in Active => p = "check"
    BY DEF p
  <2> QED
    BY <1>7, <1>8, <2>1, <2>2
<1>22. CommittedVsWritten'
    BY <1>2, <1>7, <1>8, <1>21 DEF CoreInv, CommittedVsWritten
<1>23. WrittenVsWritten'
    BY <1>2, <1>7, <1>21 DEF CoreInv, WrittenVsWritten
<1> QED
    BY <1>10, <1>11, <1>12, <1>13, <1>14, <1>15, <1>16, <1>17, <1>18, <1>19, <1>20,
       <1>22, <1>23 DEF CoreInv

\* Two bookings in each other's way are so both ways.
LEMMA ClashSymmetric ==
    ASSUME NEW x, NEW y, Clash(x, y) PROVE Clash(y, x)
BY DEF Clash, Overlaps

\* A check that passes has seen every active version there is, committed or not.
LEMMA CheckCore ==
    ASSUME CoreInv, NEW r \in Req, Check(r) PROVE CoreInv'
<1>1. pc[r] = "check" /\ req[r].op \in {"hold", "sell", "confirm"}
    BY OpAt DEF Check, At
<1>2. CASE \E why \in {"error", "overlap"} : Rollback(r, why)
    BY <1>1, <1>2, RollbackCore DEF Answers
<1>3. CASE ~ \E why \in {"error", "overlap"} : Rollback(r, why)
  <2>1. /\ ~Taken(r, Subject(r)) /\ WaitsFor(r) = {}
        /\ announced' = announced \cup {r}
        /\ pc' = [pc EXCEPT ![r] = "commit"]
        /\ UNCHANGED <<now, status, row, pend, req, t0, due, unread, free, got,
                       charged, answer>>
    BY <1>3 DEF Check, Goto
  <2>2. \A t \in Req : pc'[t] = IF t = r THEN "commit" ELSE pc[t]
    BY <2>1 DEF CoreInv, TypeOK
  <2>3. \A t \in Req : Subject(t)' = Subject(t) /\ EventOf(t)' = EventOf(t)
    BY <2>1 DEF Subject, EventOf
  <2>4. Subject(r) \in Req /\ InDoubt(r, Subject(r)) = {}
    BY <1>1, <2>1, OpAt, CallsAssumption DEF Subject, Call, WaitsFor
  <2>5. \A c \in Req : pend[r][c] \in Active => c = Subject(r)
    BY ActiveWrite
  <2>6. TypeOK'
    BY <2>1 DEF CoreInv, TypeOK, Phase
  <2>7. BegunInv' /\ QuietInv'
    <3>1. "commit" \in PhasesOf(req[r].op)
        BY <1>1 DEF PhasesOf
    <3> QED
        BY <1>1, <2>1, <2>2, <3>1 DEF CoreInv, BegunInv, QuietInv
  <2>8. ClockInv' /\ LockInv' /\ IssuedInv'
    BY <1>1, <2>1, <2>2 DEF CoreInv, ClockInv, LockInv, IssuedInv
  <2>9. DueInv'
    BY <1>1, <2>1, <2>2 DEF CoreInv, DueInv
  <2>10. WriteInv'
    BY <1>1, <2>1, <2>2, <2>3 DEF CoreInv, WriteInv, ExpiryWrite, OwnWrite
  <2>11. CheckInv'
    BY <1>1, <2>1, <2>2, <2>3 DEF CoreInv, CheckInv, Subject, Active, Absent
  <2>12. TargetInv'
    BY <2>1, <2>2, <2>3 DEF CoreInv, TargetInv
  <2>13. ChargeInv'
    BY <1>1, <2>1, <2>2 DEF CoreInv, ChargeInv
  <2>14. NoDoubleSeat' /\ PaidBeforeTicket'
    BY <2>1, <2>3 DEF CoreInv, TypeOK, NoDoubleSeat, PaidBeforeTicket
  <2>15. ASSUME NEW b \in Req, b # Subject(r), status[b] \in Active,
                Clash(row[Subject(r)], row[b])
         PROVE  pend[r][b] \notin Active \cup {Absent}
    <3>1. CASE pend[r][b] = Absent
      <4>1. Seen(r, b) \in Active
        BY <2>15, <3>1 DEF Seen
      <4>2. PICK t \in Req \ {r} : pend[t][b] # Absent
        BY <2>1, <2>15, <4>1 DEF Taken, Lockers
      <4>3. t \in InDoubt(r, Subject(r))
        BY <2>15, <4>2 DEF InDoubt
      <4> QED
        BY <2>4, <4>3
    <3> QED
        BY <2>5, <2>15, <3>1
  <2>16. CommittedVsWritten'
    BY <2>1, <2>2, <2>5, <2>15 DEF CoreInv, CommittedVsWritten
  <2>17. ASSUME NEW b \in Req, NEW u \in Req, b # Subject(r), pend[u][b] \in Active
         PROVE  ~Clash(row[Subject(r)], row[b]) /\ ~Clash(row[b], row[Subject(r)])
    <3>1. u # r /\ pend[u][b] # Absent
        BY <2>5, <2>17 DEF Active, Absent
    <3>2. Clash(row[Subject(r)], row[b]) => u \in InDoubt(r, Subject(r))
        BY <2>17, <3>1 DEF InDoubt
    <3> QED
        BY <2>4, <3>2, ClashSymmetric
  <2>18. WrittenVsWritten'
    BY <2>1, <2>2, <2>5, <2>17 DEF CoreInv, WrittenVsWritten
  <2> QED
    BY <2>6, <2>7, <2>8, <2>9, <2>10, <2>11, <2>12, <2>13, <2>14, <2>16, <2>18 DEF CoreInv
<1> QED
    BY <1>2, <1>3

\* A commit turns r's versions into committed ones: by then none of them meets an
\* active version of another booking.
LEMMA CommitCore ==
    ASSUME CoreInv, NEW r \in Req, Commit(r) PROVE CoreInv'
<1> DEFINE W(t, b) == IF t = r THEN Absent ELSE pend[t][b]
<1>1. pc[r] = "commit"
    BY DEF Commit, At
<1>2. PICK why \in Answers : End(r, why)
  <2>1. Outcome(r) \subseteq Answers
    BY DEF Outcome, ReceiptFor, Answers
  <2> QED
    BY <2>1 DEF Commit, Answers
<1>3. /\ status' = [b \in Req |-> Seen(r, b)]
      /\ pc' = [pc EXCEPT ![r] = "done"]
      /\ pend' = [pend EXCEPT ![r] = NoWrites]
      /\ UNCHANGED <<now, row, req, charged, announced>>
    BY <1>2 DEF Commit, End, CloseSession
<1>4. TypeOK'
    BY <1>2, <1>3 DEF End, CoreInv, TypeOK, Seen, NoWrites, Phase
<1>5. \A t \in Req :
        /\ pc'[t] = IF t = r THEN "done" ELSE pc[t]
        /\ due'[t] = IF t = r THEN {} ELSE due[t]
        /\ got'[t] = IF t = r THEN Absent ELSE got[t]
        /\ t0'[t] = IF t = r THEN 0 ELSE t0[t]
        /\ \A b \in Req : pend'[t][b] = W(t, b)
        /\ t = r => pend'[t] = NoWrites
        /\ t # r => pend'[t] = pend[t]
  <2>1. \A t \in Req : pc'[t] = IF t = r THEN "done" ELSE pc[t]
    BY <1>3 DEF CoreInv, TypeOK
  <2>2. \A t \in Req : due'[t] = IF t = r THEN {} ELSE due[t]
    BY <1>2 DEF End, CoreInv, TypeOK
  <2>3. \A t \in Req : got'[t] = IF t = r THEN Absent ELSE got[t]
    BY <1>2 DEF End, CoreInv, TypeOK
  <2>4. \A t \in Req : t0'[t] = IF t = r THEN 0 ELSE t0[t]
    BY <1>2 DEF End, CoreInv, TypeOK
  <2>5. \A t \in Req : pend'[t] = IF t = r THEN NoWrites ELSE pend[t]
    BY <1>3 DEF CoreInv, TypeOK
  <2> QED
    BY <2>1, <2>2, <2>3, <2>4, <2>5 DEF NoWrites
<1>6. \A t \in Req : Subject(t)' = Subject(t) /\ EventOf(t)' = EventOf(t)
    BY <1>3 DEF Subject, EventOf
<1>7. \A b \in Req :
        /\ status'[b] = IF pend[r][b] # Absent THEN pend[r][b] ELSE status[b]
        /\ status[b] # Absent => status'[b] # Absent
    BY <1>3 DEF Seen
<1>8. \A b \in Req : pend[r][b] # Absent => ExpiryWrite(r, b) \/ OwnWrite(r, b)
    BY DEF CoreInv, WriteInv
<1>9. \A b \in Req : pend[r][b] \in Active => b = Subject(r)
    BY ActiveWrite
<1>10. BegunInv'
  <2>1. \A op : "done" \in PhasesOf(op)
    BY DEF PhasesOf
  <2> QED
    BY <1>1, <1>3, <1>5, <2>1 DEF CoreInv, BegunInv
<1>11. ClockInv' /\ LockInv' /\ QuietInv'
  <2>1. ClockInv'
    BY <1>3, <1>5 DEF CoreInv, TypeOK, ClockInv
  <2>2. LockInv'
    BY <1>5 DEF CoreInv, LockInv
  <2>3. QuietInv'
    BY <1>5 DEF CoreInv, QuietInv
  <2> QED
    BY <2>1, <2>2, <2>3
<1>12. IssuedInv'
  <2> SUFFICES ASSUME NEW b \in Req, status'[b] # Absent
               PROVE  /\ pc'[b] = "done" /\ row[b] \in Row
                      /\ \/ req[b].op = "hold"
                         \/ req[b].op = "sell" /\ status'[b] \in Paid \cup {"CANCELLED"}
    BY <1>3 DEF IssuedInv
  <2>1. CASE pend[r][b] = Absent
    BY <1>5, <1>7, <2>1 DEF CoreInv, IssuedInv
  <2>2. CASE pend[r][b] # Absent /\ ExpiryWrite(r, b)
    BY <1>5, <2>2 DEF ExpiryWrite, CoreInv, IssuedInv
  <2>3. CASE pend[r][b] # Absent /\ OwnWrite(r, b)
    <3>1. row[b] \in Row
        BY <2>3 DEF CoreInv, WriteInv
    <3>2. CASE req[r].op \in {"hold", "sell"}
        BY <1>5, <1>7, <2>3, <3>1, <3>2 DEF OwnWrite, Subject
    <3>3. CASE req[r].op \in {"confirm", "cancel"}
        BY <1>5, <1>7, <2>3, <3>1, <3>3 DEF OwnWrite, CoreInv, IssuedInv
    <3> QED
        BY <2>3, <3>2, <3>3 DEF OwnWrite
  <2> QED
    BY <1>8, <2>1, <2>2, <2>3
<1>13. DueInv'
    BY <1>3, <1>5, <1>7 DEF CoreInv, TypeOK, DueInv
<1>14. WriteInv'
  <2> SUFFICES ASSUME NEW t \in Req, NEW b \in Req, pend'[t][b] # Absent
               PROVE  row[b] \in Row /\ (ExpiryWrite(t, b)' \/ OwnWrite(t, b)')
    BY <1>3 DEF WriteInv
  <2>1. t # r /\ pend[t][b] # Absent /\ pend[r][b] = Absent
    BY <1>5 DEF CoreInv, LockInv
  <2>2. status'[b] = status[b] /\ pc'[t] = pc[t] /\ pend'[t][b] = pend[t][b]
    BY <1>5, <1>7, <2>1
  <2> QED
    BY <1>3, <1>6, <2>1, <2>2 DEF CoreInv, WriteInv, ExpiryWrite, OwnWrite
<1>15. CheckInv'
    BY <1>3, <1>5, <1>6 DEF CoreInv, CheckInv
<1>16. TargetInv'
  <2> SUFFICES ASSUME NEW t \in Req, req[t] \in Calls,
                      req[t].op \in {"confirm", "cancel"}, pc'[t] \in {"charge", "write"}
               PROVE  /\ status'[req[t].target] # Absent
                      /\ CanApply(got'[t], EventOf(t)')
                      /\ req[t].op = "confirm" => req[req[t].target].op = "hold"
    BY <1>3 DEF TargetInv
  <2>1. t # r /\ pc[t] \in {"charge", "write"} /\ got'[t] = got[t]
    BY <1>5
  <2>2. req[t].target \in Req
    BY CallsAssumption DEF Call
  <2> QED
    BY <1>6, <1>7, <2>1, <2>2 DEF CoreInv, TargetInv
<1>17. ChargeInv'
    BY <1>3, <1>5 DEF CoreInv, ChargeInv
<1>18. ASSUME NEW b \in Req, NEW c \in Req, b # c, Clash(row[c], row[b]),
              status'[b] \in Active, pend[r][c] \in Active
       PROVE  FALSE
  <2>1. CASE pend[r][b] = Absent
    BY <1>1, <1>7, <1>18, <2>1 DEF CoreInv, CommittedVsWritten
  <2>2. CASE pend[r][b] # Absent
    BY <1>7, <1>9, <1>18, <2>2
  <2> QED
    BY <2>1, <2>2
<1>19. NoDoubleSeat'
  <2> SUFFICES ASSUME NEW b \in Req, NEW c \in Req, b # c, status'[b] \in Active,
                      status'[c] \in Active, Clash(row[b], row[c])
               PROVE  FALSE
    BY <1>3 DEF NoDoubleSeat
  <2>1. Clash(row[c], row[b])
    BY ClashSymmetric
  <2>2. CASE pend[r][b] # Absent
    BY <1>7, <1>18, <2>2
  <2>3. CASE pend[r][c] # Absent
    BY <1>7, <1>18, <2>1, <2>3
  <2>4. CASE pend[r][b] = Absent /\ pend[r][c] = Absent
    BY <1>7, <2>4 DEF CoreInv, NoDoubleSeat
  <2> QED
    BY <2>2, <2>3, <2>4
<1>20. CommittedVsWritten'
  <2> SUFFICES ASSUME NEW b \in Req, NEW c \in Req, NEW t \in Req, b # c,
                      status'[b] \in Active, pend'[t][c] \in Active,
                      Clash(row[c], row[b])
               PROVE  pc'[t] = "check" \/ pend'[t][b] \notin Active \cup {Absent}
    BY <1>3 DEF CommittedVsWritten
  <2>1. t # r /\ pend'[t] = pend[t] /\ pc'[t] = pc[t] /\ pend[t][c] \in Active
    BY <1>5 DEF Active, Absent
  <2>2. CASE pend[r][b] = Absent
    BY <1>7, <2>1, <2>2 DEF CoreInv, CommittedVsWritten
  <2>3. CASE pend[r][b] # Absent
    <3>1. pend[r][b] \in Active
        BY <1>7, <2>3
    <3> QED
        BY <1>1, <2>1, <3>1 DEF CoreInv, WrittenVsWritten
  <2> QED
    BY <2>2, <2>3
<1>21. WrittenVsWritten'
    BY <1>3, <1>5 DEF CoreInv, WrittenVsWritten, Active, Absent
<1>22. PaidBeforeTicket'
  <2> SUFFICES ASSUME NEW b \in Req, status'[b] \in Paid
               PROVE  \E t \in charged : Subject(t) = b
    BY <1>3, <1>6 DEF CoreInv, TypeOK, PaidBeforeTicket
  <2>1. CASE pend[r][b] = Absent
    BY <1>7, <2>1 DEF CoreInv, PaidBeforeTicket
  <2>2. CASE pend[r][b] # Absent
    <3>1. OwnWrite(r, b) /\ req[r].op \in {"sell", "confirm"}
        BY <1>7, <1>8, <2>2 DEF ExpiryWrite, OwnWrite, Paid
    <3> QED
        BY <1>1, <3>1 DEF CoreInv, ChargeInv, OwnWrite
  <2> QED
    BY <2>1, <2>2
<1> QED
    BY <1>4, <1>10, <1>11, <1>12, <1>13, <1>14, <1>15, <1>16, <1>17, <1>19, <1>20, <1>21,
       <1>22 DEF CoreInv

\* Nothing is held, issued or under way to begin with.
LEMMA InitCore == ASSUME Init PROVE CoreInv
<1> USE DEF Init
<1>1. TypeOK
    BY DEF TypeOK, NoWrites, Phase, Answers
<1>2. \A t, b \in Req : pend[t][b] = Absent
    BY DEF NoWrites
<1>3. BegunInv /\ ClockInv /\ LockInv /\ QuietInv /\ IssuedInv /\ DueInv /\ WriteInv
    BY <1>2 DEF BegunInv, ClockInv, LockInv, QuietInv, IssuedInv, DueInv, WriteInv
<1>4. CheckInv /\ TargetInv /\ ChargeInv
    BY DEF CheckInv, TargetInv, ChargeInv
<1>5. NoDoubleSeat /\ CommittedVsWritten /\ WrittenVsWritten /\ PaidBeforeTicket
  <2>1. \A t, b \in Req : /\ status[b] \notin Active \cup Paid
                          /\ pend[t][b] \notin Active
    BY <1>2 DEF Active, Paid, Absent
  <2> QED
    BY <2>1 DEF NoDoubleSeat, CommittedVsWritten, WrittenVsWritten, PaidBeforeTicket
<1> QED
    BY <1>1, <1>3, <1>4, <1>5 DEF CoreInv

\* Nothing is done is nothing undone.
LEMMA StutterCore == ASSUME CoreInv, UNCHANGED vars PROVE CoreInv'
<1> USE DEF vars
<1>1. \A t \in Req : Subject(t)' = Subject(t) /\ EventOf(t)' = EventOf(t)
    BY DEF Subject, EventOf
<1>2. TypeOK' /\ BegunInv' /\ ClockInv' /\ LockInv' /\ QuietInv' /\ IssuedInv' /\ DueInv'
    BY DEF CoreInv, TypeOK, BegunInv, ClockInv, LockInv, QuietInv, IssuedInv, DueInv
<1>3. WriteInv'
    BY <1>1 DEF CoreInv, WriteInv, ExpiryWrite, OwnWrite
<1>4. CheckInv' /\ TargetInv' /\ ChargeInv'
    BY <1>1 DEF CoreInv, CheckInv, TargetInv, ChargeInv
<1>5. NoDoubleSeat' /\ CommittedVsWritten' /\ WrittenVsWritten' /\ PaidBeforeTicket'
    BY <1>1 DEF CoreInv, TypeOK, NoDoubleSeat, CommittedVsWritten, WrittenVsWritten,
       PaidBeforeTicket
<1> QED
    BY <1>2, <1>3, <1>4, <1>5 DEF CoreInv

\* The failures that end a request whatever statement it is at.
LEMMA VictimCore ==
    ASSUME CoreInv, NEW r \in Req, DeadlockVictim(r) \/ Fail(r) PROVE CoreInv'
<1>1. r \in Open /\ Rollback(r, "error")
    BY DEF DeadlockVictim, Fail, Deadlocked
<1> QED
    BY <1>1, RollbackCore DEF Open, Answers

\* The invariant is inductive: one lemma per statement.
LEMMA NextCore == ASSUME CoreInv, [Next]_vars PROVE CoreInv'
<1>1. CASE Tick
    BY <1>1, TickCore
<1>2. ASSUME NEW r \in Req, NEW c \in Calls, Begin(r, c) PROVE CoreInv'
    BY <1>2, BeginCore
<1>3. ASSUME NEW r \in Req, Step(r) PROVE CoreInv'
  <2>1. CASE Lookup(r)         BY <2>1, LookupCore
  <2>2. CASE Validate(r)       BY <2>2, ValidateCore
  <2>3. CASE SelectDue(r)      BY <2>3, SelectDueCore
  <2>4. CASE ExpireRow(r)      BY <2>4, ExpireRowCore
  <2>5. CASE Admit(r)          BY <2>5, AdmitCore
  <2>6. CASE ScanSeat(r)       BY <2>6, ScanSeatCore
  <2>7. CASE CountStanding(r)  BY <2>7, CountStandingCore
  <2>8. CASE Charge(r)         BY <2>8, ChargeCore
  <2>9. CASE Insert(r)         BY <2>9, InsertCore
  <2>10. CASE Get(r)           BY <2>10, GetCore
  <2>11. CASE SetStatus(r)     BY <2>11, SetStatusCore
  <2>12. CASE Check(r)         BY <2>12, CheckCore
  <2>13. CASE View(r)          BY <2>13, ViewCore
  <2>14. CASE Commit(r)        BY <2>14, CommitCore
  <2>15. CASE DeadlockVictim(r)
    BY <2>15, VictimCore
  <2> QED
    BY <1>3, <2>1, <2>2, <2>3, <2>4, <2>5, <2>6, <2>7, <2>8, <2>9, <2>10, <2>11, <2>12,
       <2>13, <2>14, <2>15 DEF Step
<1>4. ASSUME NEW r \in Req, Fail(r) PROVE CoreInv'
    BY <1>4, VictimCore
<1>5. CASE UNCHANGED vars
    BY <1>5, StutterCore
<1> QED
    BY <1>1, <1>2, <1>3, <1>4, <1>5 DEF Next

\* CoreInv holds in every state of every behaviour.
THEOREM Inductive == Spec => []CoreInv
<1>1. Init => CoreInv
    BY InitCore
<1>2. CoreInv /\ [Next]_vars => CoreInv'
    BY NextCore
<1> QED
    BY <1>1, <1>2, PTL DEF Spec

\* Every variable keeps its type.
THEOREM TypeCorrect == Spec => []TypeOK
<1>1. CoreInv => TypeOK
    BY DEF CoreInv
<1> QED
    BY <1>1, Inductive, PTL

\* However many requests race, and wherever they fail, no two active bookings share a
\* seat over overlapping legs.
THEOREM SeatsNeverShared == Spec => []NoDoubleSeat
<1>1. CoreInv => NoDoubleSeat
    BY DEF CoreInv
<1> QED
    BY <1>1, Inductive, PTL

\* However the requests interleave, no ticket is issued that nobody paid for.
THEOREM TicketsArePaid == Spec => []PaidBeforeTicket
<1>1. CoreInv => PaidBeforeTicket
    BY DEF CoreInv
<1> QED
    BY <1>1, Inductive, PTL
=============================================================================
