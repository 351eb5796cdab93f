--------------------------- MODULE BookingTxSerial ---------------------------
(***************************************************************************)
(* The invariant behind what BookingTx promises when requests do not       *)
(* interleave (Threads = 1): what the one open request has decided from    *)
(* what it read is still true of the table when it commits.                *)
(***************************************************************************)
EXTENDS BookingTxInv

\* r is about a new booking.
Books(r) == pc[r] # "new" /\ req[r].op \in {"hold", "sell"}

\* One request at a time.
OneOpenInv == \A r, u \in Open : r = u

\* The columns of a row are those its request asked for, and it asked for a leg of the
\* route.
RowInv ==
    \A b \in Req : row[b] # NoRow =>
        /\ pc[b] \in {"check", "commit", "done"} /\ Books(b)
        /\ row[b].trip = req[b].trip /\ row[b].class = req[b].class
        /\ row[b].who = req[b].who /\ row[b].leg = req[b].leg
        /\ row[b].ref = IF req[b].ref = NoRef THEN b ELSE req[b].ref
        /\ ValidLeg(row[b].leg)

\* A request that names a reference made up for another one comes after the answer to it.
RefInv ==
    \A r \in Req : pc[r] # "new" /\ req[r].ref \in Req => pc[req[r].ref] = "done"

-----------------------------------------------------------------------------
(* What a request knows.                                                   *)

\* What is selected for expiry is a hold, and every lapsed hold is.
LapsesKnown(r) ==
    /\ \A b \in due[r] : status[b] = "HELD" /\ pend[r][b] = Absent
    /\ pc[r] \notin {"new", "done", "lookup", "validate", "select"}
            /\ req[r].op # "cancel" =>
        \A b \in Req \ {r} :
            Seen(r, b) = "HELD" /\ row[b].until <= t0[r] => b \in due[r]

\* Every write is a first status or a legal transition of what is committed.
LegalWrites(r) ==
    \A b \in Req : pend[r][b] # Absent =>
        IF status[b] = Absent THEN pend[r][b] \in {"HELD", "CONFIRMED", "STANDING"}
        ELSE \E e \in BEvent : <<status[b], e, pend[r][b]>> \in Transitions

\* What confirm and cancel have read is what there is, until they overwrite it.
ReadIsCurrent(r) ==
    /\ pc[r] \in {"charge", "write"} /\ req[r].op \in {"confirm", "cancel"} =>
        status[req[r].target] = got[r] /\ pend[r][req[r].target] = Absent
    /\ pc[r] = "commit" /\ req[r].op = "confirm" =>
        pend[r][req[r].target] = "CONFIRMED"

\* Nobody else has the reference that was looked up.
RefIsUnknown(r) ==
    Books(r) /\ req[r].ref # NoRef /\ pc[r] \notin {"new", "done", "lookup"} =>
        \A b \in Req \ {r} : Seen(r, b) # Absent => row[b].ref # req[r].ref

\* The bookings r sees besides its own that count towards the cap, and towards the
\* capacity for standing.
OthersActive(r) ==
    {b \in Req \ {r} : /\ Seen(r, b) \in Active
                       /\ row[b].trip = req[r].trip /\ row[b].who = req[r].who}

OthersStanding(r) ==
    {b \in Req \ {r} : /\ Seen(r, b) = "STANDING"
                       /\ row[b].trip = req[r].trip /\ row[b].class = req[r].class}

\* After the admission checks there is room for one more.
HasRoom(r) ==
    Books(r) /\ pc[r] \in {"scan", "count", "charge", "insert", "check", "commit"} =>
        /\ ValidLeg(req[r].leg)
        /\ Cardinality(OthersActive(r)) < SeatCap
        /\ req[r].op = "sell" /\ free[r] = {} /\ pc[r] \in {"charge", "insert", "commit"} =>
            Cardinality(OthersStanding(r)) < StandingCap

\* What the scan has found free is free, and what is inserted is what it led to.
ScanIsCurrent(r) ==
    /\ free[r] # {} =>
        req[r].op = "sell" /\ pc[r] \in {"scan", "charge", "insert", "check", "commit"}
    /\ pc[r] \in {"scan", "charge", "insert"} => \A s \in free[r] : SeatLooksFree(r, s)
    /\ pc[r] \in {"check", "commit"} /\ Books(r) => pend[r][r] = NewStatus(r)
    /\ pc[r] = "check" /\ req[r].op = "sell" => ~Taken(r, r)

KnowledgeInv(r) ==
    /\ LapsesKnown(r) /\ LegalWrites(r) /\ ReadIsCurrent(r) /\ RefIsUnknown(r)
    /\ HasRoom(r) /\ ScanIsCurrent(r)

SerialInv == OneOpenInv /\ RowInv /\ RefInv /\ \A r \in Req : KnowledgeInv(r)

-----------------------------------------------------------------------------
(* The money, when no connection or process fails in the middle.           *)

\* Who has charged goes on to issue a ticket; a request that is over and has charged has
\* done so, and the booking can only have been cancelled since.
MoneyInv ==
    \A r \in charged :
        /\ req[r].op \in {"sell", "confirm"}
        /\ pc[r] \in {"insert", "write", "check", "commit", "done"}
        /\ pc[r] = "done" => status[Subject(r)] \in Paid \cup {"CANCELLED"}

SerialMoneyInv == SerialInv /\ MoneyInv
=============================================================================
