----------------------------- MODULE SeatLedger -----------------------------
(***************************************************************************)
(* What the booking table promises whatever transactions run: a ledger of  *)
(* tickets in which each committed transaction retires some lapsed holds   *)
(* and at most issues one booking or settles one.  Bookings are never      *)
(* deleted, their columns never change, and a booking becomes active only  *)
(* where no other active one is in its way.  Which settlements are legal   *)
(* is not the table's business: that is booking_sm's, see LegalTransitions *)
(* in module BookingTx.                                                    *)
(***************************************************************************)
EXTENDS BookingRow, Integers

CONSTANTS Booking, Row, NoRow

VARIABLES
    now,      \* the clock
    status,   \* status of each booking, Absent until it is issued
    row,      \* its columns, NoRow until then
    held      \* the bookings issued as holds

vars == <<now, status, row, held>>

Init ==
    /\ now = 0
    /\ status = [b \in Booking |-> Absent]
    /\ row = [b \in Booking |-> NoRow]
    /\ held = {}

Tick == now' = now + 1 /\ UNCHANGED <<status, row, held>>

\* The holds whose time is over.
Lapsed == {b \in held : row[b].until <= now}

\* The statuses once the holds in E are retired.
Retired(E) == [b \in Booking |-> IF b \in E THEN "EXPIRED" ELSE status[b]]

\* Nothing active is in the way of booking b with columns x.
Free(E, b, x) ==
    \A c \in Booking \ {b} : Retired(E)[c] \in Active => ~Clash(x, row[c])

\* A transaction that only retires.
Retire(E) ==
    /\ status' = Retired(E)
    /\ UNCHANGED <<now, row, held>>

\* One that issues booking b with first status s.
Issue(E, b, s) ==
    /\ status[b] = Absent
    /\ row'[b] \in Row
    /\ s \in Active => Free(E, b, row'[b])
    /\ status' = [Retired(E) EXCEPT ![b] = s]
    /\ row' = [row EXCEPT ![b] = row'[b]]
    /\ held' = IF s = "HELD" THEN held \cup {b} ELSE held
    /\ UNCHANGED now

\* One that cancels booking b, or confirms it if it was issued as a hold.
Settle(E, b, s) ==
    /\ status[b] # Absent
    /\ s = "CONFIRMED" => b \in held /\ Free(E, b, row[b])
    /\ status' = [Retired(E) EXCEPT ![b] = s]
    /\ UNCHANGED <<now, row, held>>

Next ==
    \/ Tick
    \/ \E E \in SUBSET Lapsed :
        \/ Retire(E)
        \/ \E b \in Booking :
            \/ \E s \in {"HELD", "CONFIRMED", "STANDING"} : Issue(E, b, s)
            \/ \E s \in {"CONFIRMED", "CANCELLED"} : Settle(E, b, s)

Spec == Init /\ [][Next]_vars
=============================================================================
