------------------------------ MODULE HoldStore ------------------------------
(***************************************************************************)
(* adapters/memory_repo.py, the in-memory booking repository: what its     *)
(* operations answer and leave behind.  A store maps every booking id to   *)
(* its record, NoHold while there is none; the SQL repository answers the  *)
(* same when one request runs at a time.                                   *)
(***************************************************************************)
EXTENDS BookingRow, Integers, FiniteSets

CONSTANTS Id, NoHold

\* The bookings of store s.
Present(s) == {b \in Id : s[b] # NoHold}

ActiveHolds(s, trip) == {b \in Present(s) : s[b].trip = trip /\ s[b].status \in Active}

ActiveForSeat(s, trip, seat) == {b \in ActiveHolds(s, trip) : s[b].seat = seat}

ActiveForPassenger(s, trip, who) == {b \in ActiveHolds(s, trip) : s[b].who = who}

ByStatus(s, trip, status) == {b \in Present(s) : s[b].trip = trip /\ s[b].status = status}

\* by_reference: the bookings a reference names, at most one.
ByReference(s, ref) == {b \in Present(s) : s[b].ref = ref}

\* Fault: only a paid booking is in the way.
ClearPaidOnly(s, h) ==
    \A b \in ActiveForSeat(s, h.trip, h.seat) :
        s[b].status = "CONFIRMED" => ~Overlaps(s[b].leg, h.leg)

\* add_hold does not raise OverlapError.
Clear(s, h) ==
    \A b \in ActiveForSeat(s, h.trip, h.seat) : ~Overlaps(s[b].leg, h.leg)

AddHold(s, b, h) == [s EXCEPT ![b] = h]

SetStatus(s, b, status) == [s EXCEPT ![b].status = status]

\* Fault: every unpaid hold is retired.
ExpireAll(s, t) ==
    [b \in Id |-> IF s[b] # NoHold /\ s[b].status = "HELD"
                  THEN [s[b] EXCEPT !.status = "EXPIRED"] ELSE s[b]]

\* expire_due: the holds whose time is over by t, on any trip.
ExpireDue(s, t) ==
    [b \in Id |-> IF s[b] # NoHold /\ s[b].status = "HELD" /\ s[b].until <= t
                  THEN [s[b] EXCEPT !.status = "EXPIRED"] ELSE s[b]]
=============================================================================
