----------------------------- MODULE BookingRow -----------------------------
(***************************************************************************)
(* The booking table of adapters/orm.py: the values a row is made of and   *)
(* the operands of its exclusion constraint.                               *)
(***************************************************************************)
EXTENDS Legs, BookingStatus

\* No such booking; in a transaction's writes, nothing written.
Absent == "ABSENT"

\* seat_id of a standing ticket, NULL in the table.
NoSeat == 0

\* booking_no_overlap: trip_id WITH =, seat_id WITH =, leg WITH &&.
Clash(x, y) ==
    /\ x.trip = y.trip
    /\ x.seat = y.seat /\ x.seat # NoSeat
    /\ Overlaps(x.leg, y.leg)
=============================================================================
