---------------------------- MODULE BookingStatus ----------------------------
(***************************************************************************)
(* domain/values.py and domain/booking_sm.py: the statuses of a booking    *)
(* and the table of legal transitions.                                     *)
(***************************************************************************)

BStatus == {"HELD", "CONFIRMED", "CANCELLED", "EXPIRED", "STANDING"}

\* Statuses that occupy a seat over a leg, the scope of the EXCLUDE constraint.
Active == {"HELD", "CONFIRMED"}

\* "Terminal statuses, no transition leaves them."
Terminal == {"CANCELLED", "EXPIRED"}

\* A ticket somebody paid for and can travel on.
Paid == {"CONFIRMED", "STANDING"}

BEvent == {"CONFIRM", "CANCEL", "EXPIRE"}

\* Fault: confirming twice is taken for harmless.
TransitionsRepeatable ==
    { <<"HELD", "CONFIRM", "CONFIRMED">>,
      <<"CONFIRMED", "CONFIRM", "CONFIRMED">>,
      <<"HELD", "CANCEL", "CANCELLED">>,
      <<"HELD", "EXPIRE", "EXPIRED">>,
      <<"CONFIRMED", "CANCEL", "CANCELLED">>,
      <<"STANDING", "CANCEL", "CANCELLED">> }

\* The table _TRANSITIONS: <<status, event, status after>>.
Transitions ==
    { <<"HELD", "CONFIRM", "CONFIRMED">>,
      <<"HELD", "CANCEL", "CANCELLED">>,
      <<"HELD", "EXPIRE", "EXPIRED">>,
      <<"CONFIRMED", "CANCEL", "CANCELLED">>,
      <<"STANDING", "CANCEL", "CANCELLED">> }

CanApply(current, event) ==
    \E target \in BStatus : <<current, event, target>> \in Transitions

\* The status moved to; apply raises IllegalTransition where CanApply is false.
ApplyEvent(current, event) ==
    CHOOSE target \in BStatus : <<current, event, target>> \in Transitions
=============================================================================
