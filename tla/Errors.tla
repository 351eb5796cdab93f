------------------------------- MODULE Errors -------------------------------
(***************************************************************************)
(* domain/errors.py and app/errors.py: the rules a request can violate, as *)
(* a hierarchy of classes, and the HTTP status a violation is answered     *)
(* with.                                                                   *)
(***************************************************************************)
EXTENDS Integers

\* The class each error is derived from.
BaseOf ==
    [DomainError |-> "Exception",
     InvalidLeg |-> "DomainError", InvalidServiceDate |-> "DomainError",
     IllegalTransition |-> "DomainError", NoFeasibleSeat |-> "DomainError",
     OverlapError |-> "DomainError", AntiAbuseError |-> "DomainError",
     SeatCapExceeded |-> "AntiAbuseError", VelocityExceeded |-> "AntiAbuseError",
     AbuseSuspected |-> "AntiAbuseError", PaymentDeclined |-> "DomainError",
     CoachFull |-> "DomainError", BookingNotFound |-> "DomainError",
     SeatNotBookable |-> "DomainError"]

\* _STATUS
HttpStatus ==
    [OverlapError |-> 409, IllegalTransition |-> 409, NoFeasibleSeat |-> 409,
     CoachFull |-> 409, AntiAbuseError |-> 429, PaymentDeclined |-> 402,
     BookingNotFound |-> 404, SeatNotBookable |-> 422, InvalidLeg |-> 422,
     InvalidServiceDate |-> 422, DomainError |-> 400]

\* status_for: the table's entry for the nearest class upwards.
StatusFor[e \in DOMAIN BaseOf] ==
    IF e \in DOMAIN HttpStatus THEN HttpStatus[e] ELSE StatusFor[BaseOf[e]]
=============================================================================
