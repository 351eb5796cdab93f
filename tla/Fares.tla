-------------------------------- MODULE Fares --------------------------------
(***************************************************************************)
(* domain/fares.py: the price of a leg as distance times class, scaled by  *)
(* how full the train is.  Money is in cents; kilometres and multipliers   *)
(* have one decimal and are in tenths.  Decimal(str(mult)) keeps seventeen *)
(* digits of the demand multiplier, here it is the exact fraction.         *)
(***************************************************************************)
EXTENDS Integers

CONSTANTS
    Rate,       \* cents per kilometre
    Floor,      \* the demand band, in tenths
    Ceiling

\* demand_multiplier refuses an inverted band.
ASSUME BandAssumption ==
    Rate \in Nat /\ Floor \in Nat /\ Ceiling \in Nat /\ Floor <= Ceiling

\* _round_cents of n / d.
RoundHalfUp(n, d) == (2 * n + d) \div (2 * d)

DistanceFare(km, mult) == RoundHalfUp(Rate * km * mult, 100)

\* Fault: a full train is the cheapest.
DemandTenthsInverted(busy, total) == Ceiling * total - (Ceiling - Floor) * busy

\* demand_multiplier at occupancy busy / total, times ten times total.
DemandTenths(busy, total) == Floor * total + (Ceiling - Floor) * busy

\* dynamic_fare when busy of the trip's total seats are taken; occupancy_over_leg is 0
\* on a trip without seats.
DynamicFare(km, mult, busy, total) ==
    IF total = 0 THEN RoundHalfUp(DistanceFare(km, mult) * Floor, 10)
    ELSE RoundHalfUp(DistanceFare(km, mult) * DemandTenths(busy, total), 10 * total)
=============================================================================
