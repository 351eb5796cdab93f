------------------------------- MODULE Policy -------------------------------
(***************************************************************************)
(* domain/abuse.py: the risk score behind the AbuseScorer port, with its   *)
(* default weights, as a fraction of 240: every signal is saturated at its *)
(* scale (10, 5, 6, 1) and weighted (1, 1.5, 1, 0.5); the weights add up   *)
(* to 4.                                                                   *)
(***************************************************************************)
EXTENDS Integers

Least(a, b) == IF a <= b THEN a ELSE b

\* cancels is the cancel ratio in tenths.
AbuseScore(velocity, passengers, seats, cancels) ==
    6 * Least(10, velocity) + 18 * Least(5, passengers) + 10 * Least(6, seats) + 3 * cancels

\* enforce_anti_tout passes one passenger and no cancellations; threshold in tenths.
AbuseSuspected(velocity, seats, threshold) ==
    10 * AbuseScore(velocity, 1, seats, 0) >= 240 * threshold
=============================================================================
