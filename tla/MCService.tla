------------------------------ MODULE MCService ------------------------------
(***************************************************************************)
(* A small railway for TLC.  Three stations and two services: a daily one  *)
(* that calls everywhere, and a Friday night train that takes passengers   *)
(* on at the middle station but does not let them off, and arrives after   *)
(* midnight.  The clock starts five minutes before midnight of a Thursday. *)
(***************************************************************************)
EXTENDS Service

CONSTANTS p1, k1      \* a passenger, a client reference

LegOver(a, b) == [origin |-> a, dest |-> b]
Clock(h, m) == [plus |-> 0, h |-> h, m |-> m]
NextDay(h, m) == [plus |-> 1, h |-> h, m |-> m]

Railway ==
    [route |-> <<[code |-> "A", km |-> 0], [code |-> "B", km |-> 100],
                 [code |-> "C", km |-> 250]>>,
     layouts |-> [res |-> [type |-> "RESERVED", class |-> "SECOND", rows |-> 1,
                           columns |-> <<1, 1>>],
                  unres |-> [type |-> "UNRESERVED", class |-> "THIRD", rows |-> 1,
                             columns |-> <<1>>]],
     patterns |->
        {[code |-> 1005, days |-> {"THU", "FRI", "SAT"},
          stops |-> {[station |-> "A", depart |-> Clock(6, 0)],
                     [station |-> "B", arrive |-> Clock(7, 0), depart |-> Clock(7, 5)],
                     [station |-> "C", arrive |-> Clock(9, 0)]},
          coaches |-> {[code |-> 1, layout |-> "res"], [code |-> 2, layout |-> "unres"]}],
         [code |-> 1045, days |-> {"FRI"},
          stops |-> {[station |-> "A", depart |-> Clock(22, 30)],
                     [station |-> "B", depart |-> Clock(23, 30)],
                     [station |-> "C", arrive |-> NextDay(1, 30)]},
          coaches |-> {[code |-> 1, layout |-> "res"]}]}]

Multipliers == [SECOND |-> 10, THIRD |-> 7]

Friday == [code |-> 1005, date |-> 1]
Night == [code |-> 1045, date |-> 1]

HoldOf(t, s, l, k) == [trip |-> t, seat |-> s, leg |-> l, who |-> p1, ref |-> k]

\* Overlapping and adjacent journeys on one seat, another train, an
\* unreserved seat, a leg that runs off the route.
Holds ==
    {HoldOf(Friday, 1011, LegOver(0, 2), NoRef), HoldOf(Friday, 1011, LegOver(1, 2), k1),
     HoldOf(Friday, 1011, LegOver(0, 1), NoRef), HoldOf(Night, 1011, LegOver(0, 2), NoRef),
     HoldOf(Friday, 2011, LegOver(0, 2), NoRef), HoldOf(Friday, 1011, LegOver(0, 9), NoRef)}

Sales ==
    {[trip |-> Friday, leg |-> LegOver(0, 2), class |-> "THIRD", who |-> p1, ref |-> NoRef]}

Searches == [from : {"A", "B"}, to : {"B", "C"}, date : 0 .. 2]
=============================================================================
