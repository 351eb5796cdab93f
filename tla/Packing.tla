------------------------------- MODULE Packing -------------------------------
(***************************************************************************)
(* domain/packing.py over one coach of the counter: choose_seat assigns    *)
(* tickets to hidden seats one sale at a time, predict_standing_seats      *)
(* tells a queue of standing passengers where they can sit down later, and *)
(* min_seats and pack (module Optimizer) compute how few seats the same    *)
(* journeys need.                                                          *)
(***************************************************************************)
EXTENDS Optimizer, Sequences

CONSTANTS
    Seats,      \* how many seats the coach has
    Station,    \* sequence numbers of the route's stations
    MaxGiven    \* bound on the tickets and standing passengers together

ASSUME PackingAssumption == Seats \in Nat /\ Station \subseteq Nat /\ MaxGiven \in Nat

VARIABLES
    given,      \* the tickets, then the queue, each with its seat, in order
    queueing    \* whether the sweep over the standing queue has begun

vars == <<given, queueing>>

Seat == 0 .. Seats - 1
Standing == -1     \* the seat of a passenger who stands the whole way

\* asked is the journey wanted, leg the part of it the seat is taken for.
Given == [seat : Seat \cup {Standing}, leg : LegsOver(Station), asked : LegsOver(Station)]

TypeOK == given \in Seq(Given) /\ queueing \in BOOLEAN

\* The entries that sit on seat s.
On(s) == {i \in DOMAIN given : given[i].seat = s}

-----------------------------------------------------------------------------
(* choose_seat                                                             *)

\* Fault: only a leg that starts inside another one is in its way.
FreeForInside(s, l) ==
    \A i \in On(s) : ~(given[i].leg.origin < l.origin /\ l.origin < given[i].leg.dest)

FreeFor(s, l) == \A i \in On(s) : ~Overlaps(l, given[i].leg)

\* _occupied_span
OccupiedSpan(s) == Fin!MapThenSumSet(LAMBDA i : Length(given[i].leg), On(s))

\* choose_seat: the fullest of the seats free for l, the first of those; at most one.
ChooseSeat(l) ==
    {s \in Seat : /\ FreeFor(s, l)
                  /\ \A u \in Seat : FreeFor(u, l) =>
                        \/ OccupiedSpan(u) < OccupiedSpan(s)
                        \/ OccupiedSpan(u) = OccupiedSpan(s) /\ s <= u}

-----------------------------------------------------------------------------
(* predict_standing_seats                                                  *)

\* Fault: a leg that starts where this one ends is in its way.
BlockingTouching(s, l) ==
    {i \in On(s) : given[i].leg.origin <= l.dest /\ given[i].leg.dest > l.origin}

\* The entries that keep seat s from being free for the whole of l.
Blocking(s, l) ==
    {i \in On(s) : given[i].leg.origin < l.dest /\ given[i].leg.dest > l.origin}

\* _frees_for_remainder: the one station from which seat s is free to the end of l; it
\* is the end of l or beyond when the seat is taken to the end.
FreesFor(s, l) ==
    IF Blocking(s, l) = {} THEN {l.origin}
    ELSE {d \in {given[i].leg.dest : i \in Blocking(s, l)} :
            \A i \in Blocking(s, l) : given[i].leg.dest <= d}

\* Fault: a seat that comes free where the journey ends is offered too.
OpeningsToEnd(l) ==
    UNION {{[seat |-> s, board |-> d] : d \in {e \in FreesFor(s, l) : e <= l.dest}} :
              s \in Seat}

\* SeatOffers before the end of l: a seat and the station it comes free at.
Openings(l) ==
    UNION {{[seat |-> s, board |-> d] : d \in {e \in FreesFor(s, l) : e < l.dest}} :
              s \in Seat}

\* Fault: the first seat that comes free at all.
FirstOffer(l) == {o \in Openings(l) : \A p \in Openings(l) : o.seat <= p.seat}

\* The seat that comes free first, the first of those; none if all are taken to the end.
BestOffer(l) ==
    {o \in Openings(l) :
        \A p \in Openings(l) : o.board < p.board \/ (o.board = p.board /\ o.seat <= p.seat)}

-----------------------------------------------------------------------------
Init == given = <<>> /\ queueing = FALSE

\* A sale that finds a seat.
Assign(l) ==
    /\ ~queueing
    /\ \E s \in ChooseSeat(l) :
        given' = Append(given, [seat |-> s, leg |-> l, asked |-> l])
    /\ UNCHANGED queueing

\* A ticket is cancelled and its seat is free again.
Cancel(i) ==
    /\ ~queueing
    /\ given' = Seqs!RemoveAt(given, i)
    /\ UNCHANGED queueing

\* The sweep's next passenger.
Promote(l) ==
    /\ queueing' = TRUE
    /\ \/ \E o \in BestOffer(l) :
            given' = Append(given, [seat |-> o.seat, asked |-> l,
                                    leg |-> [origin |-> o.board, dest |-> l.dest]])
       \/ /\ BestOffer(l) = {}
          /\ given' = Append(given, [seat |-> Standing, leg |-> l, asked |-> l])

Next ==
    \/ /\ Len(given) < MaxGiven
       /\ \E l \in LegsOver(Station) : Assign(l) \/ Promote(l)
    \/ \E i \in DOMAIN given : Cancel(i)

Spec == Init /\ [][Next]_vars

-----------------------------------------------------------------------------
\* Tickets assigned one at a time, whatever is cancelled in between, and the offers of
\* the sweep on top of them never put two passengers on one seat at once.
SeatedApart ==
    \A i, j \in DOMAIN given :
        i # j /\ given[i].seat = given[j].seat /\ given[i].seat # Standing
            => ~Overlaps(given[i].leg, given[j].leg)

\* predict_standing_seats: nobody stands longer than needed. At every earlier station
\* of the journey than the one a passenger sits down at (any, if they never do), every
\* seat is taken by someone before them for some of the way that is left.
EarliestSeat ==
    \A i \in DOMAIN given :
        LET p == given[i]
            from == IF p.seat = Standing THEN p.asked.dest ELSE p.leg.origin
        IN  \A b \in p.asked.origin .. from - 1, s \in Seat :
                \E j \in DOMAIN given :
                    /\ j < i /\ given[j].seat = s
                    /\ Overlaps(given[j].leg, [origin |-> b, dest |-> p.asked.dest])

\* As long as nobody queues, everyone sits for the whole journey.
SoldAsAsked ==
    ~queueing =>
        \A i \in DOMAIN given :
            given[i].seat # Standing /\ given[i].leg = given[i].asked

\* The inductive invariant.
IInv == TypeOK /\ SeatedApart /\ SoldAsAsked /\ EarliestSeat

\* choose_seat and predict_standing_seats test occupancy each in its own way: they agree
\* on whether a journey can be seated from its start.
SeatTestsAgree ==
    \A l \in LegsOver(Station) :
        ChooseSeat(l) # {} <=> \E s \in Seat : l.origin \in FreesFor(s, l)

\* min_seats is the overlap depth of the legs, and pack seats them apart on that many.
PackIsOptimal ==
    LET legs == [i \in DOMAIN given |-> given[i].asked]
        depths == {Depth(legs, p) : p \in Station}
        packed == Pack(legs)
    IN  /\ MinSeats(legs) \in depths /\ \A d \in depths : d <= MinSeats(legs)
        /\ packed.count = MinSeats(legs)
        /\ \A i \in DOMAIN legs :
            /\ packed.seat[i] < packed.count
            /\ \A j \in DOMAIN legs \ {i} :
                packed.seat[i] = packed.seat[j] => ~Overlaps(legs[i], legs[j])
=============================================================================
