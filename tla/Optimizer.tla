------------------------------ MODULE Optimizer ------------------------------
(***************************************************************************)
(* domain/packing.py, min_seats and pack: how few seats do the given legs  *)
(* need, and which leg goes on which?  The legs are a function; what its   *)
(* domain is (places in a queue, bookings) does not matter.                *)
(***************************************************************************)
EXTENDS Legs, FiniteSets

Fin == INSTANCE FiniteSetsExt
Seqs == INSTANCE SequencesExt

\* Fault: at a shared station the leg that starts is counted first.
EndsLast(e, f) == e[1] < f[1] \/ (e[1] = f[1] /\ e[2] > f[2])

\* The order of the events of min_seats, <<station, change of depth>>: a leg that ends
\* at a station comes before one that starts there.
EndsFirst(e, f) == e[1] < f[1] \/ (e[1] = f[1] /\ e[2] < f[2])

\* The two ends of each leg.
Events(legs) ==
    {<<legs[i].origin, 1, i>> : i \in DOMAIN legs}
        \cup {<<legs[i].dest, -1, i>> : i \in DOMAIN legs}

\* The running depth after event e and those that come with it.
DepthAfter(legs, e) ==
    Fin!MapThenSumSet(LAMBDA f : f[2], {f \in Events(legs) : ~EndsFirst(e, f)})

\* min_seats: the peak of the running depth.
MinSeats(legs) == Fin!Max({0} \cup {DepthAfter(legs, e) : e \in Events(legs)})

\* sorted(legs, key=origin, dest), leaving equal legs as they are.
Before(legs, i, j) ==
    \/ legs[i].origin < legs[j].origin
    \/ legs[i].origin = legs[j].origin /\ legs[i].dest < legs[j].dest
    \/ legs[i] = legs[j] /\ i < j

Sorted(legs) ==
    CHOOSE s \in [1 .. Cardinality(DOMAIN legs) -> DOMAIN legs] :
        \A i, j \in DOMAIN s : i < j => Before(legs, s[i], s[j])

\* heap[0]: the seat that comes free first.
Top(free) == CHOOSE e \in free : \A f \in free : e[1] < f[1] \/ (e[1] = f[1] /\ e[2] <= f[2])

\* One round of pack's loop: the seat freed earliest, if it is free by then, otherwise a
\* new one.  free is the heap of <<station, seat>>.
Place(legs, acc, i) ==
    LET reuse == acc.free # {} /\ Top(acc.free)[1] <= legs[i].origin
        seat == IF reuse THEN Top(acc.free)[2] ELSE acc.count
    IN  [seat |-> [acc.seat EXCEPT ![i] = seat],
         free |-> (IF reuse THEN acc.free \ {Top(acc.free)} ELSE acc.free)
                     \cup {<<legs[i].dest, seat>>},
         count |-> IF reuse THEN acc.count ELSE acc.count + 1]

Nobody(legs) == [seat |-> [i \in DOMAIN legs |-> 0], free |-> {}, count |-> 0]

\* pack
Pack(legs) ==
    Seqs!FoldLeft(LAMBDA acc, i : Place(legs, acc, i), Nobody(legs), Sorted(legs))

\* How many of the legs a passenger at a station would meet.
Depth(legs, p) == Cardinality({i \in DOMAIN legs : Contains(legs[i], p)})
=============================================================================
