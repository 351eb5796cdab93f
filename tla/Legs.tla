-------------------------------- MODULE Legs --------------------------------
(***************************************************************************)
(* domain/stations.py: a leg is the half-open interval of station sequence *)
(* numbers [origin, dest) a ticket occupies a seat over.                   *)
(***************************************************************************)
EXTENDS Integers

\* Leg.__post_init__: what the constructor accepts, it raises InvalidLeg on the rest.
IsLeg(l) == l.origin >= 0 /\ l.dest > l.origin

\* The legs whose two ends are among the given stations (sequence numbers).
LegsOver(stations) ==
    {l \in [origin : stations, dest : stations] : IsLeg(l)}

\* Number of station-hops the leg spans.
Length(l) == l.dest - l.origin

\* Half-open intersection: touching end points do not overlap.
Overlaps(l, m) == l.origin < m.dest /\ m.origin < l.dest

\* Leg.contains: seq is the station at which a hop of this leg begins.
Contains(l, seq) == l.origin <= seq /\ seq < l.dest
=============================================================================
