----------------------------- MODULE MCBookingTx -----------------------------
(***************************************************************************)
(* Small instances of BookingTx for TLC: one route of three or four        *)
(* stations, one or two passengers, and the calls that get in each other's *)
(* way.                                                                    *)
(***************************************************************************)
EXTENDS BookingTxSerial

CONSTANTS p1, p2, k1      \* passengers, a client reference

Leg(a, b) == [origin |-> a, dest |-> b]

\* A call with the fields its operation ignores at a fixed value.
Ask(op) ==
    [op |-> op, trip |-> "t", seat |-> NoSeat, leg |-> Leg(0, 1), class |-> "c",
     who |-> p1, ref |-> NoRef, target |-> 1]

Hold(s, l, p) == [Ask("hold") EXCEPT !.seat = s, !.leg = l, !.who = p]
Sell(l, p) == [Ask("sell") EXCEPT !.leg = l, !.who = p]
About(op, b) == [Ask(op) EXCEPT !.target = b]
WithRef(c, k) == [c EXCEPT !.ref = k]

OneClass == [s \in Seat |-> "c"]
AllStops == [t \in Trip |-> Station]
YoungestFirst == [r \in Req |-> 10 - r]
NoSuspects == {}

\* Two overlapping reserved journeys, and what can be asked about the first booking.
RaceCalls ==
    {Hold(2, Leg(0, 2), p1), Hold(2, Leg(1, 3), p2), About("confirm", 1),
     About("cancel", 1)}

\* The counter and the app at once: sales and a replayed sale against the one
\* unreserved seat, two holds of the reserved one, a cancellation and a reader of
\* the seat map.
CounterCalls ==
    {Sell(Leg(0, 2), p1), WithRef(Sell(Leg(1, 3), p2), k1),
     Hold(2, Leg(0, 2), p1), Hold(2, Leg(1, 3), p2),
     About("cancel", 1), Ask("browse")}

\* Requests that wait for each other: inserts that clash, and two holds that lapse
\* one after the other under a confirmation of the second and another hold.
ProgressCalls ==
    {Hold(1, Leg(0, 1), p1), Hold(1, Leg(1, 3), p2), About("confirm", 2)}

\* Every operation, accepted or refused, one request at a time.
SerialCalls ==
    {Hold(3, Leg(0, 2), p1), Hold(1, Leg(0, 2), p1),
     WithRef(Hold(3, Leg(0, 2), p2), k1),
     Sell(Leg(0, 2), p2), Sell(Leg(1, 3), p1), WithRef(Sell(Leg(1, 3), p2), k1),
     [Ask("browse") EXCEPT !.leg = Leg(0, 9)], WithRef(Ask("verify"), k1)}
        \cup {About(op, 1) : op \in {"confirm", "cancel"}}

\* A hold and the two requests that may race for it.
TerminalCalls == {Hold(1, Leg(0, 2), p1), About("confirm", 1), About("cancel", 1)}

\* One passenger, two seats that do not get in each other's way.
CapCalls == {Hold(1, Leg(0, 1), p1), Hold(1, Leg(1, 3), p1)}

\* Train 1015 of config/timetable.json passes through stations train 1005 calls at.
PassesStationOne == [t \in Trip |-> Station \ {1}]
ThroughCalls == {Hold(1, Leg(0, 1), p1), Hold(1, Leg(0, 2), p1), About("confirm", 1)}

\* A hold that lapses, and the reader whose request retires it.
LapseCalls == {Hold(1, Leg(0, 2), p1), Ask("browse"), About("cancel", 1)}
=============================================================================
