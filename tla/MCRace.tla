-------------------------------- MODULE MCRace --------------------------------
(***************************************************************************)
(* Two scenes of BookingTx in one run: four requests that race for one     *)
(* reserved seat, and three at the counter and in the app.  A behaviour    *)
(* keeps to the requests and the calls of its scene.                       *)
(***************************************************************************)
EXTENDS MCBookingTx

VARIABLE scene

RaceAndCounterCalls == RaceCalls \cup CounterCalls

CallOf(r) ==
    {NoCall} \cup
        IF scene = "race" THEN RaceCalls ELSE IF r = 4 THEN {} ELSE CounterCalls

SceneInit == Init /\ scene \in {"race", "counter"}
SceneNext == Next /\ UNCHANGED scene /\ \A r \in Req : req'[r] \in CallOf(r)
SceneSpec == SceneInit /\ [][SceneNext]_<<vars, scene>>
===============================================================================
