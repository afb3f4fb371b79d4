----------------------------- MODULE MCResponse -----------------------------
(***************************************************************************)
(* The response of the energy service: requests that answer signals and    *)
(* replays, the ticks of the twin run of one, and the release plan the     *)
(* reserve engine computes for it.                                         *)
(*                                                                         *)
(* CommandCenter has two requests, a live signal and two replay signals,   *)
(* the live one more severe than one replay and less than the other.  The  *)
(* ticks and the plan are computed from data that CommandCenter leaves out *)
(* and nobody else has, so a behaviour is one of one of the parts and the  *)
(* others stay as they began.                                              *)
(***************************************************************************)
EXTENDS CommandCenter, SprRelease, TwinFlow, TLC

CONSTANTS r1, r2, live, abqaiq, redSea

MCSeverity == live :> 2 @@ abqaiq :> 1 @@ redSea :> 3

\* Full and half full, empty, without a pump, and one that holds few days.
MCFacility ==
  {[capacity |-> c, inventory |-> i, drawdown |-> d] :
     c \in {1000}, i \in {0, 200, 1000}, d \in {0, 30, 70}}

\* A port fills a tank that feeds a refinery, which a reserve feeds as well
\* and which exports through the port.  One edge has no capacity.
Net ==
  [toTank    |-> <<"port", "tank", 4000>>,
   toPlant   |-> <<"tank", "plant", 4000>>,
   drawdown  |-> <<"spr", "plant", 800>>,
   export    |-> <<"plant", "port", 2000>>,
   unrated   |-> <<"tank", "port", NoCapacity>>]

MCNode == {"port", "tank", "plant", "spr"}
MCEdge == DOMAIN Net
MCKind == [port |-> "port", tank |-> "storage_facility", plant |-> "refinery",
           spr |-> "strategic_petroleum_reserve"]
MCThroughput == [n \in MCNode |-> IF n = "plant" THEN 4000 ELSE 0]
MCSource == [e \in MCEdge |-> Net[e][1]]
MCTarget == [e \in MCEdge |-> Net[e][2]]
MCCapacity == [e \in MCEdge |-> Net[e][3]]
MCStocks ==
  {[n \in MCNode |-> CASE n = "tank" -> t [] n = "spr" -> s [] OTHER -> 0] :
     t \in {0, 5000}, s \in {0, 2000}}
MCScenarios ==
  [routes : {{}, {"toPlant"}, {"toPlant", "export"}, {"unrated"}}, refineries : {{}, {"plant"}},
   ports : {{}, {"port"}}, share : {50}, days : {1, 4}, offline : {1}, closed : {2}]

VARIABLE part

MCInit == part \in {"command", "release", "twin"} /\ Init /\ ReleaseInit /\ TwinInit

MCNext ==
  /\ UNCHANGED part
  /\ \/ part = "command" /\ Next /\ UNCHANGED <<releaseVars, twinVars>>
     \/ part = "release" /\ ReleaseNext /\ UNCHANGED <<vars, twinVars>>
     \/ part = "twin" /\ TwinNext /\ UNCHANGED <<vars, releaseVars>>

\* Nothing is served where CommandCenter begins.
MCSpec ==
  /\ MCInit /\ [][MCNext]_<<part, vars, releaseVars, twinVars>>
  /\ \A r \in Request : WF_vars(Serve(r))
=============================================================================
