------------------------------ MODULE TwinFlow ------------------------------
(***************************************************************************)
(* services/digital_twin/flow.py and the ticks of engine.py's              *)
(* run_simulation: one run of a scenario over the network of the twin.     *)
(*                                                                         *)
(* The flows and stocks of a run live in two dicts that only the run has,  *)
(* so that a run has no concurrency; but a tick visits the nodes in the    *)
(* order a SELECT without ORDER BY returned them, and a node that falls    *)
(* idle changes flows that other nodes were or will be computed from.      *)
(*                                                                         *)
(* Volumes are whole numbers, shares of them percentages, rounded down.    *)
(* risk_multiplier is computed and never read; it, prices, events and      *)
(* utilization are left out.                                               *)
(***************************************************************************)
EXTENDS Integers, Sequences, FiniteSets, FiniteSetsExt, Functions, SequencesExt

CONSTANTS
  Node, Edge,            \* network_nodes, network_edges
  Kind,                  \* Kind[n]: node_type
  Throughput,            \* Throughput[n]: capacity_bpd
  Source, Target,        \* of an edge
  Capacity, NoCapacity,  \* max_capacity_bpd, which is often NULL
  Stocks,                \* what current_inventory_barrels may begin with
  NationalDemand,        \* daily_demand_bpd of the refineries' country
  Scenarios,             \* [routes, refineries, ports, share, days, offline, closed]
  MaxTicks               \* max_ticks

\* The stored scenarios have no negative severity or supply cut, so no share is
\* above 100; nothing checks the config of a request.
ASSUME TwinAssumption ==
  /\ IsFiniteSet(Node) /\ IsFiniteSet(Edge)
  /\ Throughput \in [Node -> Nat] /\ NationalDemand \in Nat /\ MaxTicks \in Nat
  /\ Capacity \in [Edge -> Nat \cup {NoCapacity}]
  /\ \A s \in Scenarios : s.share \in 0..100

VARIABLES
  scenario, hours,  \* effective_config; the hours of a tick
  visits,           \* the nodes in the order of the dict
  tick,             \* the tick in progress or just done, 0 before the run
  next,             \* the index of the next node to visit, 0 between ticks
  flow, enabled,    \* current_flow_bpd and is_active of the edges
  stock, health,    \* current_inventory_barrels and status of the nodes
  shortfall,        \* supply_gap_bpd of the nodes
  worst,            \* the largest supply_gap_bpd of tick_summaries
  reported,         \* max_supply_gap_bpd of aggregate_impacts, -1 before
  raised,           \* a tick has raised an exception
  drained,          \* history: nodes that ended a tick empty and shipping
  again             \* history: nodes that had, and shipped again

runVars  == <<scenario, hours, visits>>
netVars  == <<flow, enabled, stock, health, shortfall>>
twinVars == <<runVars, tick, next, netVars, worst, reported, raised, drained, again>>

NoScenario == [routes |-> {}, refineries |-> {}, ports |-> {},
               share |-> 100, days |-> 0, offline |-> 0, closed |-> 0]

TwinInit ==
  /\ scenario = NoScenario /\ hours = 24 /\ visits = <<>>
  /\ tick = 0 /\ next = 0
  /\ flow = [e \in Edge |-> 0] /\ enabled = [e \in Edge |-> TRUE]
  /\ stock = [n \in Node |-> 0] /\ health = [n \in Node |-> "normal"]
  /\ shortfall = [n \in Node |-> 0]
  /\ worst = 0 /\ reported = -1 /\ raised = FALSE
  /\ drained = {} /\ again = {}

Positive(v) == IF v > 0 THEN v ELSE 0

-----------------------------------------------------------------------------
(* snapshot_to_states                                                      *)

\* A run begins at three quarters of the capacity, which is also what
\* estimate_baseline_flow has stored; an edge without a capacity carries 0.
Baseline(e) == IF Capacity[e] = NoCapacity THEN 0 ELSE (Capacity[e] * 75) \div 100

Refineries == {n \in Node : Kind[n] = "refinery"}

\* The national demand, shared out by the capacity of the refineries.
Demand(n) ==
  LET total == SumFunctionOnSet(Throughput, Refineries)
  IN  IF n \in Refineries /\ total > 0 THEN (NationalDemand * Throughput[n]) \div total ELSE 0

StartRun ==
  /\ tick = 0
  /\ scenario' \in Scenarios
  /\ hours' \in {1, 24, 168}
  /\ visits' \in SetToSeqs(Node)
  /\ tick' = 1
  /\ flow' = [e \in Edge |-> Baseline(e)]
  /\ stock' \in Stocks
  /\ UNCHANGED <<next, enabled, health, shortfall, worst, reported, raised, drained, again>>

-----------------------------------------------------------------------------
(* compute_tick: the edges                                                 *)

AtPort(e) == Source[e] \in scenario.ports /\ tick <= scenario.closed
AtRefinery(e) ==
  {Source[e], Target[e]} \cap scenario.refineries # {} /\ tick <= scenario.offline
OnRoute(e) == e \in scenario.routes /\ tick <= scenario.days
Disrupted(e) == AtPort(e) \/ AtRefinery(e) \/ OnRoute(e)

\* The last match of an edge replaces the ones before.
Multiplier(e) ==
  CASE AtPort(e) -> 10
    [] ~AtPort(e) /\ AtRefinery(e) -> 0
    [] OTHER -> scenario.share

\* Faulty variant: the share of what the edge began with.
ShareOfBaseline(e, percent) == (Baseline(e) * percent) \div 100
Cut(e, percent) == (flow[e] * percent) \div 100

\* _rebalance_flow: what leaves an idle node is 0, and nothing else changes.
Rebalanced(e, volume) == IF health[Source[e]] = "idle" THEN 0 ELSE volume

\* utilization_pct divides by max(max_capacity_bpd, 1), which NULL fails.
DisruptEdges ==
  /\ tick > 0 /\ next = 0 /\ ~raised /\ tick <= MaxTicks
  /\ \A e \in Edge : Disrupted(e) => Capacity[e] # NoCapacity
  /\ flow' = [e \in Edge |->
       Rebalanced(e, IF Disrupted(e) THEN Cut(e, Multiplier(e)) ELSE flow[e])]
  /\ enabled' = [e \in Edge |-> IF Disrupted(e) THEN Multiplier(e) > 0 ELSE enabled[e]]
  /\ next' = 1
  /\ UNCHANGED <<runVars, tick, stock, health, shortfall, worst, reported, raised, drained, again>>

\* Nothing catches the exception within the run: its row stays running.
DisruptUnrated ==
  /\ tick > 0 /\ next = 0 /\ ~raised /\ tick <= MaxTicks
  /\ \E e \in Edge : Disrupted(e) /\ Capacity[e] = NoCapacity
  /\ raised' = TRUE
  /\ UNCHANGED <<runVars, tick, next, netVars, worst, reported, drained, again>>

-----------------------------------------------------------------------------
(* compute_tick: the nodes                                                 *)

Carried(S) == SumFunctionOnSet(flow, {e \in S : enabled[e]})
Leaving(n) == {e \in Edge : Source[e] = n}
Inbound(n) == Carried({e \in Edge : Target[e] = n})
Outbound(n) == Carried(Leaving(n))

\* Only these kinds fall idle.
Stoppable == {"refinery", "power_plant", "storage_facility"}

\* A deficit of more than half, or a fifth, of the demand.
Health(n, missing) ==
  CASE missing * 2 > Demand(n) -> "critical"
    [] missing * 2 <= Demand(n) /\ missing * 5 > Demand(n) -> "elevated"
    [] OTHER -> health[n]

VisitNode ==
  /\ next \in DOMAIN visits
  /\ LET n == visits[next]
         missing == Positive(Demand(n) - Inbound(n))
         left == Positive(stock[n] + ((Inbound(n) - Outbound(n)) * hours) \div 24)
         dry == left = 0 /\ Outbound(n) > 0
         stops == dry /\ Kind[n] \in Stoppable
     IN  /\ stock' = [stock EXCEPT ![n] = left]
         /\ shortfall' = [shortfall EXCEPT ![n] = missing]
         /\ health' = [health EXCEPT ![n] = IF stops THEN "idle" ELSE Health(n, missing)]
         /\ flow' = [e \in Edge |-> IF stops /\ e \in Leaving(n) THEN 0 ELSE flow[e]]
         /\ enabled' = [e \in Edge |-> enabled[e] /\ ~(stops /\ e \in Leaving(n))]
         /\ drained' = IF dry THEN drained \cup {n} ELSE drained
         /\ again' = IF n \in drained /\ Outbound(n) > 0 THEN again \cup {n} ELSE again
  /\ next' = next + 1
  /\ UNCHANGED <<runVars, tick, worst, reported, raised>>

TotalShortfall == SumFunction(shortfall)

\* The tick is persisted and summarised.
EndTick ==
  /\ next > Len(visits) /\ tick > 0
  /\ worst' = Max({worst, TotalShortfall})
  /\ tick' = tick + 1 /\ next' = 0
  /\ UNCHANGED <<runVars, netVars, reported, raised, drained, again>>

\* compute_aggregate_impacts takes both gaps of a run from the last tick.
CompleteRun ==
  /\ tick > MaxTicks /\ next = 0 /\ reported = -1
  /\ reported' = TotalShortfall
  /\ UNCHANGED <<runVars, tick, next, netVars, worst, raised, drained, again>>

TwinNext == StartRun \/ DisruptEdges \/ DisruptUnrated \/ VisitNode \/ EndTick \/ CompleteRun

TwinSpec == TwinInit /\ [][TwinNext]_twinVars
-----------------------------------------------------------------------------
\* max_supply_gap_bpd, which the response sizes the reserve by, is the gap of
\* the last tick.  It is the largest one because no flow of a run ever rises
\* again, whatever ends and in whatever order nodes fall idle.
ReportedGapIsWorst == reported >= 0 => reported = worst

\* A refinery, plant or storage that has run dry ships nothing for the rest of
\* the run.  Its status does not say so: a tick later a deficit has replaced
\* idle by critical, and _rebalance_flow leaves its edges alone.  Other kinds,
\* strategic reserves among them, go on shipping what they do not have.
OnlyUnstoppableShipAgain == \A n \in again : Kind[n] \notin Stoppable
=============================================================================
