------------------------------ MODULE MCBackend ------------------------------
(***************************************************************************)
(* Three parts of backend/shared that share no state: the circuit breaker  *)
(* with three callers, the bulkhead with five, and the orchestrator with   *)
(* plans of three steps.  Interleaving them would add nothing, so a        *)
(* behaviour is one of one part, and the others stay as they began.        *)
(***************************************************************************)
EXTENDS CircuitBreaker, Bulkhead, PlanDispatch

CONSTANTS c1, c2, c3, c4, c5

\* No step, or three, the first two with the same id in half of the plans; s3 is
\* then an id no step has.  In half of them nobody handles the second step.
MCPlans ==
  {<<>>} \cup
  {[i \in 1..3 |-> PlanStep(ids[i], agent[i], deps[i], mode[i])] :
     ids \in {<<"s1", "s2", "s3">>, <<"s1", "s1", "s2">>},
     agent \in {<<"research", "research", "research">>, <<"research", "unknown", "research">>},
     deps \in [1..3 -> {{}, {"s1"}, {"s2"}, {"s1", "s2"}, {"s3"}}],
     mode \in [1..3 -> {"sequential", "parallel"}]}

VARIABLE part

MCInit ==
  /\ part \in {"breaker", "bulkhead", "dispatch"}
  /\ Init /\ BulkheadInit /\ DispatchInit

MCNext ==
  /\ UNCHANGED part
  /\ \/ part = "breaker" /\ Next /\ UNCHANGED <<bulkheadVars, dispatchVars>>
     \/ part = "bulkhead" /\ BulkheadNext /\ UNCHANGED <<vars, dispatchVars>>
     \/ part = "dispatch" /\ DispatchNext /\ UNCHANGED <<vars, bulkheadVars>>

\* No fair action of a part is enabled where the part begins.
MCSpec ==
  /\ MCInit /\ [][MCNext]_<<part, vars, bulkheadVars, dispatchVars>>
  /\ Fairness /\ BulkheadFairness /\ DispatchFairness
=============================================================================
