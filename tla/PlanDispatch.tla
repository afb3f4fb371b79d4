---------------------------- MODULE PlanDispatch ----------------------------
(***************************************************************************)
(* backend/shared/orchestration: one query through ExecutionEngine.execute *)
(* (plan, dispatch, reflection, a second dispatch of the expanded plan)    *)
(* and AgentRouter.dispatch with its retries and parallel batches.         *)
(*                                                                         *)
(* The supervisor makes an engine, and so a tracer, for every request.  A  *)
(* step is a position in plan.steps: the planner may give two steps the    *)
(* same step_id, make them depend on each other or on a step that does not *)
(* exist.  Steps of a parallel batch are coroutines of one gather(), which *)
(* enter in the batch's order and end in any.  An attempt that times out   *)
(* is one that fails; answers, confidence and citations are left out.      *)
(***************************************************************************)
EXTENDS Naturals, FiniteSets, Sequences, SequencesExt, FiniteSetsExt

CONSTANTS
  Plans,         \* what the planner's LLM may answer
  Agents,        \* names with a registered handler
  MaxRetries,    \* max_retries of every step
  MaxRounds,     \* max_iterations, 50 in the code
  MaxGaps,       \* bound: gaps named by a reflection
  MaxSteps       \* bound: steps of a plan, expanded by the gaps

VARIABLES
  phase,         \* how far execute() has come
  plan,          \* plan.steps
  pending,       \* steps that no round has taken yet
  batch,         \* steps of this round without an output
  attempt,       \* attempt[i]: attempts of step i begun, 0 outside
  ended,         \* steps of the parallel batch that wait for the others
  completed,     \* ids of the steps with an output
  rounds,        \* iterations of the loop
  outputs,       \* the steps' results, in the order they are appended
  earlier,       \* outputs of the first dispatch, when the second runs
  stack,         \* _id_stack of the tracer
  parent         \* parent[i]: where the tracer hung step i's last node

planVars  == <<phase, plan, earlier>>
loopVars  == <<pending, batch, completed, rounds, outputs>>
traceVars == <<stack, parent>>
dispatchVars == <<planVars, loopVars, attempt, ended, traceVars>>

\* The fallback plan of a planner whose LLM fails or does not answer JSON.
PlanStep(id, agent, deps, mode) == [id |-> id, agent |-> agent, deps |-> deps, mode |-> mode]
Fallback ==
  <<PlanStep("step_1", "research", {}, "sequential"),
    PlanStep("step_2", "research", {"step_1"}, "sequential"),
    PlanStep("step_3", "executive", {"step_2"}, "sequential")>>

Position == 1..MaxSteps

ASSUME DispatchAssumption ==
  /\ \A p \in Plans : p \in Seq(ToSet(p))
  /\ {MaxRetries, MaxRounds, MaxGaps, MaxSteps} \subseteq Nat
  /\ \A p \in Plans \cup {Fallback} : Len(p) + MaxGaps <= MaxSteps

DispatchInit ==
  /\ phase = "idle" /\ plan = <<>> /\ earlier = 0
  /\ pending = {} /\ batch = {} /\ completed = {} /\ rounds = 0 /\ outputs = <<>>
  /\ attempt = [i \in Position |-> 0] /\ ended = {}
  /\ stack = <<>> /\ parent = [i \in Position |-> "none"]

-----------------------------------------------------------------------------
(* ExecutionEngine.execute                                                 *)

\* dispatch() begins with every step of plan p.
Enter(p) ==
  /\ pending' = DOMAIN p /\ batch' = {} /\ completed' = {} /\ rounds' = 0
  /\ stack' = Append(<<"execution">>, "execution")
  /\ UNCHANGED <<attempt, ended, parent>>

\* A query arrives and is planned; the planner's own nodes are popped again.
Ask ==
  /\ phase = "idle"
  /\ phase' = "first"
  /\ \E p \in Plans \cup {Fallback} : plan' = p /\ Enter(p)
  /\ UNCHANGED <<earlier, outputs>>

\* The reflection is content, after the last dispatch whatever it says.
Answer ==
  /\ phase \in {"reflect", "again"}
  /\ phase' = "answered"
  /\ UNCHANGED <<plan, earlier, loopVars, attempt, ended, traceVars>>

\* An LLM error in a reflection is not caught; one in its JSON is.
Crash ==
  /\ phase \in {"reflect", "again"}
  /\ phase' = "failed"
  /\ UNCHANGED <<plan, earlier, loopVars, attempt, ended, traceVars>>

\* _expand_plan: the original steps stay in the plan, and every gap gets a
\* step that depends on all of them.
StepIds(p) == {p[i].id : i \in DOMAIN p}
GapId == <<"reflect_0", "reflect_1", "reflect_2">>
Expanded(p, n) ==
  p \o [k \in 1..n |-> PlanStep(GapId[k], "research", StepIds(p), "sequential")]

Expand ==
  /\ phase = "reflect"
  /\ phase' = "second"
  /\ \E n \in 0..MaxGaps : plan' = Expanded(plan, n) /\ Enter(plan')
  /\ earlier' = Len(outputs)
  /\ UNCHANGED outputs

-----------------------------------------------------------------------------
(* AgentRouter.dispatch                                                    *)

Dispatching == phase \in {"first", "second"}
Sequential(S) == {i \in S : plan[i].mode = "sequential"}
InOrder(S) ==
  CHOOSE s \in [1..Cardinality(S) -> S] : \A m, n \in DOMAIN s : m < n => s[m] < s[n]

\* Steps whose dependencies are complete.  Faulty variant: one suffices.
AnyDependency(i) == plan[i].deps = {} \/ plan[i].deps \cap completed # {}
Unblocked(i) == plan[i].deps \subseteq completed
Ready == {i \in pending : Unblocked(i)}

\* The round finds nothing to run: all steps are done, or blocked for good.
\* Faulty variant: blocked steps are waited for.
AllTaken == pending = {}
NothingReady == Ready = {}

NextRound ==
  /\ Dispatching /\ batch = {}
  /\ rounds < MaxRounds /\ Ready # {}
  /\ rounds' = rounds + 1
  /\ batch' = Ready
  /\ pending' = pending \ Ready
  /\ UNCHANGED <<planVars, completed, outputs, attempt, ended, traceVars>>

\* The popped context is the second push of the execution's node.
Return ==
  /\ Dispatching /\ batch = {}
  /\ rounds = MaxRounds \/ NothingReady
  /\ phase' = IF phase = "first" THEN "reflect" ELSE "again"
  /\ stack' = Front(stack)
  /\ UNCHANGED <<plan, earlier, loopVars, attempt, ended, parent>>

\* Collect the results of the steps S, in order, and their ids.
Collect(S) ==
  /\ outputs' = outputs \o InOrder(S)
  /\ completed' = completed \cup {plan[i].id : i \in S}
  /\ batch' = batch \ S
  /\ UNCHANGED <<planVars, pending, rounds>>

Known(i) == plan[i].agent \in Agents

\* What the tracer does when the steps S enter one after the other: a node
\* under the innermost context each, which becomes a context itself unless
\* the step has no handler.
Opened(S) == InOrder({i \in S : Known(i)})
Traced(S) ==
  /\ stack' = stack \o Opened(S)
  /\ parent' = [i \in Position |->
       IF i \in S THEN Last(stack \o Opened({j \in S : j < i})) ELSE parent[i]]

\* The next sequential step; without a handler it ends at once.
StartSequential ==
  /\ Dispatching /\ Sequential(batch) # {} /\ \A i \in Position : attempt[i] = 0
  /\ LET i == Min(Sequential(batch)) IN
       /\ Traced({i})
       /\ IF Known(i)
          THEN attempt' = [attempt EXCEPT ![i] = 1] /\ UNCHANGED <<planVars, loopVars>>
          ELSE Collect({i}) /\ UNCHANGED attempt
  /\ UNCHANGED ended

\* gather() of the batch's other steps, once.
StartParallel ==
  /\ Dispatching /\ batch # {} /\ Sequential(batch) = {} /\ ended = {}
  /\ \A i \in Position : attempt[i] = 0
  /\ Traced(batch)
  /\ attempt' = [i \in Position |-> IF i \in batch /\ Known(i) THEN 1 ELSE 0]
  /\ ended' = {i \in batch : ~Known(i)}
  /\ UNCHANGED <<planVars, loopVars>>

GatherEnds ==
  /\ Dispatching /\ batch # {} /\ ended = batch
  /\ Collect(batch)
  /\ ended' = {}
  /\ UNCHANGED <<attempt, traceVars>>

-----------------------------------------------------------------------------
(* AgentRouter._execute_step                                               *)

\* pop_context() takes the innermost context, whoever pushed it.  Faulty
\* variant: the step's own node is removed.
Unpopped == stack
Popped == Front(stack)

\* The step returns its result, completed or failed.
Leave(i) ==
  /\ attempt' = [attempt EXCEPT ![i] = 0]
  /\ UNCHANGED parent
  /\ IF plan[i].mode = "sequential"
     THEN Collect({i}) /\ UNCHANGED ended
     ELSE ended' = ended \cup {i} /\ UNCHANGED <<planVars, loopVars>>

ReturnsResult(i) ==
  /\ attempt[i] > 0
  /\ Leave(i)
  /\ stack' = Popped

GiveUp(i) ==
  /\ attempt[i] > MaxRetries
  /\ Leave(i)
  /\ stack' = Popped

TryAgain(i) ==
  /\ attempt[i] \in 1..MaxRetries
  /\ attempt' = [attempt EXCEPT ![i] = @ + 1]
  /\ UNCHANGED <<planVars, loopVars, ended, traceVars>>

Handle(i) == ReturnsResult(i) \/ GiveUp(i) \/ TryAgain(i)
Proceed == Answer \/ Crash \/ Expand \/ NextRound \/ Return \/ StartSequential \/ StartParallel \/ GatherEnds

DispatchNext ==
  \/ Ask \/ Answer \/ Crash \/ Expand
  \/ NextRound \/ Return \/ StartSequential \/ StartParallel \/ GatherEnds
  \/ \E i \in Position : ReturnsResult(i) \/ GiveUp(i) \/ TryAgain(i)

DispatchSpec == DispatchInit /\ [][DispatchNext]_dispatchVars

\* The event loop resumes execute(); wait_for ends every attempt.
DispatchFairness ==
  /\ WF_dispatchVars(Proceed)
  /\ \A i \in Position : WF_dispatchVars(Handle(i))
-----------------------------------------------------------------------------
\* The results of the dispatch that runs or ran last.
Results == SubSeq(outputs, earlier + 1, Len(outputs))

\* Whatever order parallel steps end in, and whether they succeed: no step is
\* dispatched twice or before a step with each id it depends on has a result,
\* and when dispatch() returns, the steps left out are those with a dependency
\* that has none, unless the rounds were used up.
DispatchRunsPlan ==
  /\ IsInjective(Results)
  /\ \A n \in DOMAIN Results : \A id \in plan[Results[n]].deps :
       \E m \in 1..(n - 1) : plan[Results[m]].id = id
  /\ phase \in {"reflect", "again", "answered", "failed"} =>
       \A i \in DOMAIN plan \ ToSet(Results) :
         rounds = MaxRounds \/ plan[i].deps \ {plan[j].id : j \in ToSet(Results)} # {}

\* The tracer's docstring: "proper parent-child nesting".  Its stack of
\* contexts is balanced by steps that push and pop each other's nodes: one
\* context per attempt in progress, so that sequential steps and reflections
\* always hang under the execution.  (Parallel steps do not.)
TraceNests ==
  /\ Dispatching => Len(stack) = 2 + Cardinality({i \in Position : attempt[i] > 0})
  /\ phase \in {"reflect", "again"} => stack = <<"execution">>
  /\ \A i \in DOMAIN plan :
       plan[i].mode = "sequential" => parent[i] \in {"none", "execution"}

\* Every query is answered or fails, whatever plan the LLM returns.
EveryQueryEnds == phase = "first" ~> phase \in {"answered", "failed"}
=============================================================================
