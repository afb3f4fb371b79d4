--------------------------- MODULE FeaturePipeline ---------------------------
(***************************************************************************)
(* services/ml-platform/feature_store/pipeline_engine.py: pipelines of     *)
(* features computed step by step, with each step's result cached in the   *)
(* memory of an engine and in files that all engines share.                *)
(*                                                                         *)
(* A run is one execution of run_pipeline by an engine (a process).  The   *)
(* values of a column are a term: what the frame had, or a transform of    *)
(* terms, so that two columns are equal when they must be.  Between a      *)
(* file's opening and the end of its pickle it is Torn.  Steps run in any  *)
(* order that respects depends_on, of which the queue of the code is one.  *)
(* A run awaits nothing between its first step and its last, so an engine  *)
(* has one run at a time.                                                  *)
(***************************************************************************)
EXTENDS Naturals, FiniteSets, Sequences, SequencesExt

CONSTANTS
  Engine,        \* processes with an engine on the same cache directory
  Raw,           \* columns of the input frames
  Frames,        \* contents a column of a frame may have
  Definitions,   \* the forms of the pipeline that are defined in its time
  Capacity,      \* entries of the memory cache, 1000 in the code
  MaxExecutions, \* bound: runs
  MaxKills,      \* bound: kills of an engine and writes that fail
  Torn, Missing, \* an unfinished file; the value of an absent column
  WholeFrame     \* stands for the columns of a step that names none

(* A definition maps the names of its steps to                             *)
(* [fn, inputs (a sequence of columns), deps (a set of names)];            *)
(* a step's output column has its name, as build_pipeline_from_steps says. *)
ASSUME FeatureAssumption ==
  /\ \A d \in Definitions : \A s \in DOMAIN d : d[s].inputs \in Seq(ToSet(d[s].inputs))
  /\ Capacity \in Nat \ {0}

VARIABLES
  definition,    \* the row of ml.feature_pipelines
  memory,        \* memory[e]: <<key, value>> entries, least recent first
  disk,          \* key -> value or Torn, for the files there are
  pipeline,      \* pipeline[e]: the definition the run read, <<>> if none runs
  frame,         \* frame[e]: the working frame, column -> value
  done,          \* done[e]: steps that have been applied
  incremental,   \* incremental[e]: the run may use cached results
  writing,       \* writing[e]: <<step, key, value>> computed and not applied
  open,          \* engines that have that key's file open
  emptied,       \* those of them under which another has emptied the file
  outcome,       \* outcome[e] of the last run
  executions, kills

cacheVars == <<memory, disk>>
runVars   == <<pipeline, frame, done, incremental, writing, open, emptied, outcome>>
featureVars == <<definition, cacheVars, runVars, executions, kills>>

NoRun == <<>>
FeatureInit ==
  /\ definition \in Definitions
  /\ memory = [e \in Engine |-> <<>>] /\ disk = <<>>
  /\ pipeline = [e \in Engine |-> NoRun]
  /\ frame = [e \in Engine |-> <<>>] /\ done = [e \in Engine |-> {}]
  /\ incremental = [e \in Engine |-> TRUE]
  /\ writing = [e \in Engine |-> <<>>] /\ open = {} /\ emptied = {}
  /\ outcome = [e \in Engine |-> "none"]
  /\ executions = 0 /\ kills = 0

-----------------------------------------------------------------------------
(* Definitions and results                                                 *)

\* define_pipeline: the same name and version is written again.
Define ==
  /\ \E d \in Definitions \ {definition} : definition' = d
  /\ UNCHANGED <<cacheVars, runVars, executions, kills>>

Value(e, col) == IF col \in DOMAIN frame[e] THEN frame[e][col] ELSE Missing

\* The transform of a step applied to the columns it names, or to the whole
\* frame when it names none.
Result(e, s) ==
  LET step == pipeline[e][s]
  IN  <<step.fn, IF step.inputs = <<>> THEN <<WholeFrame, frame[e]>>
                 ELSE [n \in DOMAIN step.inputs |-> Value(e, step.inputs[n])]>>

\* get_step_hash, with the step's name.  Faulty variant: the contents of the
\* columns are left out.
NameKey(e, s) ==
  LET step == pipeline[e][s]
  IN  <<s, step.fn, ToSet(step.inputs), step.deps>>
Key(e, s) ==
  LET step == pipeline[e][s]
  IN  <<s, step.fn, {<<col, Value(e, col)>> : col \in ToSet(step.inputs)}, step.deps>>

Running(e) == pipeline[e] # NoRun
Steps(e) == DOMAIN pipeline[e]

\* Steps that depend on each other are refused before anything runs.
Names(d) == DOMAIN d
Acyclic(d) ==
  \E rank \in [Names(d) -> 1..Cardinality(Names(d))] :
    \A s \in Names(d) : \A t \in d[s].deps \cap Names(d) : rank[t] < rank[s]

\* run_pipeline reads the definition and a frame.
Begin(e) ==
  /\ ~Running(e) /\ executions < MaxExecutions
  /\ executions' = executions + 1
  /\ IF Acyclic(definition)
     THEN /\ pipeline' = [pipeline EXCEPT ![e] = definition]
          /\ \E f \in [Raw -> Frames] : frame' = [frame EXCEPT ![e] = f]
          /\ \E b \in BOOLEAN : incremental' = [incremental EXCEPT ![e] = b]
          /\ outcome' = [outcome EXCEPT ![e] = "none"]
     ELSE /\ outcome' = [outcome EXCEPT ![e] = "refused"]
          /\ UNCHANGED <<pipeline, frame, incremental>>
  /\ UNCHANGED <<definition, cacheVars, done, writing, open, emptied, kills>>

NextSteps(e) ==
  {s \in Steps(e) \ done[e] :
     writing[e] = <<>> /\ pipeline[e][s].deps \cap Steps(e) \subseteq done[e]}

\* A dict or a frame f after f[x] = v.
With(f, x, v) == [y \in DOMAIN f \cup {x} |-> IF y = x THEN v ELSE f[y]]

Apply(e, s, v) ==
  /\ frame' = [frame EXCEPT ![e] = With(@, s, v)]
  /\ done' = [done EXCEPT ![e] = @ \cup {s}]

\* The run ends and is recorded; its local variables are gone.
End(e, how) ==
  /\ frame' = [frame EXCEPT ![e] = <<>>] /\ done' = [done EXCEPT ![e] = {}]
  /\ incremental' = [incremental EXCEPT ![e] = TRUE]
  /\ outcome' = [outcome EXCEPT ![e] = how]
  /\ pipeline' = [pipeline EXCEPT ![e] = NoRun]
  /\ writing' = [writing EXCEPT ![e] = <<>>]
  /\ open' = open \ {e} /\ emptied' = emptied \ {e}

-----------------------------------------------------------------------------
(* PipelineCache                                                           *)

InMemory(e, k) == \E n \in DOMAIN memory[e] : memory[e][n][1] = k
MovedToEnd(m, n) == Append(RemoveAt(m, n), m[n])
OnDisk(k) == k \in DOMAIN disk

\* has(): the run may use a result there is.
Has(e, s) == incremental[e] /\ (InMemory(e, Key(e, s)) \/ OnDisk(Key(e, s)))

\* A result in memory becomes the most recent.
HitMemory(e, s) ==
  /\ Has(e, s)
  /\ \E n \in DOMAIN memory[e] :
       /\ memory[e][n][1] = Key(e, s)
       /\ memory' = [memory EXCEPT ![e] = MovedToEnd(@, n)]
       /\ Apply(e, s, memory[e][n][2])
  /\ UNCHANGED <<definition, disk, pipeline, incremental, writing, open, emptied, outcome, executions, kills>>

\* A file is loaded into memory, above the capacity if need be.
HitDisk(e, s) ==
  LET k == Key(e, s)
  IN  /\ Has(e, s) /\ ~InMemory(e, k) /\ disk[k] # Torn
      /\ memory' = [memory EXCEPT ![e] = Append(@, <<k, disk[k]>>)]
      /\ Apply(e, s, disk[k])
      /\ UNCHANGED <<definition, disk, pipeline, incremental, writing, open, emptied, outcome, executions, kills>>

\* pickle.load of an unfinished file raises, in every later run with its key.
HitTorn(e, s) ==
  /\ Has(e, s) /\ ~InMemory(e, Key(e, s)) /\ disk[Key(e, s)] = Torn
  /\ End(e, "failed")
  /\ UNCHANGED <<definition, cacheVars, executions, kills>>

Inputs(e, s) == {Value(e, col) : col \in ToSet(pipeline[e][s].inputs)}

\* The transform runs; set() makes room for the result and keeps it.
Miss(e, s) ==
  /\ ~Has(e, s) /\ Missing \notin Inputs(e, s)
  /\ LET k == Key(e, s)
         x == <<k, Result(e, s)>>
         room == IF Len(memory[e]) < Capacity THEN memory[e]
                 ELSE SubSeq(memory[e], Len(memory[e]) - Capacity + 2, Len(memory[e]))
     IN  /\ memory' = [memory EXCEPT ![e] =
              IF \E n \in DOMAIN room : room[n][1] = k
              THEN [n \in DOMAIN room |-> IF room[n][1] = k THEN x ELSE room[n]]
              ELSE Append(room, x)]
         /\ writing' = [writing EXCEPT ![e] = <<s, k, Result(e, s)>>]
  /\ UNCHANGED <<definition, disk, pipeline, frame, done, incremental, open, emptied, outcome, executions, kills>>

\* A transform raises, as it does when a column is missing.
StepFails(e, s) ==
  /\ ~Has(e, s)
  /\ End(e, "failed")
  /\ UNCHANGED <<definition, cacheVars, executions, kills>>

\* open() empties the file, whoever is writing it.
Open(e) ==
  /\ writing[e] # <<>> /\ e \notin open
  /\ open' = open \cup {e}
  /\ emptied' = emptied \cup {o \in open : writing[o][2] = writing[e][2]}
  /\ disk' = With(disk, writing[e][2], Torn)
  /\ UNCHANGED <<definition, memory, pipeline, frame, done, incremental, writing, outcome, executions, kills>>

\* The pickle ends.  A file that was emptied meanwhile is whole only if the
\* one who emptied it has written the same.
Pickled(e) ==
  /\ e \in open
  /\ LET k == writing[e][2]
         v == writing[e][3]
     IN  /\ disk' = [disk EXCEPT ![k] = IF e \in emptied /\ disk[k] # v THEN Torn ELSE v]
         /\ Apply(e, writing[e][1], v)
  /\ writing' = [writing EXCEPT ![e] = <<>>]
  /\ open' = open \ {e} /\ emptied' = emptied \ {e}
  /\ UNCHANGED <<definition, memory, pipeline, incremental, outcome, executions, kills>>

Complete(e) ==
  /\ Running(e) /\ done[e] = Steps(e)
  /\ End(e, "completed")
  /\ UNCHANGED <<definition, cacheVars, executions, kills>>

\* The process is killed and started again: its memory is empty.
Kill(e) ==
  /\ Running(e) /\ kills < MaxKills
  /\ kills' = kills + 1
  /\ memory' = [memory EXCEPT ![e] = <<>>]
  /\ End(e, "killed")
  /\ UNCHANGED <<definition, disk, executions>>

\* The disk is full: the run fails and the file stays as it is.
PickleFails(e) ==
  /\ e \in open /\ kills < MaxKills
  /\ kills' = kills + 1
  /\ End(e, "failed")
  /\ UNCHANGED <<definition, cacheVars, executions>>

FeatureNext ==
  \/ Define
  \/ \E e \in Engine :
       \/ Begin(e) \/ Open(e) \/ Pickled(e) \/ PickleFails(e) \/ Complete(e) \/ Kill(e)
       \/ \E s \in NextSteps(e) :
            HitMemory(e, s) \/ HitDisk(e, s) \/ HitTorn(e, s) \/ Miss(e, s) \/ StepFails(e, s)

FeatureSpec == FeatureInit /\ [][FeatureNext]_featureVars
-----------------------------------------------------------------------------
\* The same transform of the same values in another order.
SameUpToOrder(v, w) == v[1] = w[1] /\ ToSet(v[2]) = ToSet(w[2])

\* get_step_hash: "any change invalidates the cached result".  Every column of
\* a run is what its step makes of the run's own columns, whichever results
\* came from memory or from files, of this engine or another, before or after
\* a kill, an eviction or a redefinition: except that a step that names no
\* columns may get another frame's result, and a step redefined with its
\* columns in another order the result of the order before.  (A column that a
\* step replaces is not there any more to compare with.)
RunsAreFresh ==
  \A e \in Engine : Running(e) =>
    \A s \in done[e] :
      \/ frame[e][s] = Result(e, s)
      \/ pipeline[e][s].inputs = <<>>
      \/ ToSet(pipeline[e][s].inputs) \cap Raw \cap done[e] # {}
      \/ SameUpToOrder(frame[e][s], Result(e, s))
=============================================================================
