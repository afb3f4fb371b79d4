---------------------------- MODULE ModelRegistry ----------------------------
(***************************************************************************)
(* The life of the versions of one model of the ML platform: training or   *)
(* importing a model file, registering it, moving versions between stages  *)
(* and answering requests with the version in production.                  *)
(*                                                                         *)
(* Training scripts, the tuner and the API are separate processes; every   *)
(* SQL statement commits on its own and any process may fail or be killed  *)
(* between two of them.  A model file is identified by the job that wrote  *)
(* it.  All training scripts pass dataset_version=1, so the file of a      *)
(* model has one place, and imports of a model have another.               *)
(***************************************************************************)
EXTENDS Naturals, FiniteSetsExt

CONSTANTS
  Job,          \* trainings and imports; each makes at most one version
  Score,        \* Score[j]: the metric promote_best compares
  Client,       \* operators that move versions through the API
  None,
  MaxVersion,   \* bound: versions of the model
  MaxRequests,  \* bound: stage requests of the operators
  MaxAsks,      \* bound: predictions asked for
  MaxFaults     \* bound: failures halfway, kills and restarts of the API

Version == 1..MaxVersion

ASSUME RegistryAssumption ==
  /\ Job \cap Client = {} /\ None \notin Job
  /\ Score \in [Job -> Nat]
  /\ MaxVersion \in Nat \ {0}
  /\ MaxRequests \in Nat /\ MaxAsks \in Nat /\ MaxFaults \in Nat

VARIABLES
  stage,     \* ml.model_versions: stage[v], "none" while there is no row
  model,     \* the job whose model version v was registered for
  place,     \* where a job writes its file, "none" before it does
  file,      \* the job whose model is in the file at a place
  pc,        \* next statement of a job or an operator's request
  version,   \* the version it works on
  want,      \* the stage it asks transition() for
  read,      \* the stage of that version when transition() read it
  cache,     \* the API's cached models, by version
  asked,     \* versions chosen by requests that have not loaded them yet
  answer,    \* the version and the model of the last prediction, or None
  savedAt,   \* history: when a job wrote its file, 0 before
  clock,     \* history: number of files written
  alone,     \* history: since its first write, a promotion was the only one
             \* to change what is in production
  requests, asks, faults

rowVars   == <<stage, model>>
actorVars == <<pc, version, want, read>>
apiVars   == <<cache, asked, answer>>
fileVars  == <<place, file, savedAt, clock>>
counters  == <<requests, asks, faults>>
vars == <<rowVars, actorVars, apiVars, fileVars, alone, counters>>

VALID_STAGES == {"development", "validation", "staging", "production", "archived"}

VALID_TRANSITIONS ==
  [development |-> {"validation", "archived"},
   validation  |-> {"staging", "development", "archived"},
   staging     |-> {"production", "validation", "archived"},
   production  |-> {"staging", "archived"},
   archived    |-> {}]

Actor == Job \cup Client
Places == {"v1", "imported"}

Rows == {v \in Version : stage[v] # "none"}
InProduction(s) == {v \in Version : s[v] = "production"}

Init ==
  /\ stage = [v \in Version |-> "none"]
  /\ model = [v \in Version |-> None]
  /\ place = [j \in Job |-> "none"] /\ file = [p \in Places |-> None]
  /\ pc = [a \in Actor |-> IF a \in Job THEN "save" ELSE "idle"]
  /\ version = [a \in Actor |-> 1]
  /\ want = [a \in Actor |-> "none"] /\ read = [a \in Actor |-> "none"]
  /\ cache = [v \in Version |-> None]
  /\ asked = {} /\ answer = None
  /\ savedAt = [j \in Job |-> 0] /\ clock = 0
  /\ alone = [a \in Actor |-> FALSE]
  /\ requests = 0 /\ asks = 0 /\ faults = 0

Goto(a, label) == pc' = [pc EXCEPT ![a] = label]

\* A request of an operator ends, or a job.
Ended(a) == IF a \in Client THEN "idle" ELSE "done"
Finish(a) ==
  /\ Goto(a, Ended(a))
  /\ version' = [version EXCEPT ![a] = 1]
  /\ want' = [want EXCEPT ![a] = "none"] /\ read' = [read EXCEPT ![a] = "none"]

-----------------------------------------------------------------------------
(* ModelTrainer.train and PlatformImporter.import_export                   *)

\* The model file is written first, over the file of earlier jobs.
Save(j, p) ==
  /\ pc[j] = "save"
  /\ place' = [place EXCEPT ![j] = p]
  /\ file' = [file EXCEPT ![p] = j]
  /\ clock' = clock + 1
  /\ savedAt' = [savedAt EXCEPT ![j] = clock + 1]
  /\ Goto(j, "count")
  /\ UNCHANGED <<rowVars, version, want, read, apiVars, alone, counters>>

\* SELECT MAX(version).
NewVersion == Max(Rows \cup {0}) + 1

Count(j) ==
  /\ pc[j] = "count" /\ NewVersion \in Version
  /\ version' = [version EXCEPT ![j] = NewVersion]
  /\ Goto(j, "insert")
  /\ UNCHANGED <<rowVars, fileVars, want, read, apiVars, alone, counters>>

\* The row.  UNIQUE(name, version) rejects it when another job took the
\* number.  A training script ends here or goes on to promote_best; an import
\* goes on to transition() when it was asked for another stage.
Insert(j) ==
  /\ pc[j] = "insert"
  /\ \/ /\ version[j] \notin Rows
        /\ stage' = [stage EXCEPT ![version[j]] = "development"]
        /\ model' = [model EXCEPT ![version[j]] = j]
        /\ \/ Finish(j)
           \/ place[j] = "v1" /\ Goto(j, "rank") /\ UNCHANGED <<version, want, read>>
           \/ /\ place[j] = "imported"
              /\ \E s \in VALID_STAGES \ {"development"} : want' = [want EXCEPT ![j] = s]
              /\ Goto(j, "look")
              /\ UNCHANGED <<version, read>>
     \/ version[j] \in Rows /\ Finish(j) /\ UNCHANGED rowVars
  /\ UNCHANGED <<fileVars, apiVars, alone, counters>>

-----------------------------------------------------------------------------
(* Moving versions between stages                                          *)

\* A write of stages by a; alone is kept by those who still are.
WriteStages(a, s, isAlone) ==
  /\ stage' = s
  /\ alone' = [b \in Actor |-> IF b = a THEN isAlone
                                ELSE alone[b] /\ InProduction(s) = InProduction(stage)]

\* PUT /{uuid}/stage.
Request(c) ==
  /\ pc[c] = "idle" /\ requests < MaxRequests
  /\ \E v \in Rows, s \in VALID_STAGES :
       /\ version' = [version EXCEPT ![c] = v]
       /\ want' = [want EXCEPT ![c] = s]
  /\ Goto(c, "look")
  /\ requests' = requests + 1
  /\ UNCHANGED <<rowVars, fileVars, read, apiVars, alone, asks, faults>>

\* transition() reads the row and checks the table.  Faulty variant: the
\* check is left out.
AnyTransition(from, to) == TRUE
Allowed(from, to) == to \in VALID_TRANSITIONS[from]

Look(a) ==
  /\ pc[a] = "look"
  /\ IF Allowed(stage[version[a]], want[a])
     THEN /\ read' = [read EXCEPT ![a] = stage[version[a]]]
          /\ Goto(a, IF want[a] = "production" THEN "demote" ELSE "set")
          /\ UNCHANGED <<version, want>>
     ELSE Finish(a)
  /\ UNCHANGED <<rowVars, fileVars, apiVars, alone, counters>>

\* The other versions in production go to stage to.  Faulty variant: only
\* older versions do.
OlderMoved(v, to) == [w \in Version |-> IF w < v /\ stage[w] = "production" THEN to ELSE stage[w]]
OthersMoved(v, to) == [w \in Version |-> IF w # v /\ stage[w] = "production" THEN to ELSE stage[w]]

Demote(a) ==
  /\ pc[a] = "demote"
  /\ WriteStages(a, OthersMoved(version[a], "staging"), TRUE)
  /\ Goto(a, "set")
  /\ UNCHANGED <<model, fileVars, version, want, read, apiVars, counters>>

Set(a) ==
  /\ pc[a] = "set"
  /\ WriteStages(a, [stage EXCEPT ![version[a]] = want[a]], FALSE)
  /\ Finish(a)
  /\ UNCHANGED <<model, fileVars, apiVars, counters>>

\* promote_best: the first version with the highest score, whatever its
\* stage, goes to production, then the others are archived.
IsBest(v) ==
  \A w \in Rows :
    \/ Score[model[w]] < Score[model[v]]
    \/ Score[model[w]] = Score[model[v]] /\ v <= w

Rank(j) ==
  /\ pc[j] = "rank"
  /\ \E v \in Rows : IsBest(v) /\ version' = [version EXCEPT ![j] = v]
  /\ Goto(j, "promote")
  /\ UNCHANGED <<rowVars, fileVars, want, read, apiVars, alone, counters>>

Promote(j) ==
  /\ pc[j] = "promote"
  /\ WriteStages(j, [stage EXCEPT ![version[j]] = "production"], TRUE)
  /\ Goto(j, "archive")
  /\ UNCHANGED <<model, fileVars, version, want, read, apiVars, counters>>

Archive(j) ==
  /\ pc[j] = "archive"
  /\ WriteStages(j, OthersMoved(version[j], "archived"), FALSE)
  /\ Finish(j)
  /\ UNCHANGED <<model, fileVars, apiVars, counters>>

\* A statement fails or the process is killed: what was written stays.
Die(a) ==
  /\ pc[a] \notin {"idle", "done"}
  /\ faults < MaxFaults
  /\ faults' = faults + 1
  /\ Finish(a)
  /\ alone' = [alone EXCEPT ![a] = FALSE]
  /\ UNCHANGED <<rowVars, fileVars, apiVars, requests, asks>>

-----------------------------------------------------------------------------
(* ModelPredictor.predict and routers/risk.py                              *)

\* The row of the newest version in production, or of a version asked for.
Found(v) == v \in Rows

Ask(v) ==
  /\ asks < MaxAsks
  /\ \/ v \in InProduction(stage) /\ \A w \in InProduction(stage) : w <= v
     \/ Found(v)
  /\ asked' = asked \cup {v}
  /\ asks' = asks + 1
  /\ UNCHANGED <<rowVars, fileVars, actorVars, cache, answer, alone, requests, faults>>

\* Loading blocks the event loop.  Faulty variant: the cache is keyed by the
\* model's name only.
ByName(v) == 1
CacheKey(v) == v

Loaded(v) == IF cache[CacheKey(v)] = None THEN file[place[model[v]]]
             ELSE cache[CacheKey(v)]

Answer(v) ==
  /\ v \in asked
  /\ cache' = [cache EXCEPT ![CacheKey(v)] = Loaded(v)]
  /\ answer' = [version |-> v, model |-> Loaded(v)]
  /\ asked' = asked \ {v}
  /\ UNCHANGED <<rowVars, fileVars, actorVars, alone, counters>>

\* The requests the API process is serving, imports included.
Served == Client \cup {j \in Job : place[j] = "imported"}

Restart ==
  /\ faults < MaxFaults
  /\ faults' = faults + 1
  /\ cache' = [v \in Version |-> None]
  /\ asked' = {} /\ answer' = None
  /\ pc' = [a \in Actor |-> IF a \in Served THEN Ended(a) ELSE pc[a]]
  /\ version' = [a \in Actor |-> IF a \in Served THEN 1 ELSE version[a]]
  /\ want' = [a \in Actor |-> IF a \in Served THEN "none" ELSE want[a]]
  /\ read' = [a \in Actor |-> IF a \in Served THEN "none" ELSE read[a]]
  /\ alone' = [a \in Actor |-> a \notin Served /\ alone[a]]
  /\ UNCHANGED <<rowVars, fileVars, requests, asks>>

Next ==
  \/ \E j \in Job : (\E p \in Places : Save(j, p)) \/ Count(j) \/ Insert(j) \/ Rank(j) \/ Promote(j) \/ Archive(j)
  \/ \E c \in Client : Request(c)
  \/ \E a \in Actor : Look(a) \/ Demote(a) \/ Set(a) \/ Die(a)
  \/ \E v \in Version : Ask(v) \/ Answer(v)
  \/ Restart

Spec == Init /\ [][Next]_vars
-----------------------------------------------------------------------------
\* Types; a row has the model it was registered for and the model a file; an
\* actor past its SELECT works on a row that exists.
RowsOK ==
  /\ stage \in [Version -> VALID_STAGES \cup {"none"}]
  /\ model \in [Version -> Job \cup {None}]
  /\ \A v \in Version : (stage[v] = "none") <=> (model[v] = None)
  /\ \A v \in Rows : place[model[v]] # "none"

ActorsOK ==
  /\ pc \in [Actor -> {"idle", "save", "count", "insert", "look", "demote", "set",
                       "rank", "promote", "archive", "done"}]
  /\ version \in [Actor -> Version]
  /\ want \in [Actor -> VALID_STAGES \cup {"none"}]
  /\ read \in [Actor -> VALID_STAGES \cup {"none"}]
  /\ alone \in [Actor -> BOOLEAN]
  /\ \A a \in Actor :
       /\ pc[a] \in {"look", "demote", "set", "promote", "archive"} => version[a] \in Rows
       /\ pc[a] \in {"look", "demote", "set"} => want[a] # "none"

FilesOK ==
  /\ place \in [Job -> Places \cup {"none"}]
  /\ file \in [Places -> Job \cup {None}]
  /\ savedAt \in [Job -> Nat] /\ clock \in Nat
  /\ \A j \in Job : place[j] = "none" => pc[j] \in {"save", "done"}

ApiOK ==
  /\ cache \in [Version -> Job \cup {None}] /\ asked \subseteq Rows
  /\ answer \in [version : Rows, model : Job \cup {None}] \cup {None}

TypeOK ==
  /\ RowsOK /\ ActorsOK /\ FilesOK /\ ApiOK
  /\ requests \in Nat /\ asks \in Nat /\ faults \in Nat

\* A promotion that finishes without another actor changing what is in
\* production since its first write leaves its version as the only one there,
\* whichever overlapped or interrupted promotions came before it.
LonePromotionWins ==
  [][\A a \in Actor :
       alone[a] /\ pc[a] \in {"set", "archive"} /\ pc'[a] # pc[a]
       => \/ faults' > faults
          \/ InProduction(stage') = {version[a]}]_vars

\* A version changes stage as VALID_TRANSITIONS says, an archived one never,
\* unless promote_best put it into production or the stage was changed by
\* somebody else after transition() read it.
StagesFollowTable ==
  [][\A v \in Rows :
       \/ stage'[v] = stage[v]
       \/ stage'[v] \in VALID_TRANSITIONS[stage[v]]
       \/ \E j \in Job : pc[j] = "promote" /\ version[j] = v /\ stage'[v] = "production"
       \/ \E a \in Actor : /\ pc[a] = "set" /\ version[a] = v /\ stage'[v] = want[a]
                           /\ read[a] # stage[v]]_vars

\* While promotions run, production becomes empty only when an operator's
\* transition demotes the version there, or the tuner's choice was itself
\* moved away before it archived the rest.
ProductionLost ==
  [][InProduction(stage) # {} /\ InProduction(stage') = {} =>
       \E a \in Actor : \/ pc[a] \in {"demote", "set"} /\ pc'[a] # pc[a]
                        \/ pc[a] = "archive" /\ ~alone[a]]_vars

\* docs/07_ML_PROCESSES.md:199-200: "an old cache entry never gets served
\* after a promotion".  A prediction for a version never comes from a model
\* saved before that version's own.
NeverOlderModel ==
  answer # None =>
    answer.model \in Job /\ savedAt[answer.model] >= savedAt[model[answer.version]]

\* A prediction labelled with the version in production comes from the model
\* registered under it.  docs/14_FOUNDING_ENGINEER_INTERVIEW_PLAYBOOK.md:169-171: retraining is
\* "not an automatic overwrite of a production model".
ServedModelIsVersion ==
  answer # None /\ stage[answer.version] = "production"
    => answer.model = model[answer.version]
=============================================================================
