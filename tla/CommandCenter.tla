--------------------------- MODULE CommandCenter ---------------------------
(***************************************************************************)
(* services/energy-service: the response to a signal (/command/respond and *)
(* /command/replays/{case}/run in routers/command_center.py), the evidence *)
(* bundle and its approvals (services/evidence.py), and the rows the twin, *)
(* reserve and procurement engines write for them.                         *)
(*                                                                         *)
(* Every statement goes through the asyncpg pool and commits on its own:   *)
(* no transaction spans two of them.  Between two awaits other requests    *)
(* run, and DELETE /runs/{run} may remove the twin run a response is still *)
(* using.  A statement or an engine may fail, or the process be killed,    *)
(* between any two steps.                                                  *)
(*                                                                         *)
(* Rows get fresh uuid4 keys, so a request names the rows it wrote.        *)
(***************************************************************************)
EXTENDS Naturals, Sequences, FiniteSets

CONSTANTS
  Request,        \* HTTP requests, each served once
  LiveSignal,     \* disruption signals of the ingestors
  ReplaySignal,   \* disruption signals a replay can ingest
  Severity,       \* Severity[s]: rank of s among the signals
  MaxFaults,      \* bound: failing statements or engines, and kills
  MaxApprovals    \* bound: rows of decision_approvals per bundle

Signal == LiveSignal \cup ReplaySignal

ASSUME CommandAssumption ==
  /\ IsFiniteSet(Request)
  /\ LiveSignal \cap ReplaySignal = {}
  /\ Severity \in [Signal -> Nat]
  /\ MaxFaults \in Nat /\ MaxApprovals \in Nat \ {0}

CONSTANT NoSignal
ASSUME NoSignalAssumption == NoSignal \notin Signal

VARIABLES
  stored,       \* disruption_signals: the rows there are
  active,       \* those with expires_at > NOW()
  pc,           \* pc[r]: the statement r executes next
  signalOf,     \* signalOf[r]: the signal r responds to
  replaying,    \* requests of /replays/{case}/run
  telemetry,    \* response_telemetry of r
  twin,         \* digital_twin_runs of r
  reserve,      \* spr_release_runs of r; "planned" once its plans are saved
  procurement,  \* procurement_runs of r
  linked,       \* <<table, r>>: simulation_run_uuid still names r's twin run
  bundles,      \* response_evidence_bundles
  approvals,    \* approvals[r]: decision_approvals of r's bundle, in order
  replays,      \* historical_replay_runs
  faults

rows == <<telemetry, twin, reserve, procurement, linked, bundles, approvals, replays>>
vars == <<stored, active, pc, signalOf, replaying, rows, faults>>

Stage == {"match", "simulate", "spr", "plans", "procure", "optimize", "stamp",
          "bundle", "draft", "replay"}
InFlight(r) == pc[r] \in Stage \cup {"ingested"}
Status == {"draft", "reviewed", "approved", "executed", "outcome_recorded"}

Init ==
  /\ stored = {} /\ active = {}
  /\ pc = [r \in Request |-> "idle"]
  /\ signalOf = [r \in Request |-> NoSignal]
  /\ replaying = {}
  /\ telemetry = [r \in Request |-> "none"]
  /\ twin = [r \in Request |-> "none"]
  /\ reserve = [r \in Request |-> "none"]
  /\ procurement = [r \in Request |-> "none"]
  /\ linked = {} /\ bundles = {}
  /\ approvals = [r \in Request |-> <<>>]
  /\ replays = {}
  /\ faults = 0

-----------------------------------------------------------------------------
(* The signals *)

\* An ingestor stores a signal; 72 hours later it expires.
Ingest(s) ==
  /\ s \notin stored
  /\ stored' = stored \cup {s} /\ active' = active \cup {s}
  /\ UNCHANGED <<pc, signalOf, replaying, rows, faults>>

Expire(s) ==
  /\ s \in active
  /\ active' = active \ {s}
  /\ UNCHANGED <<stored, pc, signalOf, replaying, rows, faults>>

\* _pick_auto_signal: an active signal of the highest severity.
AutoTargets == {s \in active : \A t \in active : Severity[t] <= Severity[s]}

-----------------------------------------------------------------------------
(* The response *)

Goto(r, stage) == pc' = [pc EXCEPT ![r] = stage]

\* Stage 0: the signal is found and the telemetry row inserted.
Accept(r, s) ==
  /\ signalOf' = [signalOf EXCEPT ![r] = s]
  /\ telemetry' = [telemetry EXCEPT ![r] = "started"]
  /\ Goto(r, "match")
  /\ UNCHANGED <<stored, active, twin, reserve, procurement, linked, bundles,
                 approvals, replays, faults>>

Respond(r) ==
  /\ pc[r] = "idle"
  /\ \/ \E s \in stored : Accept(r, s)        \* by signal_uuid
     \/ \E s \in AutoTargets : Accept(r, s)   \* auto
  /\ UNCHANGED replaying

\* A replay first ingests the signal of its case, then responds to it by its
\* uuid.  Faulty variant: it responds to what auto would pick.
AutoInstead(r) == AutoTargets
ReplayTargets(r) == {signalOf[r]}

StartReplay(r) ==
  /\ pc[r] = "idle"
  /\ \E s \in ReplaySignal \ stored :
       /\ stored' = stored \cup {s} /\ active' = active \cup {s}
       /\ signalOf' = [signalOf EXCEPT ![r] = s]
  /\ replaying' = replaying \cup {r}
  /\ Goto(r, "ingested")
  /\ UNCHANGED <<rows, faults>>

ReplayRespond(r) ==
  /\ pc[r] = "ingested"
  /\ \E s \in ReplayTargets(r) : Accept(r, s)
  /\ UNCHANGED replaying

\* Stages 1 and 2: a scenario template is matched and the twin run inserted.
StartTwin(r) ==
  /\ pc[r] = "match"
  /\ twin' = [twin EXCEPT ![r] = "running"]
  /\ Goto(r, "simulate")
  /\ UNCHANGED <<stored, active, signalOf, replaying, telemetry, reserve,
                 procurement, linked, bundles, approvals, replays, faults>>

\* The last UPDATE of run_simulation; when the run was deleted after its last
\* tick it changes no row and the response goes on.
FinishTwin(r) ==
  /\ pc[r] = "simulate"
  /\ twin' = [twin EXCEPT ![r] = IF @ = "running" THEN "completed" ELSE @]
  /\ Goto(r, "spr")
  /\ UNCHANGED <<stored, active, signalOf, replaying, telemetry, reserve,
                 procurement, linked, bundles, approvals, replays, faults>>

\* simulation_run_uuid is a foreign key: the row is inserted only while the
\* twin run exists.
TwinExists(r) == twin[r] \in {"running", "completed"}

\* Stage 3: the run, saved as completed, then its plans and recommendations.
SaveReserve(r) ==
  /\ pc[r] = "spr" /\ TwinExists(r)
  /\ reserve' = [reserve EXCEPT ![r] = "saved"]
  /\ linked' = linked \cup {<<"reserve", r>>}
  /\ Goto(r, "plans")
  /\ UNCHANGED <<stored, active, signalOf, replaying, telemetry, twin,
                 procurement, bundles, approvals, replays, faults>>

SavePlans(r) ==
  /\ pc[r] = "plans"
  /\ reserve' = [reserve EXCEPT ![r] = "planned"]
  /\ Goto(r, "procure")
  /\ UNCHANGED <<stored, active, signalOf, replaying, telemetry, twin,
                 procurement, linked, bundles, approvals, replays, faults>>

\* Stage 4.  Faulty variant: the run is never marked completed.
SkipCompletion == "stamp"
AfterStart == "optimize"

StartProcurement(r) ==
  /\ pc[r] = "procure" /\ TwinExists(r)
  /\ procurement' = [procurement EXCEPT ![r] = "active"]
  /\ linked' = linked \cup {<<"procurement", r>>}
  /\ Goto(r, AfterStart)
  /\ UNCHANGED <<stored, active, signalOf, replaying, telemetry, twin, reserve,
                 bundles, approvals, replays, faults>>

\* Faulty variant: the telemetry row is not completed.
SkipStamp == "bundle"
AfterProcurement == "stamp"

FinishProcurement(r) ==
  /\ pc[r] = "optimize"
  /\ procurement' = [procurement EXCEPT ![r] = "completed"]
  /\ Goto(r, AfterProcurement)
  /\ UNCHANGED <<stored, active, signalOf, replaying, telemetry, twin, reserve,
                 linked, bundles, approvals, replays, faults>>

\* The recommendation is stamped in the telemetry row.
Stamp(r) ==
  /\ pc[r] = "stamp"
  /\ telemetry' = [telemetry EXCEPT ![r] = "recommended"]
  /\ Goto(r, "bundle")
  /\ UNCHANGED <<stored, active, signalOf, replaying, twin, reserve, procurement,
                 linked, bundles, approvals, replays, faults>>

\* create_bundle: the bundle, then its first approval.
SaveBundle(r) ==
  /\ pc[r] = "bundle"
  /\ bundles' = bundles \cup {r}
  /\ Goto(r, "draft")
  /\ UNCHANGED <<stored, active, signalOf, replaying, telemetry, twin, reserve,
                 procurement, linked, approvals, replays, faults>>

SaveDraft(r) ==
  /\ pc[r] = "draft"
  /\ approvals' = [approvals EXCEPT ![r] = Append(@, "draft")]
  /\ Goto(r, IF r \in replaying THEN "replay" ELSE "done")
  /\ UNCHANGED <<stored, active, signalOf, replaying, telemetry, twin, reserve,
                 procurement, linked, bundles, replays, faults>>

SaveReplay(r) ==
  /\ pc[r] = "replay"
  /\ replays' = replays \cup {r}
  /\ Goto(r, "done")
  /\ UNCHANGED <<stored, active, signalOf, replaying, telemetry, twin, reserve,
                 procurement, linked, bundles, approvals, faults>>

-----------------------------------------------------------------------------
(* Failures, deletions, approvals *)

\* A statement or an engine raises, no scenario template is seeded, or the
\* process is killed: the request is over and its rows stay.
Fail(r) ==
  /\ InFlight(r) /\ faults < MaxFaults
  /\ faults' = faults + 1
  /\ Goto(r, "failed")
  /\ UNCHANGED <<stored, active, signalOf, replaying, rows>>

\* Where a missing twin run makes a statement fail: the flow states of a tick,
\* the two runs that refer to it.  Faulty variant: the reserve run does not
\* raise.
AllButReserve == {"simulate", "procure"}
NeedTwin == {"simulate", "spr", "procure"}

FailWithoutTwin(r) ==
  /\ pc[r] \in NeedTwin /\ twin[r] = "deleted"
  /\ Goto(r, "failed")
  /\ UNCHANGED <<stored, active, signalOf, replaying, rows, faults>>

\* delete_run, whatever response the run belongs to.  ON DELETE SET NULL.
DeleteTwin(r) ==
  /\ twin[r] \in {"running", "completed"}
  /\ twin' = [twin EXCEPT ![r] = "deleted"]
  /\ linked' = {l \in linked : l[2] # r}
  /\ UNCHANGED <<stored, active, pc, signalOf, replaying, telemetry, reserve,
                 procurement, bundles, approvals, replays, faults>>

\* record_decision_approval accepts these in any order, repeatedly.
OperatorStatus == {"reviewed", "approved", "executed", "outcome_recorded"}

\* A bundle's uuid is known once the response that carries it is sent.
RecordApproval(r) ==
  /\ r \in bundles /\ pc[r] = "done"
  /\ Len(approvals[r]) < MaxApprovals
  /\ \E status \in OperatorStatus :
       approvals' = [approvals EXCEPT ![r] = Append(@, status)]
  /\ UNCHANGED <<stored, active, pc, signalOf, replaying, telemetry, twin,
                 reserve, procurement, linked, bundles, replays, faults>>

Serve(r) ==
  \/ ReplayRespond(r)
  \/ StartTwin(r) \/ FinishTwin(r)
  \/ SaveReserve(r) \/ SavePlans(r)
  \/ StartProcurement(r) \/ FinishProcurement(r)
  \/ Stamp(r) \/ SaveBundle(r) \/ SaveDraft(r) \/ SaveReplay(r)
  \/ FailWithoutTwin(r)

Next ==
  \/ \E s \in LiveSignal : Ingest(s)
  \/ \E s \in Signal : Expire(s)
  \/ \E r \in Request :
       Respond(r) \/ StartReplay(r) \/ Serve(r) \/ Fail(r) \/ DeleteTwin(r) \/ RecordApproval(r)

Spec == Init /\ [][Next]_vars

\* The event loop resumes a request whose statement has returned.
FairSpec == Spec /\ \A r \in Request : WF_vars(Serve(r))

-----------------------------------------------------------------------------
(* Properties *)

\* The tables hold what their columns and CHECK constraints allow.
TypeOK ==
  /\ active \subseteq stored /\ stored \subseteq Signal
  /\ pc \in [Request -> Stage \cup {"idle", "ingested", "done", "failed"}]
  /\ signalOf \in [Request -> Signal \cup {NoSignal}]
  /\ replaying \subseteq Request
  /\ telemetry \in [Request -> {"none", "started", "recommended"}]
  /\ twin \in [Request -> {"none", "running", "completed", "deleted"}]
  /\ reserve \in [Request -> {"none", "saved", "planned"}]
  /\ procurement \in [Request -> {"none", "active", "completed"}]
  /\ linked \subseteq {"reserve", "procurement"} \X Request
  /\ bundles \subseteq Request
  /\ approvals \in [Request -> Seq(Status)]
  /\ replays \subseteq Request
  /\ faults \in Nat

\* A bundle is the end of a whole chain: recommendation stamped, reserve run
\* with its plans, procurement completed, a twin run that had finished.  Its
\* approvals begin with the draft, and a replay is recorded after both.  This
\* holds whatever failed or was deleted at whichever statement.
ChainBehind(r) ==
  /\ telemetry[r] = "recommended"
  /\ reserve[r] = "planned"
  /\ procurement[r] = "completed"
  /\ twin[r] \in {"completed", "deleted"}

RecordsChained ==
  \A r \in Request :
    /\ r \in bundles => ChainBehind(r)
    /\ approvals[r] # <<>> => r \in bundles /\ approvals[r][1] = "draft"
    /\ r \in replays => approvals[r] # <<>>

\* No saved run refers to a twin run that is gone, also when it is deleted
\* while the response that made it is still at work.
LinksResolve == \A l \in linked : twin[l[2]] \in {"running", "completed"}

\* A recorded replay answered the replay signal it ingested, not a live one
\* and not that of another replay, although auto requests and ingestors work
\* on the same table.
ReplaysOwnSignal ==
  \A r \in replays :
    /\ signalOf[r] \in ReplaySignal
    /\ \A q \in replays \ {r} : signalOf[q] # signalOf[r]

\* What is left half done (a telemetry row without recommendation, a twin run
\* "running", a reserve run without plans, a procurement run "active") belongs
\* to a request at work or to one that failed, and requests fail only by a
\* fault or a deletion.
HalfDone(r) ==
  \/ telemetry[r] = "started" \/ twin[r] = "running"
  \/ reserve[r] = "saved" \/ procurement[r] = "active"

AbandonedAccounted ==
  /\ \A r \in Request : HalfDone(r) => InFlight(r) \/ pc[r] = "failed"
  /\ Cardinality({r \in Request : pc[r] = "failed"}) <=
       faults + Cardinality({r \in Request : twin[r] = "deleted"})

\* Every accepted request ends: with an error, or with a bundle on record.
RequestsEnd ==
  \A r \in Request : InFlight(r) ~> (pc[r] = "failed" \/ (pc[r] = "done" /\ r \in bundles))
=============================================================================
