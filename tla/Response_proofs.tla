-------------------------- MODULE Response_proofs --------------------------
(***************************************************************************)
(* What is proved of the response of the energy service: of the rows of    *)
(* CommandCenter, for any number of requests, signals, faults, deletions   *)
(* and approvals; of a run of TwinFlow, for any network, scenario and      *)
(* order of the nodes; and of SprRelease, for any facilities in any order. *)
(* The parts share no variable, and each has theorems of its own           *)
(* specification.                                                          *)
(***************************************************************************)
EXTENDS CommandCenter, SprRelease, TwinFlow, FiniteSetTheorems, SequenceTheorems,
        WellFoundedInduction, TLAPS

-----------------------------------------------------------------------------
(* The rows of a response                                                  *)

\* Both ways to a response end in Accept.
LEMMA AcceptedSignal ==
  ASSUME TypeOK, NEW r \in Request, Respond(r) \/ ReplayRespond(r)
  PROVE  /\ pc[r] \in {"idle", "ingested"}
         /\ \E s \in Signal \cup {NoSignal} : Accept(r, s)
         /\ UNCHANGED replaying
<1>1. CASE Respond(r)
  BY <1>1 DEF Respond, AutoTargets, TypeOK
<1>2. CASE ReplayRespond(r)
  BY <1>2 DEF ReplayRespond, ReplayTargets, TypeOK
<1> QED
  BY <1>1, <1>2

\* The tables keep their types.
THEOREM TypeCorrect == Spec => []TypeOK
<1>1. Init => TypeOK
  BY DEF Init, TypeOK
<1>2. TypeOK /\ [Next]_vars => TypeOK'
  <2> SUFFICES ASSUME TypeOK, [Next]_vars PROVE TypeOK'
    OBVIOUS
  <2> USE DEF TypeOK, Stage, Signal, Goto, rows
  <2>1. ASSUME NEW s \in Signal, Ingest(s) \/ Expire(s) PROVE TypeOK'
    BY <2>1 DEF Ingest, Expire
  <2>2. ASSUME NEW r \in Request, Respond(r) \/ ReplayRespond(r) PROVE TypeOK'
    <3>1. PICK s \in Signal \cup {NoSignal} : Accept(r, s)
      BY <2>2, AcceptedSignal
    <3>2. UNCHANGED replaying
      BY <2>2, AcceptedSignal
    <3> QED
      BY <3>1, <3>2 DEF Accept
  <2>3. ASSUME NEW r \in Request, StartReplay(r) PROVE TypeOK'
    BY <2>3 DEF StartReplay
  <2>4. ASSUME NEW r \in Request, StartTwin(r) \/ FinishTwin(r) \/ DeleteTwin(r)
        PROVE  TypeOK'
    BY <2>4 DEF StartTwin, FinishTwin, DeleteTwin
  <2>5. ASSUME NEW r \in Request, SaveReserve(r) \/ StartProcurement(r)
        PROVE  TypeOK'
    <3>1. \A table \in {"reserve", "procurement"} :
            linked \cup {<<table, r>>} \subseteq {"reserve", "procurement"} \X Request
      OBVIOUS
    <3>2. CASE SaveReserve(r)
      BY <3>1, <3>2 DEF SaveReserve
    <3>3. CASE StartProcurement(r)
      BY <3>1, <3>3 DEF StartProcurement, AfterStart
    <3> QED
      BY <2>5, <3>2, <3>3
  <2>6. ASSUME NEW r \in Request, SavePlans(r) \/ FinishProcurement(r)
        PROVE  TypeOK'
    BY <2>6 DEF SavePlans, FinishProcurement, AfterProcurement
  <2>7. ASSUME NEW r \in Request, Stamp(r) \/ SaveBundle(r) \/ SaveReplay(r)
        PROVE  TypeOK'
    BY <2>7 DEF Stamp, SaveBundle, SaveReplay
  <2>11. ASSUME NEW r \in Request, Fail(r)
        PROVE  TypeOK'
    BY <2>11 DEF Fail
  <2>12. ASSUME NEW r \in Request, FailWithoutTwin(r)
        PROVE  TypeOK'
    BY <2>12 DEF FailWithoutTwin
  <2>8. ASSUME NEW r \in Request, SaveDraft(r) PROVE TypeOK'
    BY <2>8 DEF SaveDraft, Status
  <2>9. ASSUME NEW r \in Request, RecordApproval(r) PROVE TypeOK'
    BY <2>9 DEF RecordApproval, OperatorStatus, Status
  <2>10. CASE UNCHANGED vars
    BY <2>10 DEF vars
  <2> QED
    BY <2>1, <2>2, <2>3, <2>4, <2>5, <2>6, <2>7, <2>8, <2>9, <2>10, <2>11, <2>12 DEF Next, Serve
<1> QED
  BY <1>1, <1>2, PTL DEF Spec

-----------------------------------------------------------------------------
\* What the next statement of a request says of the rows before it, and what
\* a row says of the statements that are behind its request.
AtStage(r) ==
  /\ pc[r] = "simulate" => twin[r] # "none"
  /\ pc[r] \in {"spr", "plans", "procure", "optimize", "stamp", "bundle", "draft",
                "replay", "done"} => twin[r] \in {"completed", "deleted"}
  /\ pc[r] \in {"procure", "optimize", "stamp", "bundle", "draft", "replay", "done"}
       => reserve[r] = "planned"
  /\ pc[r] = "optimize" => procurement[r] = "active"
  /\ pc[r] \in {"stamp", "bundle", "draft", "replay", "done"}
       => procurement[r] = "completed"
  /\ pc[r] \in {"bundle", "draft", "replay", "done"} => telemetry[r] = "recommended"
  /\ pc[r] \in {"draft", "replay", "done"} => r \in bundles
  /\ pc[r] \in {"replay", "done"} => approvals[r] # <<>>

Behind(r) ==
  /\ r \in bundles => pc[r] \in {"draft", "replay", "done", "failed"}
  /\ approvals[r] # <<>> => pc[r] \in {"replay", "done", "failed"}
  /\ r \in replays => pc[r] = "done"

Chained(r) ==
  /\ r \in bundles => ChainBehind(r)
  /\ approvals[r] # <<>> => r \in bundles /\ approvals[r][1] = "draft"
  /\ r \in replays => approvals[r] # <<>>

ChainInv == \A r \in Request : AtStage(r) /\ Behind(r) /\ Chained(r)

LEMMA ChainInductive == TypeOK /\ ChainInv /\ [Next]_vars => ChainInv'
<1> SUFFICES ASSUME TypeOK, ChainInv, [Next]_vars PROVE ChainInv'
  OBVIOUS
<1> USE DEF TypeOK, ChainInv, AtStage, Behind, Chained, ChainBehind, Stage, Goto, rows
<1>1. ASSUME NEW s \in Signal, Ingest(s) \/ Expire(s) PROVE ChainInv'
  BY <1>1 DEF Ingest, Expire
<1>2. ASSUME NEW r \in Request, Respond(r) \/ ReplayRespond(r) PROVE ChainInv'
  <2>1. PICK s \in Signal \cup {NoSignal} : Accept(r, s)
    BY <1>2, AcceptedSignal
  <2>2. pc[r] \in {"idle", "ingested"}
    BY <1>2, AcceptedSignal
  <2> QED
    BY <2>1, <2>2 DEF Accept
<1>3. ASSUME NEW r \in Request, StartReplay(r) PROVE ChainInv'
  BY <1>3 DEF StartReplay
<1>4. ASSUME NEW r \in Request, StartTwin(r) \/ FinishTwin(r) PROVE ChainInv'
  BY <1>4 DEF StartTwin, FinishTwin
<1>5. ASSUME NEW r \in Request, SaveReserve(r) \/ SavePlans(r) PROVE ChainInv'
  BY <1>5 DEF SaveReserve, SavePlans
<1>6. ASSUME NEW r \in Request, StartProcurement(r) \/ FinishProcurement(r)
      PROVE  ChainInv'
  BY <1>6 DEF StartProcurement, FinishProcurement, AfterStart, AfterProcurement
<1>7. ASSUME NEW r \in Request, Stamp(r) \/ SaveBundle(r) \/ SaveReplay(r)
      PROVE  ChainInv'
  BY <1>7 DEF Stamp, SaveBundle, SaveReplay
<1>8. ASSUME NEW r \in Request, SaveDraft(r) PROVE ChainInv'
  <2>1. approvals[r] = <<>>
    BY <1>8 DEF SaveDraft
  <2>2. Append(approvals[r], "draft") # <<>> /\ Append(approvals[r], "draft")[1] = "draft"
    BY <2>1
  <2> QED
    BY <1>8, <2>2 DEF SaveDraft
<1>9. ASSUME NEW r \in Request, RecordApproval(r) PROVE ChainInv'
  <2>1. PICK status \in OperatorStatus :
          approvals' = [approvals EXCEPT ![r] = Append(@, status)]
    BY <1>9 DEF RecordApproval
  <2>2. /\ Append(approvals[r], status) # <<>>
        /\ Append(approvals[r], status)[1] = approvals[r][1]
    <3>1. approvals[r] \in Seq(Status) /\ approvals[r] # <<>>
      BY <1>9 DEF RecordApproval
    <3>2. status \in Status
      BY DEF OperatorStatus, Status
    <3> HIDE DEF TypeOK, ChainInv
    <3>3. Len(approvals[r]) \in Nat \ {0}
      BY <3>1
    <3> QED
      BY <3>1, <3>2, <3>3
  <2> QED
    BY <1>9, <2>1, <2>2 DEF RecordApproval
<1>10. ASSUME NEW r \in Request, Fail(r) \/ FailWithoutTwin(r) \/ DeleteTwin(r)
       PROVE  ChainInv'
  <2>1. CASE Fail(r)
    BY <2>1 DEF Fail, InFlight
  <2>2. CASE FailWithoutTwin(r)
    BY <2>2 DEF FailWithoutTwin, NeedTwin
  <2>3. CASE DeleteTwin(r)
    BY <2>3 DEF DeleteTwin
  <2> QED
    BY <1>10, <2>1, <2>2, <2>3
<1>11. CASE UNCHANGED vars
  BY <1>11 DEF vars
<1> HIDE DEF TypeOK, ChainInv
<1> QED
  BY <1>1, <1>2, <1>3, <1>4, <1>5, <1>6, <1>7, <1>8, <1>9, <1>10, <1>11 DEF Next, Serve, Signal

THEOREM ChainInvariant == Spec => []ChainInv
<1>1. Init => ChainInv
  BY DEF Init, ChainInv, AtStage, Behind, Chained
<1> QED
  BY <1>1, ChainInductive, TypeCorrect, PTL DEF Spec

\* A bundle has a whole chain behind it, its approvals begin with the draft,
\* and a replay record has both.
THEOREM RecordsAlwaysChained == Spec => []RecordsChained
<1>1. ChainInv => RecordsChained
  BY DEF ChainInv, Chained, RecordsChained
<1> QED
  BY <1>1, ChainInvariant, PTL

-----------------------------------------------------------------------------
\* No saved run refers to a deleted twin run.
THEOREM LinksAlwaysResolve == Spec => []LinksResolve
<1>1. Init => LinksResolve
  BY DEF Init, LinksResolve
<1>2. TypeOK /\ LinksResolve /\ [Next]_vars => LinksResolve'
  <2> SUFFICES ASSUME TypeOK, LinksResolve, [Next]_vars PROVE LinksResolve'
    OBVIOUS
  <2> USE DEF LinksResolve, TwinExists, TypeOK
  <2>1. ASSUME NEW r \in Request, StartTwin(r) \/ FinishTwin(r) \/ DeleteTwin(r)
        PROVE  LinksResolve'
    BY <2>1 DEF StartTwin, FinishTwin, DeleteTwin
  <2>2. ASSUME NEW r \in Request, SaveReserve(r) \/ StartProcurement(r)
        PROVE  LinksResolve'
    BY <2>2 DEF SaveReserve, StartProcurement
  <2>3. ASSUME NEW r \in Request, Respond(r) \/ ReplayRespond(r) PROVE LinksResolve'
    BY <2>3, AcceptedSignal DEF Accept
  <2>4. CASE UNCHANGED <<twin, linked>>
    BY <2>4
  <2> QED
    BY <2>1, <2>2, <2>3, <2>4
    DEF Next, Serve, vars, rows, Ingest, Expire, StartReplay, SavePlans,
        FinishProcurement, Stamp, SaveBundle, SaveDraft, SaveReplay, Fail,
        FailWithoutTwin, RecordApproval
<1> QED
  BY <1>1, <1>2, TypeCorrect, PTL DEF Spec

-----------------------------------------------------------------------------
\* The signals of replays: each is ingested by its own replay before anyone
\* responds to it.
SignalInv ==
  /\ \A r \in replaying : signalOf[r] \in ReplaySignal \cap stored
  /\ \A r \in replaying : pc[r] # "idle"
  /\ \A r, q \in replaying : r # q => signalOf[r] # signalOf[q]
  /\ \A r \in Request : pc[r] \in {"ingested", "replay"} => r \in replaying
  /\ replays \subseteq replaying

\* A recorded replay answered its own replay signal.
THEOREM ReplaysAlwaysOwnSignal == Spec => []ReplaysOwnSignal
<1>1. Init => SignalInv
  BY DEF Init, SignalInv
<1>2. TypeOK /\ SignalInv /\ [Next]_vars => SignalInv'
  <2> SUFFICES ASSUME TypeOK, SignalInv, [Next]_vars PROVE SignalInv'
    OBVIOUS
  <2> USE DEF SignalInv, TypeOK, Goto, rows
  <2>1. ASSUME NEW s \in Signal, Ingest(s) \/ Expire(s) PROVE SignalInv'
    BY <2>1 DEF Ingest, Expire
  <2>2. ASSUME NEW r \in Request, Respond(r) PROVE SignalInv'
    <3>1. PICK s : Accept(r, s)
      BY <2>2 DEF Respond
    <3>2. r \notin replaying /\ UNCHANGED replaying
      BY <2>2 DEF Respond
    <3> QED
      BY <3>1, <3>2 DEF Accept
  <2>3. ASSUME NEW r \in Request, StartReplay(r) PROVE SignalInv'
    BY <2>3 DEF StartReplay
  <2>4. ASSUME NEW r \in Request, ReplayRespond(r) PROVE SignalInv'
    BY <2>4 DEF ReplayRespond, ReplayTargets, Accept
  <2>5. ASSUME NEW r \in Request, SaveDraft(r) \/ SaveReplay(r) PROVE SignalInv'
    BY <2>5 DEF SaveDraft, SaveReplay
  <2>6. ASSUME NEW r \in Request,
               StartTwin(r) \/ FinishTwin(r) \/ SaveReserve(r) \/ SavePlans(r)
        PROVE  SignalInv'
    BY <2>6 DEF StartTwin, FinishTwin, SaveReserve, SavePlans
  <2>7. ASSUME NEW r \in Request,
               StartProcurement(r) \/ FinishProcurement(r) \/ Stamp(r) \/ SaveBundle(r)
        PROVE  SignalInv'
    BY <2>7 DEF StartProcurement, FinishProcurement, Stamp, SaveBundle,
                AfterStart, AfterProcurement
  <2>8. ASSUME NEW r \in Request,
               Fail(r) \/ FailWithoutTwin(r) \/ DeleteTwin(r) \/ RecordApproval(r)
        PROVE  SignalInv'
    BY <2>8 DEF Fail, FailWithoutTwin, DeleteTwin, RecordApproval
  <2>9. CASE UNCHANGED vars
    BY <2>9 DEF vars
  <2> HIDE DEF TypeOK, SignalInv
  <2> QED
    BY <2>1, <2>2, <2>3, <2>4, <2>5, <2>6, <2>7, <2>8, <2>9 DEF Next, Serve, Signal
<1>3. SignalInv => ReplaysOwnSignal
  BY DEF SignalInv, ReplaysOwnSignal
<1> QED
  BY <1>1, <1>2, <1>3, TypeCorrect, PTL DEF Spec

-----------------------------------------------------------------------------
\* A request that has not begun has no rows, and one whose response is over
\* has no row left half done (with AtStage).
Untouched(r) ==
  /\ pc[r] \in {"idle", "ingested"} => telemetry[r] = "none"
  /\ pc[r] \in {"idle", "ingested", "match"} => twin[r] = "none"
  /\ pc[r] \in {"idle", "ingested", "match", "simulate", "spr"} => reserve[r] = "none"
  /\ pc[r] \in {"idle", "ingested", "match", "simulate", "spr", "plans", "procure"}
       => procurement[r] = "none"

UntouchedInv == \A r \in Request : Untouched(r)

LEMMA UntouchedInductive == TypeOK /\ UntouchedInv /\ [Next]_vars => UntouchedInv'
<1> SUFFICES ASSUME TypeOK, UntouchedInv, [Next]_vars PROVE UntouchedInv'
  OBVIOUS
<1> USE DEF TypeOK, UntouchedInv, Untouched, Stage, Goto, rows
<1>1. ASSUME NEW s \in Signal, Ingest(s) \/ Expire(s) PROVE UntouchedInv'
  BY <1>1 DEF Ingest, Expire
<1>2. ASSUME NEW r \in Request, Respond(r) \/ ReplayRespond(r) PROVE UntouchedInv'
  BY <1>2, AcceptedSignal DEF Accept
<1>3. ASSUME NEW r \in Request, StartReplay(r) \/ StartTwin(r) \/ FinishTwin(r)
      PROVE  UntouchedInv'
  BY <1>3 DEF StartReplay, StartTwin, FinishTwin
<1>4. ASSUME NEW r \in Request,
             SaveReserve(r) \/ SavePlans(r) \/ StartProcurement(r) \/ FinishProcurement(r)
      PROVE  UntouchedInv'
  BY <1>4 DEF SaveReserve, SavePlans, StartProcurement, FinishProcurement,
              AfterStart, AfterProcurement
<1>5. ASSUME NEW r \in Request,
             Stamp(r) \/ SaveBundle(r) \/ SaveReplay(r) \/ SaveDraft(r) \/ RecordApproval(r)
      PROVE  UntouchedInv'
  BY <1>5 DEF Stamp, SaveBundle, SaveReplay, SaveDraft, RecordApproval
<1>6. ASSUME NEW r \in Request, Fail(r) \/ FailWithoutTwin(r) \/ DeleteTwin(r)
      PROVE  UntouchedInv'
  BY <1>6 DEF Fail, FailWithoutTwin, DeleteTwin
<1>7. CASE UNCHANGED vars
  BY <1>7 DEF vars
<1> HIDE DEF TypeOK, UntouchedInv
<1> QED
  BY <1>1, <1>2, <1>3, <1>4, <1>5, <1>6, <1>7 DEF Next, Serve, Signal

\* The requests that failed without their twin run being deleted.  Every one
\* of them is the fault of a Fail: a deletion only takes requests out of the
\* set, and StartTwin, which alone undoes "deleted", is not for failed ones.
Failed == {r \in Request : pc[r] = "failed"}
Deleted == {r \in Request : twin[r] = "deleted"}
FaultsCover == Cardinality(Failed \ Deleted) <= faults

\* Every step but Fail adds no such request, and Fail adds one.
LEMMA FailuresGrow ==
  ASSUME TypeOK, [Next]_vars
  PROVE  \/ (Failed \ Deleted)' \subseteq Failed \ Deleted /\ faults' = faults
         \/ \E r \in Request : /\ (Failed \ Deleted)' \subseteq (Failed \ Deleted) \cup {r}
                               /\ faults' = faults + 1
<1> DEFINE Kept == (Failed \ Deleted)' \subseteq Failed \ Deleted /\ faults' = faults
<1> USE DEF Failed, Deleted, TypeOK, Goto, rows
<1>1. ASSUME NEW s \in Signal, Ingest(s) \/ Expire(s) PROVE Kept
  BY <1>1 DEF Ingest, Expire
<1>2. ASSUME NEW r \in Request, Respond(r) \/ ReplayRespond(r) PROVE Kept
  BY <1>2, AcceptedSignal DEF Accept
<1>3. ASSUME NEW r \in Request, StartReplay(r) \/ StartTwin(r) \/ FinishTwin(r)
      PROVE  Kept
  BY <1>3 DEF StartReplay, StartTwin, FinishTwin
<1>4. ASSUME NEW r \in Request,
             SaveReserve(r) \/ SavePlans(r) \/ StartProcurement(r) \/ FinishProcurement(r)
      PROVE  Kept
  BY <1>4 DEF SaveReserve, SavePlans, StartProcurement, FinishProcurement,
              AfterStart, AfterProcurement
<1>5. ASSUME NEW r \in Request,
             Stamp(r) \/ SaveBundle(r) \/ SaveReplay(r) \/ SaveDraft(r) \/ RecordApproval(r)
      PROVE  Kept
  BY <1>5 DEF Stamp, SaveBundle, SaveReplay, SaveDraft, RecordApproval
<1>6. ASSUME NEW r \in Request, FailWithoutTwin(r) \/ DeleteTwin(r)
      PROVE  Kept
  BY <1>6 DEF FailWithoutTwin, DeleteTwin
<1>7. ASSUME NEW r \in Request, Fail(r)
      PROVE  /\ (Failed \ Deleted)' \subseteq (Failed \ Deleted) \cup {r}
             /\ faults' = faults + 1
  BY <1>7 DEF Fail
<1>8. CASE UNCHANGED vars
  BY <1>8 DEF vars
<1> HIDE DEF TypeOK, Kept
<1> QED
  BY <1>1, <1>2, <1>3, <1>4, <1>5, <1>6, <1>7, <1>8 DEF Next, Serve, Signal, Kept

LEMMA FaultsInductive == TypeOK /\ FaultsCover /\ [Next]_vars => FaultsCover'
<1> SUFFICES ASSUME TypeOK, FaultsCover, [Next]_vars PROVE FaultsCover'
  OBVIOUS
<1> DEFINE S == Failed \ Deleted
           T == (Failed \ Deleted)'
<1>1. IsFiniteSet(S) /\ IsFiniteSet(T) /\ S \subseteq Request /\ T \subseteq Request
  BY CommandAssumption, FS_Subset DEF Failed, Deleted
<1>2. Cardinality(S) \in Nat /\ Cardinality(T) \in Nat /\ faults \in Nat
  BY <1>1, FS_CardinalityType DEF TypeOK
<1>3. CASE T \subseteq S /\ faults' = faults
  <2>1. Cardinality(T) <= Cardinality(S)
    BY <1>1, <1>3, FS_Subset
  <2> QED
    BY <1>2, <1>3, <2>1 DEF FaultsCover
<1>4. ASSUME NEW r \in Request, T \subseteq S \cup {r}, faults' = faults + 1
      PROVE  FaultsCover'
  <2>1. /\ IsFiniteSet(S \cup {r})
        /\ Cardinality(S \cup {r}) \in {Cardinality(S), Cardinality(S) + 1}
    BY <1>1, FS_AddElement
  <2>2. Cardinality(T) <= Cardinality(S \cup {r})
    BY <1>4, <2>1, FS_Subset
  <2> QED
    BY <1>2, <1>4, <2>1, <2>2 DEF FaultsCover
<1> QED
  BY <1>3, <1>4, FailuresGrow

\* Whatever is left half done belongs to a request at work or to one that
\* failed, and there are not more of those than faults and deletions.
THEOREM AbandonedAlwaysAccounted == Spec => []AbandonedAccounted
<1>1. Init => UntouchedInv /\ FaultsCover
  <2> SUFFICES ASSUME Init PROVE UntouchedInv /\ FaultsCover
    OBVIOUS
  <2>1. UntouchedInv
    BY DEF Init, UntouchedInv, Untouched
  <2>2. Failed \ Deleted = {}
    BY DEF Init, Failed
  <2>3. faults = 0
    BY DEF Init
  <2> QED
    BY <2>1, <2>2, <2>3, FS_EmptySet DEF FaultsCover
<1>2. TypeOK /\ ChainInv /\ UntouchedInv /\ FaultsCover => AbandonedAccounted
  <2> SUFFICES ASSUME TypeOK, ChainInv, UntouchedInv, FaultsCover
               PROVE  AbandonedAccounted
    OBVIOUS
  <2>1. ASSUME NEW r \in Request, HalfDone(r)
        PROVE  InFlight(r) \/ pc[r] = "failed"
    BY <2>1 DEF HalfDone, InFlight, ChainInv, AtStage, UntouchedInv, Untouched, TypeOK
  <2>2. /\ IsFiniteSet(Failed) /\ IsFiniteSet(Deleted) /\ IsFiniteSet(Failed \ Deleted)
        /\ IsFiniteSet(Failed \cap Deleted)
    BY CommandAssumption, FS_Subset DEF Failed, Deleted
  <2>3. Cardinality(Failed) =
          Cardinality(Failed \ Deleted) + Cardinality(Failed \cap Deleted)
    <3>1. Failed = (Failed \ Deleted) \cup (Failed \cap Deleted)
      OBVIOUS
    <3>2. Cardinality((Failed \ Deleted) \cap (Failed \cap Deleted)) = 0
      <4>1. (Failed \ Deleted) \cap (Failed \cap Deleted) = {}
        OBVIOUS
      <4> QED
        BY <4>1, FS_EmptySet
    <3>3. /\ Cardinality(Failed \ Deleted) \in Nat
          /\ Cardinality(Failed \cap Deleted) \in Nat
      BY <2>2, FS_CardinalityType
    <3>4. Cardinality((Failed \ Deleted) \cup (Failed \cap Deleted)) =
            Cardinality(Failed \ Deleted) + Cardinality(Failed \cap Deleted)
              - Cardinality((Failed \ Deleted) \cap (Failed \cap Deleted))
      BY <2>2, FS_Union
    <3> QED
      BY <3>1, <3>2, <3>3, <3>4
  <2>4. Cardinality(Failed \cap Deleted) <= Cardinality(Deleted)
    BY <2>2, FS_Subset
  <2>5. /\ Cardinality(Failed \ Deleted) \in Nat
        /\ Cardinality(Failed \cap Deleted) \in Nat
        /\ Cardinality(Deleted) \in Nat /\ faults \in Nat
    BY <2>2, FS_CardinalityType DEF TypeOK
  <2>6. Cardinality(Failed) <= faults + Cardinality(Deleted)
    BY <2>3, <2>4, <2>5 DEF FaultsCover
  <2> QED
    BY <2>1, <2>6 DEF AbandonedAccounted, Failed, Deleted
<1> QED
  BY <1>1, <1>2, UntouchedInductive, FaultsInductive, ChainInvariant, TypeCorrect, PTL
  DEF Spec

-----------------------------------------------------------------------------
(* Sums over the elements of a finite set, whatever order CHOOSE takes     *)
(* them in                                                                 *)

\* The recursive function that a sum of f over S is taken from, of all of the
\* subsets of S.
Iterates(it, f, S) ==
  it = [s \in SUBSET S |-> IF s = {} THEN 0
                           ELSE f[CHOOSE x \in s : TRUE] + it[s \ {CHOOSE x \in s : TRUE}]]

LEMMA SumUnfolds ==
  ASSUME NEW f, NEW S
  PROVE  SumFunctionOnSet(f, S) = (CHOOSE it : Iterates(it, f, S))[S]
BY Zenon DEF SumFunctionOnSet, FoldFunctionOnSet, MapThenFoldSet, Iterates

LEMMA LeastOf ==
  ASSUME NEW T, T \subseteq Nat, T # {}
  PROVE  \E x \in T : \A y \in T : x <= y
<1>1. IsWellFoundedOn(OpToRel(<, Nat), Nat)
  BY NatLessThanWellFounded, Zenon
<1>2. PICK x \in T : \A y \in T : ~(<<y, x>> \in OpToRel(<, Nat))
  BY <1>1, WFMin, Zenon
<1>3. \A y \in T : ~(y < x)
  BY <1>2 DEF OpToRel
<1> QED
  BY <1>3

\* Induction over the subsets of a finite set: G has S if it has {} and, with
\* T less an element, T.
LEMMA OverSubsets ==
  ASSUME NEW S, IsFiniteSet(S), NEW G, {} \in G,
         \A T \in SUBSET S : T # {} /\ (\A x \in T : T \ {x} \in G) => T \in G
  PROVE  S \in G
<1> DEFINE Fails(n) == \E T \in SUBSET S : Cardinality(T) = n /\ T \notin G
           Bad == {n \in Nat : Fails(n)}
<1>1. \A T \in SUBSET S : IsFiniteSet(T) /\ Cardinality(T) \in Nat
  BY FS_Subset, FS_CardinalityType
<1>2. SUFFICES ASSUME Bad # {}
               PROVE  FALSE
  BY <1>1
<1>3. PICK n \in Bad : \A k \in Bad : n <= k
  <2> HIDE DEF Bad
  <2>1. Bad \subseteq Nat
    BY DEF Bad
  <2> QED
    BY <1>2, <2>1, LeastOf
<1>4. n \in Nat /\ Fails(n)
  BY <1>3
<1>5. PICK T \in SUBSET S : Cardinality(T) = n /\ T \notin G
  BY <1>4
<1>6. PICK x \in T : T \ {x} \notin G
  BY <1>5
<1>7. T \ {x} \in SUBSET S /\ Cardinality(T \ {x}) = n - 1
  BY <1>1, <1>5, FS_RemoveElement
<1>8. n - 1 \in Nat /\ Fails(n - 1)
  BY <1>1, <1>6, <1>7
<1>9. n - 1 \in Bad
  BY <1>8
<1> HIDE DEF Bad
<1>10. n <= n - 1
  BY <1>3, <1>9
<1> QED
  BY <1>4, <1>10

\* The recursive function of a sum exists: else there is a least cardinality up
\* to which it does not.
LEMMA IterationExists ==
  ASSUME NEW f, NEW S, IsFiniteSet(S)
  PROVE  \E it : Iterates(it, f, S)
<1> DEFINE Upto(n) == {s \in SUBSET S : Cardinality(s) <= n}
           Pick(s) == CHOOSE x \in s : TRUE
           Part(it, n) == it = [s \in Upto(n) |-> IF s = {} THEN 0
                                                  ELSE f[Pick(s)] + it[s \ {Pick(s)}]]
           Bad == {n \in Nat : ~(\E it : Part(it, n))}
<1>1. \A s \in SUBSET S : IsFiniteSet(s) /\ Cardinality(s) \in Nat /\ Cardinality(s) <= Cardinality(S)
  BY FS_Subset, FS_CardinalityType
<1>2. \A s \in SUBSET S : s # {} =>
        /\ Pick(s) \in s /\ s \ {Pick(s)} \in SUBSET S
        /\ Cardinality(s \ {Pick(s)}) = Cardinality(s) - 1
  <2> SUFFICES ASSUME NEW s \in SUBSET S, s # {}
               PROVE  /\ Pick(s) \in s /\ s \ {Pick(s)} \in SUBSET S
                      /\ Cardinality(s \ {Pick(s)}) = Cardinality(s) - 1
    OBVIOUS
  <2>1. Pick(s) \in s
    OBVIOUS
  <2> QED
    BY <1>1, <2>1, FS_RemoveElement
<1> HIDE DEF Pick
<1>3. Bad = {}
  <2> SUFFICES ASSUME Bad # {}
               PROVE  FALSE
    OBVIOUS
  <2>1. PICK n \in Bad : \A k \in Bad : n <= k
    <3> HIDE DEF Bad
    <3>1. Bad \subseteq Nat
      BY DEF Bad
    <3> QED
      BY <3>1, LeastOf
  <2>2. n \in Nat /\ ~(\E it : Part(it, n))
    BY <2>1
  <2>3. n # 0
    <3> SUFFICES ASSUME n = 0
                 PROVE  FALSE
      OBVIOUS
    <3> DEFINE it == [s \in Upto(0) |-> 0]
    <3>1. \A s \in Upto(0) : s = {}
      <4> SUFFICES ASSUME NEW s \in SUBSET S, Cardinality(s) <= 0, s # {}
                   PROVE  FALSE
        OBVIOUS
      <4>1. Cardinality(s \ {Pick(s)}) = Cardinality(s) - 1 /\ s \ {Pick(s)} \in SUBSET S
        BY <1>2
      <4>2. Cardinality(s \ {Pick(s)}) \in Nat /\ Cardinality(s) \in Nat
        BY <1>1, <4>1
      <4> QED
        BY <4>1, <4>2
    <3>2. Part(it, 0)
      BY <3>1
    <3> QED
      BY <2>2, <3>2
  <2>4. n - 1 \in Nat /\ n - 1 \notin Bad
    <3> HIDE DEF Bad
    <3>1. n - 1 \in Nat /\ ~(n <= n - 1)
      BY <2>2, <2>3
    <3> QED
      BY <2>1, <3>1
  <2>5. PICK g : Part(g, n - 1)
    BY <2>4
  <2> DEFINE it == [s \in Upto(n) |-> IF s = {} THEN 0 ELSE f[Pick(s)] + g[s \ {Pick(s)}]]
  <2>6. \A s \in Upto(n - 1) : s \in Upto(n)
    BY <1>1, <2>2
  <2>7. \A s \in Upto(n - 1) : it[s] = g[s]
    <3> SUFFICES ASSUME NEW s \in Upto(n - 1)
                 PROVE  it[s] = g[s]
      OBVIOUS
    <3>1. g[s] = IF s = {} THEN 0 ELSE f[Pick(s)] + g[s \ {Pick(s)}]
      BY <2>5
    <3>2. it[s] = IF s = {} THEN 0 ELSE f[Pick(s)] + g[s \ {Pick(s)}]
      BY <2>6
    <3> QED
      BY <3>1, <3>2
  <2>8. \A s \in Upto(n) : s # {} => s \ {Pick(s)} \in Upto(n - 1)
    BY <1>1, <1>2, <2>2
  <2>9. it = [s \in Upto(n) |-> IF s = {} THEN 0 ELSE f[Pick(s)] + it[s \ {Pick(s)}]]
    BY <2>7, <2>8
  <2> QED
    BY <2>2, <2>9
<1>4. Cardinality(S) \in Nat /\ Upto(Cardinality(S)) = SUBSET S
  BY <1>1
<1>5. PICK it : Part(it, Cardinality(S))
  BY <1>3, <1>4
<1>6. it = [s \in SUBSET S |-> IF s = {} THEN 0 ELSE f[Pick(s)] + it[s \ {Pick(s)}]]
  BY <1>4, <1>5
<1> QED
  BY <1>6 DEF Iterates, Pick

\* A sum is what every iteration over a larger set gives.
LEMMA IterationsAgree ==
  ASSUME NEW f, NEW S, IsFiniteSet(S), NEW T \in SUBSET S,
         NEW a, Iterates(a, f, S), NEW b, Iterates(b, f, T)
  PROVE  a[T] = b[T]
<1> DEFINE G == {s \in SUBSET T : a[s] = b[s]}
           Pick(s) == CHOOSE x \in s : TRUE
<1>1. \A s \in SUBSET T : /\ a[s] = IF s = {} THEN 0 ELSE f[Pick(s)] + a[s \ {Pick(s)}]
                          /\ b[s] = IF s = {} THEN 0 ELSE f[Pick(s)] + b[s \ {Pick(s)}]
  BY DEF Iterates
<1>2. \A s \in SUBSET T : s # {} => Pick(s) \in s
  OBVIOUS
<1> HIDE DEF Pick
<1>3. {} \in G
  BY <1>1
<1>4. \A s \in SUBSET T : s # {} /\ (\A x \in s : s \ {x} \in G) => s \in G
  BY <1>1, <1>2
<1>5. IsFiniteSet(T)
  BY FS_Subset
<1> HIDE DEF G
<1>6. T \in G
  BY <1>3, <1>4, <1>5, OverSubsets
<1> QED
  BY <1>6 DEF G

LEMMA SumOfNone ==
  ASSUME NEW f
  PROVE  SumFunctionOnSet(f, {}) = 0
<1>1. PICK it : it = (CHOOSE g : Iterates(g, f, {}))
  OBVIOUS
<1>2. Iterates(it, f, {})
  BY <1>1, IterationExists, FS_EmptySet
<1>3. it[{}] = 0
  BY <1>2 DEF Iterates
<1> QED
  BY <1>1, <1>3, SumUnfolds

\* A sum takes some element first.
LEMMA SumOfSome ==
  ASSUME NEW f, NEW S, IsFiniteSet(S), S # {}
  PROVE  \E x \in S : SumFunctionOnSet(f, S) = f[x] + SumFunctionOnSet(f, S \ {x})
<1> DEFINE x == CHOOSE y \in S : TRUE
           a == CHOOSE g : Iterates(g, f, S)
           b == CHOOSE g : Iterates(g, f, S \ {x})
<1>1. x \in S /\ IsFiniteSet(S \ {x}) /\ S \ {x} \in SUBSET S
  BY FS_Subset
<1>2. Iterates(a, f, S)
  BY IterationExists
<1>3. Iterates(b, f, S \ {x})
  BY <1>1, IterationExists
<1>4. a[S] = f[x] + a[S \ {x}]
  BY <1>2 DEF Iterates
<1>5. SumFunctionOnSet(f, S) = a[S] /\ SumFunctionOnSet(f, S \ {x}) = b[S \ {x}]
  BY SumUnfolds
<1> HIDE DEF a, b, x
<1>6. a[S \ {x}] = b[S \ {x}]
  BY <1>1, <1>2, <1>3, IterationsAgree
<1> QED
  BY <1>1, <1>4, <1>5, <1>6

LEMMA SumIsInt ==
  ASSUME NEW f, NEW S, IsFiniteSet(S), \A x \in S : f[x] \in Int
  PROVE  SumFunctionOnSet(f, S) \in Int
<1> DEFINE G == {T \in SUBSET S : SumFunctionOnSet(f, T) \in Int}
<1>1. {} \in G
  BY SumOfNone
<1>2. ASSUME NEW T \in SUBSET S, T # {}, \A x \in T : T \ {x} \in G
      PROVE  T \in G
  <2>1. IsFiniteSet(T)
    BY FS_Subset
  <2>2. PICK x \in T : SumFunctionOnSet(f, T) = f[x] + SumFunctionOnSet(f, T \ {x})
    BY <1>2, <2>1, SumOfSome
  <2> QED
    BY <1>2, <2>2
<1> HIDE DEF G
<1>3. S \in G
  BY <1>1, <1>2, OverSubsets
<1> QED
  BY <1>3 DEF G

\* The order in which a sum takes the elements does not matter.
LEMMA SumWithout ==
  ASSUME NEW f, NEW S, IsFiniteSet(S), \A x \in S : f[x] \in Int, NEW y \in S
  PROVE  SumFunctionOnSet(f, S) = f[y] + SumFunctionOnSet(f, S \ {y})
<1> DEFINE sum(T) == SumFunctionOnSet(f, T)
           G == {T \in SUBSET S : \A x \in T : sum(T) = f[x] + sum(T \ {x})}
<1>1. {} \in G
  OBVIOUS
<1>2. \A T \in SUBSET S : IsFiniteSet(T) /\ sum(T) \in Int
  <2> SUFFICES ASSUME NEW T \in SUBSET S
               PROVE  IsFiniteSet(T) /\ sum(T) \in Int
    OBVIOUS
  <2>1. IsFiniteSet(T) /\ \A x \in T : f[x] \in Int
    BY FS_Subset
  <2> QED
    BY <2>1, SumIsInt
<1>3. ASSUME NEW T \in SUBSET S, T # {}, \A x \in T : T \ {x} \in G
      PROVE  T \in G
  <2> SUFFICES ASSUME NEW x \in T
               PROVE  sum(T) = f[x] + sum(T \ {x})
    OBVIOUS
  <2>1. PICK z \in T : sum(T) = f[z] + sum(T \ {z})
    BY <1>2, <1>3, SumOfSome
  <2>2. CASE z = x
    BY <2>1, <2>2
  <2>3. CASE z # x
    <3>1. sum(T \ {z}) = f[x] + sum((T \ {z}) \ {x})
      BY <1>3, <2>3
    <3>2. sum(T \ {x}) = f[z] + sum((T \ {x}) \ {z})
      BY <1>3, <2>3
    <3>3. (T \ {z}) \ {x} = (T \ {x}) \ {z}
      OBVIOUS
    <3>4. sum((T \ {x}) \ {z}) \in Int /\ f[x] \in Int /\ f[z] \in Int
      BY <1>2
    <3> DEFINE r == sum((T \ {x}) \ {z})
    <3>5. sum(T) = f[z] + (f[x] + r) /\ sum(T \ {x}) = f[z] + r
      BY <2>1, <3>1, <3>2, <3>3
    <3> HIDE DEF r
    <3> QED
      BY <3>4, <3>5 DEF r
  <2> QED
    BY <2>2, <2>3
<1> HIDE DEF G
<1>4. S \in G
  BY <1>1, <1>3, OverSubsets
<1> QED
  BY <1>4 DEF G

\* Sums are ordered as their terms are.
LEMMA SumMonotone ==
  ASSUME NEW f, NEW g, NEW S, IsFiniteSet(S),
         \A x \in S : f[x] \in Int /\ g[x] \in Int /\ f[x] <= g[x]
  PROVE  SumFunctionOnSet(f, S) <= SumFunctionOnSet(g, S)
<1> DEFINE G == {T \in SUBSET S : SumFunctionOnSet(f, T) <= SumFunctionOnSet(g, T)}
<1>1. {} \in G
  BY SumOfNone
<1>2. ASSUME NEW T \in SUBSET S, T # {}, \A x \in T : T \ {x} \in G
      PROVE  T \in G
  <2>1. IsFiniteSet(T)
    BY FS_Subset
  <2>2. PICK x \in T : TRUE
    BY <1>2
  <2>3. SumFunctionOnSet(f, T) = f[x] + SumFunctionOnSet(f, T \ {x})
    BY <2>1, SumWithout
  <2>4. SumFunctionOnSet(g, T) = g[x] + SumFunctionOnSet(g, T \ {x})
    BY <2>1, SumWithout
  <2>5. SumFunctionOnSet(f, T \ {x}) \in Int /\ SumFunctionOnSet(g, T \ {x}) \in Int
    <3>1. IsFiniteSet(T \ {x})
      BY <2>1, FS_Subset
    <3> QED
      BY <3>1, SumIsInt
  <2>6. SumFunctionOnSet(f, T \ {x}) <= SumFunctionOnSet(g, T \ {x})
    BY <1>2
  <2> DEFINE a == SumFunctionOnSet(f, T \ {x})
             b == SumFunctionOnSet(g, T \ {x})
  <2>7. f[x] + a <= g[x] + b
    <3>1. f[x] \in Int /\ g[x] \in Int /\ f[x] <= g[x]
      OBVIOUS
    <3> HIDE DEF a, b
    <3> QED
      BY <2>5, <2>6, <3>1 DEF a, b
  <2> QED
    BY <2>3, <2>4, <2>7
<1> HIDE DEF G
<1>3. S \in G
  BY <1>1, <1>2, OverSubsets
<1> QED
  BY <1>3 DEF G

\* More terms do not make a sum smaller, and terms that are 0 change nothing.
LEMMA SumOfMore ==
  ASSUME NEW f, NEW S, IsFiniteSet(S), \A x \in S : f[x] \in Nat, NEW R \in SUBSET S
  PROVE  /\ SumFunctionOnSet(f, R) \in Nat
         /\ SumFunctionOnSet(f, R) <= SumFunctionOnSet(f, S)
         /\ (\A x \in S \ R : f[x] = 0) => SumFunctionOnSet(f, R) = SumFunctionOnSet(f, S)
<1> DEFINE zero == \A x \in S \ R : f[x] = 0
           sum(T) == SumFunctionOnSet(f, T)
           G == {T \in SUBSET S : sum(T) \in Nat /\ sum(T \cap R) \in Nat /\ sum(T \cap R) <= sum(T)
                                  /\ (zero => sum(T \cap R) = sum(T))}
<1>1. {} \in G
  BY SumOfNone
<1>2. ASSUME NEW T \in SUBSET S, T # {}, \A x \in T : T \ {x} \in G
      PROVE  T \in G
  <2>1. IsFiniteSet(T) /\ IsFiniteSet(T \cap R) /\ \A x \in T : f[x] \in Int
    BY FS_Subset
  <2>2. PICK x \in T : TRUE
    BY <1>2
  <2>3. sum(T) = f[x] + sum(T \ {x})
    BY <2>1, SumWithout
  <2> DEFINE a == sum(T \ {x})
             b == sum((T \ {x}) \cap R)
  <2>4. a \in Nat /\ b \in Nat /\ b <= a /\ (zero => b = a)
    BY <1>2
  <2>5. f[x] \in Nat
    OBVIOUS
  <2>6. CASE x \in R
    <3>1. sum(T \cap R) = f[x] + sum((T \cap R) \ {x})
      BY <2>1, <2>6, SumWithout
    <3>2. (T \cap R) \ {x} = (T \ {x}) \cap R
      OBVIOUS
    <3>3. sum(T \cap R) = f[x] + b /\ sum(T) = f[x] + a
      BY <2>3, <3>1, <3>2
    <3> HIDE DEF a, b, zero, sum
    <3> QED
      BY <2>4, <2>5, <3>3
  <2>7. CASE x \notin R
    <3>1. T \cap R = (T \ {x}) \cap R
      BY <2>7
    <3>2. sum(T \cap R) = b /\ sum(T) = f[x] + a /\ (zero => f[x] = 0)
      BY <2>3, <2>7, <3>1
    <3> HIDE DEF a, b, zero, sum
    <3> QED
      BY <2>4, <2>5, <3>2
  <2> QED
    BY <2>6, <2>7
<1> HIDE DEF G, zero
<1>3. S \in G
  BY <1>1, <1>2, OverSubsets
<1>4. S \cap R = R
  OBVIOUS
<1> QED
  BY <1>3, <1>4 DEF G, zero

LEMMA SumOfZeros ==
  ASSUME NEW f, NEW S, IsFiniteSet(S), \A x \in S : f[x] = 0
  PROVE  SumFunctionOnSet(f, S) = 0
<1>1. (\A x \in S : f[x] \in Nat) /\ {} \in SUBSET S
  OBVIOUS
<1>2. SumFunctionOnSet(f, {}) = SumFunctionOnSet(f, S)
  BY <1>1, SumOfMore
<1> QED
  BY <1>2, SumOfNone

-----------------------------------------------------------------------------
(* A run of the twin                                                       *)

\* What the variables hold; an edge that is not active carries nothing.
TwinTypes ==
  /\ flow \in [Edge -> Nat] /\ enabled \in [Edge -> BOOLEAN]
  /\ shortfall \in [Node -> Nat]
  /\ visits \in Seq(Node) /\ scenario.share \in 0..100
  /\ tick \in Nat /\ next \in Nat /\ worst \in Nat

InactiveCarryNothing == \A e \in Edge : ~enabled[e] => flow[e] = 0

Missing(n) == Positive(Demand(n) - Inbound(n))

\* No node has less of a gap than it had when it was visited last.
GapsWiden == \A n \in Node : shortfall[n] <= Missing(n)

BeforeRun ==
  tick = 0 =>
    /\ drained = {} /\ next = 0 /\ \A e \in Edge : enabled[e]
    /\ \A n \in Node : shortfall[n] = 0

WorstIsLast ==
  /\ worst <= TotalShortfall
  /\ next = 0 => worst = TotalShortfall
  /\ reported >= 0 => reported = worst /\ tick > MaxTicks /\ next = 0

\* What has run dry and can stop ships nothing.
DryShipNothing ==
  \A n \in drained : Kind[n] \in Stoppable => \A e \in Leaving(n) : flow[e] = 0

FlowInv ==
  /\ TwinTypes /\ InactiveCarryNothing /\ GapsWiden /\ BeforeRun /\ WorstIsLast
  /\ DryShipNothing /\ OnlyUnstoppableShipAgain

LEMMA DemandIsNat ==
  ASSUME NEW n \in Node
  PROVE  Demand(n) \in Nat
<1> DEFINE total == SumFunctionOnSet(Throughput, Refineries)
<1>1. total \in Nat
  <2>1. IsFiniteSet(Node) /\ Refineries \in SUBSET Node /\ \A x \in Node : Throughput[x] \in Nat
    BY TwinAssumption DEF Refineries
  <2> QED
    BY <2>1, SumOfMore
<1>2. NationalDemand * Throughput[n] \in Nat
  BY TwinAssumption
<1> HIDE DEF total
<1>3. total > 0 => (NationalDemand * Throughput[n]) \div total \in Nat
  <2> DEFINE v == NationalDemand * Throughput[n]
  <2> HIDE DEF v
  <2>1. v \in Nat
    BY <1>2 DEF v
  <2>2. total > 0 => v \div total \in Nat
    BY <1>1, <2>1
  <2> QED
    BY <2>2 DEF v
<1> QED
  BY <1>3 DEF Demand, total

\* What edges carry is the sum of their flows, active or not.
LEMMA CarriedIs ==
  ASSUME flow \in [Edge -> Nat], InactiveCarryNothing, NEW S \in SUBSET Edge
  PROVE  Carried(S) \in Nat /\ Carried(S) = SumFunctionOnSet(flow, S)
<1>1. IsFiniteSet(S) /\ \A e \in S : flow[e] \in Nat
  BY TwinAssumption, FS_Subset
<1>2. {e \in S : enabled[e]} \in SUBSET S
      /\ \A e \in S \ {x \in S : enabled[x]} : flow[e] = 0
  BY DEF InactiveCarryNothing
<1> QED
  BY <1>1, <1>2, SumOfMore DEF Carried

LEMMA CarriedFalls ==
  ASSUME flow \in [Edge -> Nat], InactiveCarryNothing,
         flow' \in [Edge -> Nat], InactiveCarryNothing',
         \A e \in Edge : flow'[e] <= flow[e],
         NEW n \in Node
  PROVE  /\ Inbound(n) \in Nat /\ Inbound(n)' \in Nat /\ Inbound(n)' <= Inbound(n)
         /\ Missing(n) \in Nat /\ Missing(n)' \in Nat /\ Missing(n) <= Missing(n)'
<1> DEFINE S == {e \in Edge : Target[e] = n}
<1>1. Inbound(n) \in Nat /\ Inbound(n) = SumFunctionOnSet(flow, S)
  BY CarriedIs DEF Inbound
<1>2. Carried(S)' \in Nat /\ Carried(S)' = SumFunctionOnSet(flow', S)
  <2>1. IsFiniteSet(S) /\ \A e \in S : flow'[e] \in Nat
    BY TwinAssumption, FS_Subset
  <2> DEFINE R == {e \in S : enabled'[e]}
  <2>2. R \in SUBSET S /\ \A e \in S \ R : flow'[e] = 0
    BY DEF InactiveCarryNothing
  <2>3. SumFunctionOnSet(flow', R) \in Nat
        /\ SumFunctionOnSet(flow', R) = SumFunctionOnSet(flow', S)
    BY <2>1, <2>2, SumOfMore
  <2>4. Carried(S)' = SumFunctionOnSet(flow', R)
    BY DEF Carried
  <2> QED
    BY <2>3, <2>4
<1>3. SumFunctionOnSet(flow', S) <= SumFunctionOnSet(flow, S)
  <2>1. IsFiniteSet(S)
    BY TwinAssumption, FS_Subset
  <2>2. \A e \in S : flow'[e] \in Int /\ flow[e] \in Int /\ flow'[e] <= flow[e]
    OBVIOUS
  <2> QED
    BY <2>1, <2>2, SumMonotone
<1>4. Inbound(n)' = Carried(S)'
  BY DEF Inbound
<1>5. Demand(n)' = Demand(n) /\ Demand(n) \in Nat
  BY DemandIsNat DEF Demand, Refineries
<1> QED
  BY <1>1, <1>2, <1>3, <1>4, <1>5 DEF Missing, Positive

\* Flows only fall: gaps do not narrow.
LEMMA GapsStayWide ==
  ASSUME TwinTypes, InactiveCarryNothing, GapsWiden, TwinTypes', InactiveCarryNothing',
         \A e \in Edge : flow'[e] <= flow[e],
         \A n \in Node : shortfall'[n] \in {shortfall[n], Missing(n)}
  PROVE  GapsWiden'
<1> SUFFICES ASSUME NEW n \in Node
             PROVE  shortfall'[n] <= Missing(n)'
  BY DEF GapsWiden
<1>1. Missing(n) \in Nat /\ Missing(n)' \in Nat /\ Missing(n) <= Missing(n)'
  BY CarriedFalls DEF TwinTypes
<1>2. shortfall[n] <= Missing(n) /\ shortfall[n] \in Nat
  BY DEF GapsWiden, TwinTypes
<1> QED
  BY <1>1, <1>2

LEMMA ShortfallIsNat ==
  ASSUME TwinTypes
  PROVE  TotalShortfall \in Nat
<1>1. IsFiniteSet(Node) /\ (\A n \in Node : shortfall[n] \in Nat) /\ DOMAIN shortfall = Node
      /\ Node \in SUBSET Node
  BY TwinAssumption DEF TwinTypes
<1> QED
  BY <1>1, SumOfMore DEF TotalShortfall, SumFunction

LEMMA InitTwin == TwinInit => FlowInv
<1> SUFFICES ASSUME TwinInit
             PROVE  FlowInv
  OBVIOUS
<1> USE DEF TwinInit
<1>1. TwinTypes
  BY DEF TwinTypes, NoScenario
<1>2. TotalShortfall = 0
  <2>1. IsFiniteSet(Node) /\ (\A n \in Node : shortfall[n] = 0) /\ DOMAIN shortfall = Node
    BY TwinAssumption
  <2> QED
    BY <2>1, SumOfZeros DEF TotalShortfall, SumFunction
<1>3. InactiveCarryNothing
  BY DEF InactiveCarryNothing
<1>4. GapsWiden
  <2> SUFFICES ASSUME NEW n \in Node
               PROVE  shortfall[n] <= Missing(n)
    BY DEF GapsWiden
  <2>1. Inbound(n) \in Nat
    BY <1>1, <1>3, CarriedIs DEF Inbound, TwinTypes
  <2>2. Missing(n) \in Nat
    BY <2>1, DemandIsNat DEF Missing, Positive
  <2> QED
    BY <2>2
<1> QED
  BY <1>1, <1>2, <1>3, <1>4 DEF FlowInv, BeforeRun, WorstIsLast, DryShipNothing,
     OnlyUnstoppableShipAgain

LEMMA BaselineIsNat ==
  ASSUME NEW e \in Edge
  PROVE  Baseline(e) \in Nat
<1>1. Capacity[e] # NoCapacity => Capacity[e] \in Nat
  BY TwinAssumption
<1>2. \A c \in Nat : (c * 75) \div 100 \in Nat
  OBVIOUS
<1> QED
  BY <1>1, <1>2 DEF Baseline

LEMMA StartRunKeeps == FlowInv /\ StartRun => FlowInv'
<1> SUFFICES ASSUME FlowInv, StartRun
             PROVE  FlowInv'
  OBVIOUS
<1> USE DEF FlowInv
<1>1. /\ tick = 0 /\ tick' = 1 /\ scenario' \in Scenarios /\ visits' \in SetToSeqs(Node)
      /\ flow' = [e \in Edge |-> Baseline(e)]
      /\ UNCHANGED <<next, enabled, shortfall, worst, reported, drained, again>>
  BY DEF StartRun
<1>2. visits' \in Seq(Node)
  <2>1. Cardinality(Node) \in Nat
    BY TwinAssumption, FS_CardinalityType
  <2>2. visits' \in [1..Cardinality(Node) -> Node]
    BY <1>1 DEF SetToSeqs
  <2> QED
    BY <2>1, <2>2, SeqDef
<1>3. flow' \in [Edge -> Nat]
  BY <1>1, BaselineIsNat
<1>4. TwinTypes'
  BY <1>1, <1>2, <1>3, TwinAssumption DEF TwinTypes
<1>5. /\ drained = {} /\ next = 0 /\ \A e \in Edge : enabled[e]
      /\ \A n \in Node : shortfall[n] = 0
  BY <1>1 DEF BeforeRun
<1>6. TotalShortfall' = TotalShortfall
  BY <1>1 DEF TotalShortfall
<1>7. ~(reported >= 0)
  <2>1. MaxTicks \in Nat
    BY TwinAssumption
  <2> QED
    BY <1>1, <2>1 DEF WorstIsLast
<1>8. InactiveCarryNothing'
  BY <1>1, <1>5 DEF InactiveCarryNothing
<1>9. GapsWiden'
  <2> SUFFICES ASSUME NEW n \in Node
               PROVE  shortfall'[n] <= Missing(n)'
    BY DEF GapsWiden
  <2>1. Missing(n)' \in Nat
    <3>1. \A e \in Edge : flow'[e] <= flow'[e]
      BY <1>3
    <3> DEFINE S == {e \in Edge : Target[e] = n}
    <3>2. Carried(S)' \in Nat
      <4> DEFINE R == {e \in S : enabled'[e]}
      <4>1. IsFiniteSet(S) /\ (\A e \in S : flow'[e] \in Nat) /\ R \in SUBSET S
        BY <1>3, TwinAssumption, FS_Subset
      <4>2. Carried(S)' = SumFunctionOnSet(flow', R)
        BY DEF Carried
      <4> QED
        BY <4>1, <4>2, SumOfMore
    <3>3. Inbound(n)' = Carried(S)' /\ Demand(n)' = Demand(n) /\ Demand(n) \in Nat
      BY DemandIsNat DEF Inbound, Demand, Refineries
    <3> QED
      BY <3>2, <3>3 DEF Missing, Positive
  <2>2. shortfall'[n] = 0
    BY <1>1, <1>5
  <2> QED
    BY <2>1, <2>2
<1>10. BeforeRun' /\ DryShipNothing' /\ OnlyUnstoppableShipAgain'
  BY <1>1, <1>5 DEF BeforeRun, DryShipNothing, OnlyUnstoppableShipAgain
<1>11. WorstIsLast'
  BY <1>1, <1>6, <1>7 DEF WorstIsLast
<1> QED
  BY <1>4, <1>8, <1>9, <1>10, <1>11

\* A share of a flow is not more than the flow.
LEMMA CutIsLess ==
  ASSUME NEW v \in Nat, NEW p \in 0..100
  PROVE  (v * p) \div 100 \in Nat /\ (v * p) \div 100 <= v
<1> DEFINE a == v * p
<1>1. a \in Nat /\ a <= 100 * v
  <2>1. a \in Nat
    OBVIOUS
  <2>2. v * (100 - p) \in Nat /\ v * (100 - p) = 100 * v - a
    OBVIOUS
  <2> QED
    BY <2>1, <2>2
<1> HIDE DEF a
<1>2. a \div 100 \in Nat /\ a \div 100 <= v
  BY <1>1
<1> QED
  BY <1>2 DEF a

LEMMA DisruptEdgesKeeps == FlowInv /\ DisruptEdges => FlowInv'
<1> SUFFICES ASSUME FlowInv, DisruptEdges
             PROVE  FlowInv'
  OBVIOUS
<1> USE DEF FlowInv
<1>1. /\ tick > 0 /\ next = 0 /\ tick <= MaxTicks /\ next' = 1
      /\ flow' = [e \in Edge |->
           Rebalanced(e, IF Disrupted(e) THEN Cut(e, Multiplier(e)) ELSE flow[e])]
      /\ enabled' = [e \in Edge |-> IF Disrupted(e) THEN Multiplier(e) > 0 ELSE enabled[e]]
      /\ UNCHANGED <<scenario, visits, tick, shortfall, worst, reported, drained, again>>
  BY DEF DisruptEdges, runVars
<1>2. \A e \in Edge : flow[e] \in Nat /\ Multiplier(e) \in 0..100
  BY DEF TwinTypes, Multiplier
<1>3. ASSUME NEW e \in Edge
      PROVE  /\ flow'[e] \in Nat /\ flow'[e] <= flow[e]
             /\ enabled'[e] \in BOOLEAN
             /\ ~enabled'[e] => flow'[e] = 0
  <2> DEFINE c == Cut(e, Multiplier(e))
  <2>1. c \in Nat /\ c <= flow[e]
    BY <1>2, CutIsLess DEF Cut
  <2>2. Multiplier(e) = 0 => c = 0
    <3>1. \A v \in Nat : v * 0 = 0 /\ 0 \div 100 = 0
      OBVIOUS
    <3> QED
      BY <1>2, <3>1 DEF Cut
  <2> HIDE DEF c
  <2>3. flow'[e] = Rebalanced(e, IF Disrupted(e) THEN c ELSE flow[e])
    BY <1>1 DEF c
  <2>4. flow'[e] \in Nat /\ flow'[e] <= flow[e]
    BY <1>2, <2>1, <2>3 DEF Rebalanced
  <2>5. enabled'[e] = IF Disrupted(e) THEN Multiplier(e) > 0 ELSE enabled[e]
    BY <1>1
  <2>6. enabled'[e] \in BOOLEAN
    <3>1. enabled[e] \in BOOLEAN
      BY DEF TwinTypes
    <3>2. CASE Disrupted(e)
      <4>1. enabled'[e] = (Multiplier(e) > 0)
        BY <2>5, <3>2
      <4>2. (Multiplier(e) > 0) \in BOOLEAN
        OBVIOUS
      <4> QED
        BY <4>1, <4>2, Zenon
    <3>3. CASE ~Disrupted(e)
      <4>1. enabled'[e] = enabled[e]
        BY <2>5, <3>3
      <4> QED
        BY <3>1, <4>1, Zenon
    <3> QED
      BY <3>2, <3>3
  <2>7. ~enabled'[e] => flow'[e] = 0
    <3> SUFFICES ASSUME ~enabled'[e]
                 PROVE  flow'[e] = 0
      OBVIOUS
    <3>1. CASE Disrupted(e)
      <4>1. ~(Multiplier(e) > 0)
        BY <2>5, <3>1
      <4>2. Multiplier(e) = 0
        BY <1>2, <4>1
      <4> QED
        BY <2>2, <2>3, <3>1, <4>2 DEF Rebalanced
    <3>2. CASE ~Disrupted(e)
      <4>1. flow[e] = 0
        BY <2>5, <3>2 DEF InactiveCarryNothing
      <4> QED
        BY <2>3, <3>2, <4>1 DEF Rebalanced
    <3> QED
      BY <3>1, <3>2
  <2> QED
    BY <2>4, <2>6, <2>7
<1>4. TwinTypes'
  <2>1. flow' \in [Edge -> Nat]
    BY <1>1, <1>3
  <2>2. enabled' \in [Edge -> BOOLEAN]
    BY <1>1, <1>3
  <2> QED
    BY <1>1, <2>1, <2>2 DEF TwinTypes
<1>5. InactiveCarryNothing'
  BY <1>3 DEF InactiveCarryNothing
<1>6. GapsWiden'
  BY <1>1, <1>3, <1>4, <1>5, GapsStayWide
<1>7. BeforeRun' /\ OnlyUnstoppableShipAgain'
  BY <1>1 DEF BeforeRun, OnlyUnstoppableShipAgain, TwinTypes
<1>8. WorstIsLast'
  <2>1. TotalShortfall' = TotalShortfall
    BY <1>1 DEF TotalShortfall
  <2>2. MaxTicks \in Nat /\ tick \in Nat
    BY TwinAssumption DEF TwinTypes
  <2>3. ~(reported >= 0)
    BY <1>1, <2>2 DEF WorstIsLast
  <2> QED
    BY <1>1, <2>1, <2>3 DEF WorstIsLast
<1>9. DryShipNothing'
  <2> SUFFICES ASSUME NEW n \in drained, Kind[n] \in Stoppable, NEW e \in Leaving(n)
               PROVE  flow'[e] = 0
    BY <1>1 DEF DryShipNothing, Leaving
  <2>1. flow[e] = 0 /\ e \in Edge
    BY DEF DryShipNothing, Leaving
  <2>2. flow'[e] \in Nat /\ flow'[e] <= flow[e]
    BY <1>3, <2>1
  <2> QED
    BY <2>1, <2>2
<1> QED
  BY <1>4, <1>5, <1>6, <1>7, <1>8, <1>9

LEMMA VisitNodeKeeps == FlowInv /\ VisitNode => FlowInv'
<1> SUFFICES ASSUME FlowInv, VisitNode
             PROVE  FlowInv'
  OBVIOUS
<1> USE DEF FlowInv
<1> DEFINE n == visits[next]
           left == Positive(stock[n] + ((Inbound(n) - Outbound(n)) * hours) \div 24)
           dry == left = 0 /\ Outbound(n) > 0
           stops == dry /\ Kind[n] \in Stoppable
<1>1. /\ next \in DOMAIN visits /\ next' = next + 1
      /\ shortfall' = [shortfall EXCEPT ![n] = Missing(n)]
      /\ flow' = [e \in Edge |-> IF stops /\ e \in Leaving(n) THEN 0 ELSE flow[e]]
      /\ enabled' = [e \in Edge |-> enabled[e] /\ ~(stops /\ e \in Leaving(n))]
      /\ drained' = IF dry THEN drained \cup {n} ELSE drained
      /\ again' = IF n \in drained /\ Outbound(n) > 0 THEN again \cup {n} ELSE again
      /\ UNCHANGED <<scenario, visits, tick, worst, reported>>
  BY Zenon DEF VisitNode, runVars, Missing
<1>2. n \in Node /\ next \in Nat /\ next > 0 /\ tick > 0
  <2>1. next \in 1..Len(visits) /\ n \in Node
    BY <1>1 DEF TwinTypes
  <2> QED
    BY <2>1 DEF TwinTypes, BeforeRun
<1>3. ~(reported >= 0)
  BY <1>2 DEF WorstIsLast
<1>4. stops => n \in drained' /\ Kind[n] \in Stoppable
  BY <1>1
<1>5. dry /\ Kind[n] \in Stoppable => stops
  OBVIOUS
<1> HIDE DEF n, stops, dry
<1>6. ASSUME NEW e \in Edge
      PROVE  /\ flow'[e] \in Nat /\ flow'[e] <= flow[e]
             /\ enabled'[e] \in BOOLEAN
             /\ ~enabled'[e] => flow'[e] = 0
  <2>1. flow[e] \in Nat /\ flow'[e] = IF stops /\ e \in Leaving(n) THEN 0 ELSE flow[e]
    BY <1>1 DEF TwinTypes
  <2>2. enabled'[e] = (enabled[e] /\ ~(stops /\ e \in Leaving(n)))
    BY <1>1, Zenon
  <2>3. enabled'[e] \in BOOLEAN
    BY <2>2, Zenon
  <2>4. ~enabled'[e] => ~enabled[e] \/ (stops /\ e \in Leaving(n))
    BY <2>2, Zenon
  <2>5. ~enabled[e] => flow[e] = 0
    BY DEF InactiveCarryNothing
  <2> QED
    BY <2>1, <2>3, <2>4, <2>5
<1>7. Missing(n) \in Nat
  <2>1. Inbound(n) \in Nat
    BY CarriedIs DEF TwinTypes, Inbound
  <2> QED
    BY <1>2, <2>1, DemandIsNat DEF Missing, Positive
<1>8. TwinTypes'
  <2>1. flow' \in [Edge -> Nat]
    BY <1>1, <1>6
  <2>2. enabled' \in [Edge -> BOOLEAN]
    BY <1>1, <1>6
  <2>3. shortfall' \in [Node -> Nat]
    BY <1>1, <1>7 DEF TwinTypes
  <2> QED
    BY <1>1, <1>2, <2>1, <2>2, <2>3 DEF TwinTypes
<1>9. InactiveCarryNothing'
  BY <1>6 DEF InactiveCarryNothing
<1>10. \A m \in Node : /\ shortfall'[m] \in {shortfall[m], Missing(m)}
                       /\ shortfall[m] <= shortfall'[m]
  BY <1>1 DEF GapsWiden, TwinTypes
<1>11. GapsWiden'
  BY <1>6, <1>8, <1>9, <1>10, GapsStayWide
<1>12. BeforeRun'
  BY <1>1, <1>2 DEF BeforeRun, TwinTypes
<1>13. WorstIsLast'
  <2>1. TotalShortfall <= TotalShortfall'
    <3>1. IsFiniteSet(Node) /\ DOMAIN shortfall = Node /\ DOMAIN shortfall' = Node
          /\ \A m \in Node : shortfall[m] \in Int /\ shortfall'[m] \in Int /\ shortfall[m] <= shortfall'[m]
      BY <1>8, <1>10, TwinAssumption DEF TwinTypes
    <3>2. SumFunctionOnSet(shortfall, Node) <= SumFunctionOnSet(shortfall', Node)
      BY <3>1, SumMonotone
    <3> QED
      BY <3>1, <3>2 DEF TotalShortfall, SumFunction
  <2>2. TotalShortfall \in Nat /\ TotalShortfall' \in Nat
    <3>1. IsFiniteSet(Node) /\ (\A m \in Node : shortfall'[m] \in Nat) /\ DOMAIN shortfall' = Node
          /\ Node \in SUBSET Node
      BY <1>8, TwinAssumption DEF TwinTypes
    <3>2. SumFunctionOnSet(shortfall', Node) \in Nat
      BY <3>1, SumOfMore
    <3> QED
      BY <3>1, <3>2, ShortfallIsNat DEF TotalShortfall, SumFunction
  <2> QED
    BY <1>1, <1>2, <1>3, <2>1, <2>2 DEF WorstIsLast, TwinTypes
<1>14. DryShipNothing'
  <2> SUFFICES ASSUME NEW m \in drained', Kind[m] \in Stoppable, NEW e \in Leaving(m)
               PROVE  flow'[e] = 0
    BY DEF DryShipNothing, Leaving
  <2>1. e \in Edge
    BY DEF Leaving
  <2>2. CASE m \in drained
    <3>1. flow[e] = 0
      BY <2>2 DEF DryShipNothing
    <3> QED
      BY <2>1, <3>1, <1>6
  <2>3. CASE m \notin drained
    <3>1. m = n /\ dry
      BY <1>1, <2>3
    <3>2. stops
      BY <3>1, <1>5
    <3> QED
      BY <1>1, <2>1, <3>1, <3>2
  <2> QED
    BY <2>2, <2>3
<1>15. OnlyUnstoppableShipAgain'
  <2> SUFFICES ASSUME n \in drained, Outbound(n) > 0, Kind[n] \in Stoppable
               PROVE  FALSE
    BY <1>1 DEF OnlyUnstoppableShipAgain
  <2>1. \A e \in Leaving(n) : flow[e] = 0
    BY DEF DryShipNothing
  <2>2. Leaving(n) \in SUBSET Edge /\ IsFiniteSet(Leaving(n))
    BY TwinAssumption, FS_Subset DEF Leaving
  <2>3. Outbound(n) = SumFunctionOnSet(flow, Leaving(n))
    BY <2>2, CarriedIs DEF TwinTypes, Outbound
  <2>4. Outbound(n) = 0
    BY <2>1, <2>2, <2>3, SumOfZeros
  <2> QED
    BY <2>4
<1> QED
  BY <1>8, <1>9, <1>11, <1>12, <1>13, <1>14, <1>15

LEMMA OthersKeepFlow ==
  FlowInv /\ (DisruptUnrated \/ EndTick \/ CompleteRun \/ UNCHANGED twinVars) => FlowInv'
<1> SUFFICES ASSUME FlowInv, DisruptUnrated \/ EndTick \/ CompleteRun \/ UNCHANGED twinVars
             PROVE  FlowInv'
  OBVIOUS
<1> USE DEF FlowInv
<1>1. UNCHANGED <<scenario, visits, flow, enabled, shortfall, drained, again>>
  BY DEF DisruptUnrated, EndTick, CompleteRun, twinVars, runVars, netVars
<1>2. TotalShortfall' = TotalShortfall /\ TotalShortfall \in Nat
  BY <1>1, ShortfallIsNat DEF TotalShortfall
<1>3. GapsWiden'
  <2>1. \A n \in Node : Missing(n)' = Missing(n)
    BY <1>1 DEF Missing, Inbound, Carried, Demand, Refineries
  <2> QED
    BY <1>1, <2>1 DEF GapsWiden
<1>4. InactiveCarryNothing' /\ DryShipNothing' /\ OnlyUnstoppableShipAgain'
  BY <1>1 DEF InactiveCarryNothing, DryShipNothing, OnlyUnstoppableShipAgain, Leaving
<1>5. MaxTicks \in Nat /\ Len(visits) \in Nat
  BY TwinAssumption DEF TwinTypes
<1>6. TwinTypes' /\ BeforeRun' /\ WorstIsLast'
  <2>1. CASE DisruptUnrated \/ UNCHANGED twinVars
    <3>1. UNCHANGED <<tick, next, worst, reported>>
      BY <2>1 DEF DisruptUnrated, twinVars
    <3> QED
      BY <1>1, <1>2, <3>1 DEF TwinTypes, BeforeRun, WorstIsLast
  <2>2. CASE EndTick
    <3>1. /\ next > Len(visits) /\ tick > 0 /\ tick' = tick + 1 /\ next' = 0 /\ reported' = reported
          /\ worst' = Max({worst, TotalShortfall})
      BY <2>2 DEF EndTick
    <3>2. Max({worst, TotalShortfall}) = TotalShortfall
      BY <1>2 DEF TwinTypes, WorstIsLast, Max
    <3>3. next # 0
      BY <1>5, <3>1
    <3>4. ~(reported >= 0)
      BY <3>3 DEF WorstIsLast
    <3> QED
      BY <1>1, <1>2, <3>1, <3>2, <3>4 DEF TwinTypes, BeforeRun, WorstIsLast
  <2>3. CASE CompleteRun
    <3>1. /\ tick > MaxTicks /\ next = 0 /\ reported' = TotalShortfall
          /\ UNCHANGED <<tick, next, worst>>
      BY <2>3 DEF CompleteRun
    <3> QED
      BY <1>1, <1>2, <1>5, <3>1 DEF TwinTypes, BeforeRun, WorstIsLast
  <2> QED
    BY <2>1, <2>2, <2>3
<1> QED
  BY <1>3, <1>4, <1>6

LEMMA FlowInductive == TwinSpec => []FlowInv
<1>1. FlowInv /\ [TwinNext]_twinVars => FlowInv'
  BY StartRunKeeps, DisruptEdgesKeeps, VisitNodeKeeps, OthersKeepFlow DEF TwinNext
<1> QED
  BY <1>1, InitTwin, PTL DEF TwinSpec

\* The gap that the response sizes the reserve by is the largest of the run:
\* whatever edges are cut and whatever order the nodes are visited in.
THEOREM ReportedAlwaysWorst == TwinSpec => []ReportedGapIsWorst
<1>1. FlowInv => ReportedGapIsWorst
  BY DEF FlowInv, WorstIsLast, ReportedGapIsWorst
<1> QED
  BY <1>1, FlowInductive, PTL

\* What can stop and has run dry ships nothing in the ticks after, although its
\* status no longer says that it is idle.
THEOREM DryNeverShipsAgain == TwinSpec => []OnlyUnstoppableShipAgain
<1>1. FlowInv => OnlyUnstoppableShipAgain
  BY DEF FlowInv
<1> QED
  BY <1>1, FlowInductive, PTL

-----------------------------------------------------------------------------
(* The release of the reserve                                              *)

Entry == [site : Nat, rate : Nat, duration : Nat, volume : Nat]

\* What a plan delivers each day and in all, and the reserve can give each day.
RateOf(p) == Total(p, LAMBDA n : p[n].rate)
VolumeOf(p) == Total(p, LAMBDA n : p[n].volume)
Drawdown(s) == [i \in DOMAIN s |-> s[i].drawdown]
Reserve == Lesser(Total(sites, LAMBDA i : sites[i].drawdown), gap)

ReleaseTypes ==
  /\ sites \in Seq(Facility) /\ plan \in Seq(Entry) /\ factor \in Factors
  /\ gap \in Nat /\ releasable \in Nat /\ days \in Nat /\ drawn \in Nat
  /\ demand \in Nat /\ released \in Nat

\* The reserve lasts for the days of the plan.
ReserveLasts == Reserve * days <= releasable /\ drawn = Lesser(releasable, Reserve * days)

\* The plan covers what the demand lacks of the gap, with the facilities the
\* loop has passed, and delivers for the days of the plan at most.
PlanAddsUp ==
  /\ demand + RateOf(plan) = gap
  /\ RateOf(plan) <= SumFunctionOnSet(Drawdown(sites), {i \in DOMAIN sites : i < at})
  /\ VolumeOf(plan) <= RateOf(plan) * days

EntrySound(entry) ==
  /\ entry.site \in DOMAIN sites
  /\ entry.volume = entry.rate * entry.duration
  /\ entry.volume * 100 <= sites[entry.site].inventory * (100 - factor)
  /\ entry.rate <= sites[entry.site].drawdown

ReleaseInv ==
  /\ at \in Nat
  /\ at > 0 =>
       /\ ReleaseTypes /\ ReserveLasts /\ PlanAddsUp
       /\ \A n \in DOMAIN plan : EntrySound(plan[n])

\* A sum over one element more.
LEMMA SumOfAppended ==
  ASSUME NEW n \in Nat, NEW f \in [1..n -> Nat], NEW g \in [1..(n + 1) -> Nat],
         \A i \in 1..n : g[i] = f[i]
  PROVE  SumFunction(f) \in Nat /\ SumFunction(g) = SumFunction(f) + g[n + 1]
<1> DEFINE S == 1..n
           T == 1..(n + 1)
<1>1. IsFiniteSet(S) /\ IsFiniteSet(T)
  BY FS_Interval
<1>2. n + 1 \in T /\ T \ {n + 1} = S /\ DOMAIN f = S /\ DOMAIN g = T
  OBVIOUS
<1>3. \A i \in S : f[i] \in Nat /\ f[i] \in Int /\ g[i] \in Int /\ f[i] <= g[i] /\ g[i] <= f[i]
  OBVIOUS
<1>4. \A i \in T : g[i] \in Int
  OBVIOUS
<1> HIDE DEF S, T
<1>5. SumFunctionOnSet(g, T) = g[n + 1] + SumFunctionOnSet(g, S)
  BY <1>1, <1>2, <1>4, SumWithout
<1>6. SumFunctionOnSet(f, S) <= SumFunctionOnSet(g, S)
  BY <1>1, <1>3, SumMonotone
<1>7. SumFunctionOnSet(g, S) <= SumFunctionOnSet(f, S)
  BY <1>1, <1>3, SumMonotone
<1>8. SumFunctionOnSet(f, S) \in Nat
  <2>1. S \in SUBSET S
    OBVIOUS
  <2> QED
    BY <1>1, <1>3, <2>1, SumOfMore
<1>9. SumFunctionOnSet(g, S) \in Int
  BY <1>1, <1>3, SumIsInt
<1>10. g[n + 1] \in Nat
  BY <1>2 DEF T
<1> QED
  BY <1>2, <1>5, <1>6, <1>7, <1>8, <1>9, <1>10 DEF SumFunction

LEMMA TotalsAppended ==
  ASSUME NEW p \in Seq(Entry), NEW e \in Entry
  PROVE  /\ RateOf(p) \in Nat /\ RateOf(Append(p, e)) = RateOf(p) + e.rate
         /\ VolumeOf(p) \in Nat /\ VolumeOf(Append(p, e)) = VolumeOf(p) + e.volume
<1> DEFINE q == Append(p, e)
           n == Len(p)
<1>1. n \in Nat /\ DOMAIN p = 1..n /\ DOMAIN q = 1..(n + 1) /\ q[n + 1] = e
      /\ (\A i \in 1..n : q[i] = p[i] /\ p[i] \in Entry) /\ \A i \in 1..(n + 1) : q[i] \in Entry
  OBVIOUS
<1>2. \A x \in Entry : x.rate \in Nat /\ x.volume \in Nat
  BY DEF Entry
<1> HIDE DEF n, q
<1>3. RateOf(p) \in Nat /\ RateOf(q) = RateOf(p) + e.rate
  <2> DEFINE f == [i \in DOMAIN p |-> p[i].rate]
             g == [i \in DOMAIN q |-> q[i].rate]
  <2>1. f \in [1..n -> Nat] /\ g \in [1..(n + 1) -> Nat] /\ g[n + 1] = e.rate
        /\ \A i \in 1..n : g[i] = f[i]
    BY <1>1, <1>2
  <2>2. RateOf(p) = SumFunction(f) /\ RateOf(q) = SumFunction(g)
    BY DEF RateOf, Total
  <2> HIDE DEF f, g
  <2>3. SumFunction(f) \in Nat /\ SumFunction(g) = SumFunction(f) + g[n + 1]
    BY <1>1, <2>1, SumOfAppended
  <2> QED
    BY <2>1, <2>2, <2>3
<1>4. VolumeOf(p) \in Nat /\ VolumeOf(q) = VolumeOf(p) + e.volume
  <2> DEFINE f == [i \in DOMAIN p |-> p[i].volume]
             g == [i \in DOMAIN q |-> q[i].volume]
  <2>1. f \in [1..n -> Nat] /\ g \in [1..(n + 1) -> Nat] /\ g[n + 1] = e.volume
        /\ \A i \in 1..n : g[i] = f[i]
    BY <1>1, <1>2
  <2>2. VolumeOf(p) = SumFunction(f) /\ VolumeOf(q) = SumFunction(g)
    BY DEF VolumeOf, Total
  <2> HIDE DEF f, g
  <2>3. SumFunction(f) \in Nat /\ SumFunction(g) = SumFunction(f) + g[n + 1]
    BY <1>1, <2>1, SumOfAppended
  <2> QED
    BY <2>1, <2>2, <2>3
<1> QED
  BY <1>3, <1>4 DEF q

\* What is put in for what is divided by is not more than what was divided.
LEMMA QuotientFits ==
  ASSUME NEW a \in Nat, NEW b \in Nat, b > 0
  PROVE  a \div b \in Nat /\ b * (a \div b) <= a
OBVIOUS

LEMMA ProductIs ==
  ASSUME NEW a \in Nat, NEW b \in Nat
  PROVE  a * b \in Nat /\ 0 * b = 0
OBVIOUS

LEMMA ProductGrows ==
  ASSUME NEW a \in Nat, NEW b \in Nat, NEW c \in Nat, b <= c
  PROVE  a * b \in Nat /\ a * c \in Nat /\ a * b <= a * c /\ b * a <= c * a
<1>1. PICK d \in Nat : c = b + d
  <2>1. c - b \in Nat /\ c = b + (c - b)
    OBVIOUS
  <2> QED
    BY <2>1
<1>2. a * c = a * b + a * d /\ a * b \in Nat /\ a * d \in Nat
  BY <1>1
<1>3. c * a = b * a + d * a /\ b * a \in Nat /\ d * a \in Nat
  BY <1>1
<1> QED
  BY <1>2, <1>3

LEMMA LesserIs ==
  ASSUME NEW a \in Nat, NEW b \in Nat
  PROVE  Lesser(a, b) \in Nat /\ Lesser(a, b) <= a /\ Lesser(a, b) <= b
         /\ Lesser(a, b) \in {a, b}
BY DEF Lesser, Min

LEMMA TotalsAreNat ==
  ASSUME NEW s \in Seq(Facility)
  PROVE  /\ Total(s, LAMBDA i : s[i].drawdown) \in Nat
         /\ Total(s, LAMBDA i : s[i].inventory) \in Nat
         /\ Total(s, LAMBDA i : s[i].capacity) \in Nat
         /\ \A S \in SUBSET DOMAIN s :
              /\ SumFunctionOnSet(Drawdown(s), S) \in Nat
              /\ SumFunctionOnSet(Drawdown(s), S) <= Total(s, LAMBDA i : s[i].drawdown)
<1>1. IsFiniteSet(DOMAIN s)
  <2>1. DOMAIN s = 1..Len(s) /\ Len(s) \in Nat
    OBVIOUS
  <2> QED
    BY <2>1, FS_Interval
<1>2. \A i \in DOMAIN s : s[i].drawdown \in Nat /\ s[i].inventory \in Nat /\ s[i].capacity \in Nat
  <2>1. \A i \in DOMAIN s : s[i] \in Facility
    OBVIOUS
  <2> QED
    BY <2>1, ReleaseAssumption
<1>3. ASSUME NEW f \in [DOMAIN s -> Nat]
      PROVE  SumFunction(f) \in Nat
             /\ \A S \in SUBSET DOMAIN s : SumFunctionOnSet(f, S) \in Nat
                                           /\ SumFunctionOnSet(f, S) <= SumFunction(f)
  <2>1. (\A x \in DOMAIN s : f[x] \in Nat) /\ DOMAIN s \in SUBSET DOMAIN s /\ DOMAIN f = DOMAIN s
    OBVIOUS
  <2> QED
    BY <1>1, <2>1, SumOfMore DEF SumFunction
<1>4. Drawdown(s) \in [DOMAIN s -> Nat] /\ [i \in DOMAIN s |-> s[i].inventory] \in [DOMAIN s -> Nat]
      /\ [i \in DOMAIN s |-> s[i].capacity] \in [DOMAIN s -> Nat]
  BY <1>2 DEF Drawdown
<1>5. SumFunction(Drawdown(s)) = Total(s, LAMBDA i : s[i].drawdown)
  BY DEF Drawdown, Total
<1>6. Total(s, LAMBDA i : s[i].inventory) \in Nat
  BY <1>3, <1>4 DEF Total
<1>7. Total(s, LAMBDA i : s[i].capacity) \in Nat
  BY <1>3, <1>4 DEF Total
<1>8. /\ SumFunction(Drawdown(s)) \in Nat
      /\ \A S \in SUBSET DOMAIN s :
              /\ SumFunctionOnSet(Drawdown(s), S) \in Nat
              /\ SumFunctionOnSet(Drawdown(s), S) <= SumFunction(Drawdown(s))
  BY <1>3, <1>4
<1> QED
  BY <1>5, <1>6, <1>7, <1>8

LEMMA FactorIs == \A x \in Factors : x \in Nat /\ x <= 100 /\ 100 - x \in Nat
BY DEF Factors

LEMMA ReleasableIs ==
  ASSUME NEW s \in Seq(Facility), NEW threshold \in Nat
  PROVE  Releasable(s, threshold) \in Nat
<1> DEFINE held == Total(s, LAMBDA i : s[i].inventory)
           capacity == Total(s, LAMBDA i : s[i].capacity)
<1>1. held \in Nat /\ capacity \in Nat
  BY TotalsAreNat
<1> HIDE DEF held, capacity
<1>2. capacity * threshold \in Nat
  BY <1>1
<1>3. (capacity * threshold) \div 100 \in Nat
  BY <1>2, QuotientFits
<1>4. Releasable(s, threshold) = IF held > (capacity * threshold) \div 100
                                 THEN held - (capacity * threshold) \div 100 ELSE 0
  BY DEF Releasable, held, capacity
<1> HIDE <1>2
<1> QED
  BY <1>1, <1>3, <1>4

\* For as many days as the reserve is said to last, it does.
LEMMA ReserveLastsLong ==
  ASSUME NEW s \in Seq(Facility), NEW inventory \in Nat, NEW g \in Nat,
         NEW d \in Nat, d <= DaysOfReserve(s, inventory, g)
  PROVE  Lesser(Total(s, LAMBDA i : s[i].drawdown), g) * d <= inventory
<1> DEFINE rate == Lesser(Total(s, LAMBDA i : s[i].drawdown), g)
<1>1. rate \in Nat
  BY TotalsAreNat, LesserIs
<1>2. DaysOfReserve(s, inventory, g) = IF rate > 0 THEN inventory \div rate ELSE NoDraw
  BY DEF DaysOfReserve
<1> HIDE DEF rate
<1>3. CASE rate = 0
  <2>1. rate * d = 0
    BY <1>3
  <2> QED
    BY <2>1 DEF rate
<1>4. CASE rate > 0
  <2> DEFINE q == inventory \div rate
  <2>1. q \in Nat /\ rate * q <= inventory
    BY <1>1, <1>4, QuotientFits
  <2>2. d <= q
    BY <1>2, <1>4
  <2> HIDE DEF q
  <2>3. rate * d \in Nat /\ rate * q \in Nat /\ rate * d <= rate * q
    BY <1>1, <2>1, <2>2, ProductGrows
  <2>4. rate * d <= inventory
    BY <2>1, <2>3
  <2> QED
    BY <2>4 DEF rate
<1> QED
  BY <1>1, <1>3, <1>4

LEMMA DaysIs ==
  ASSUME NEW s \in Seq(Facility), NEW inventory \in Nat, NEW g \in Nat
  PROVE  DaysOfReserve(s, inventory, g) \in Nat
<1> DEFINE rate == Lesser(Total(s, LAMBDA i : s[i].drawdown), g)
<1>1. rate \in Nat
  BY TotalsAreNat, LesserIs
<1>2. DaysOfReserve(s, inventory, g) = IF rate > 0 THEN inventory \div rate ELSE NoDraw
  BY DEF DaysOfReserve
<1> HIDE DEF rate
<1> QED
  BY <1>1, <1>2, QuotientFits DEF NoDraw

LEMMA OptimizeKeeps == ReleaseInv /\ Optimize => ReleaseInv'
<1> SUFFICES ASSUME Optimize
             PROVE  ReleaseInv'
  OBVIOUS
<1>1. PICK n \in 1..MaxSites : sites' \in [1..n -> Facility]
  BY DEF Optimize
<1>2. PICK threshold \in Thresholds : releasable' = Releasable(sites', threshold)
  BY DEF Optimize
<1>3. PICK horizon \in Horizons : days' = Lesser(horizon, DaysOfReserve(sites', releasable', gap'))
  BY DEF Optimize
<1>4. /\ gap' \in Gaps /\ factor' \in Factors /\ at' = 1 /\ demand' = gap' /\ released' = 0
      /\ plan' = <<>>
      /\ drawn' = Lesser(releasable', Lesser(Total(sites', LAMBDA i : sites'[i].drawdown), gap') * days')
  BY DEF Optimize
<1> DEFINE rate == Lesser(Total(sites', LAMBDA i : sites'[i].drawdown), gap')
<1>5. sites' \in Seq(Facility)
  <2>1. n \in Nat
    BY ReleaseAssumption
  <2> QED
    BY <1>1, <2>1, SeqDef
<1>6. gap' \in Nat /\ threshold \in Nat /\ horizon \in Nat
  BY <1>2, <1>3, <1>4, ReleaseAssumption
<1>7. releasable' \in Nat
  BY <1>2, <1>5, <1>6, ReleasableIs
<1>8. days' \in Nat /\ days' <= DaysOfReserve(sites', releasable', gap')
  BY <1>3, <1>5, <1>6, <1>7, DaysIs, LesserIs
<1>9. rate \in Nat
  BY <1>5, <1>6, TotalsAreNat, LesserIs
<1>10. rate * days' <= releasable'
  BY <1>5, <1>6, <1>7, <1>8, ReserveLastsLong
<1>11. Reserve' = rate
  BY DEF Reserve, Total
<1> HIDE DEF rate
<1>12. days' \in Nat /\ rate * days' \in Nat /\ 0 * days' = 0
  <2>1. days' \in Nat
    BY <1>8
  <2> QED
    BY <1>9, <2>1, ProductIs
<1>13. drawn' \in Nat /\ drawn' = Lesser(releasable', rate * days')
  BY <1>4, <1>7, <1>12, LesserIs DEF rate
<1>14. ReleaseTypes'
  BY <1>4, <1>5, <1>6, <1>7, <1>8, <1>13 DEF ReleaseTypes
<1>15. ReserveLasts'
  BY <1>10, <1>11, <1>13 DEF ReserveLasts
<1>16. PlanAddsUp'
  <2>1. SumFunctionOnSet(<<>>, {}) = 0
    BY SumOfNone
  <2>2. RateOf(<<>>) = 0 /\ VolumeOf(<<>>) = 0
    <3>1. DOMAIN <<>> = {}
      OBVIOUS
    <3>2. ASSUME NEW f, DOMAIN f = {}
          PROVE  SumFunction(f) = 0
      BY <3>2, SumOfNone DEF SumFunction
    <3> QED
      BY <3>1, <3>2 DEF RateOf, VolumeOf, Total
  <2>3. RateOf(plan)' = 0 /\ VolumeOf(plan)' = 0
    BY <1>4, <2>2 DEF RateOf, VolumeOf, Total
  <2>4. {i \in DOMAIN sites' : i < at'} \in SUBSET DOMAIN sites'
    OBVIOUS
  <2>5. SumFunctionOnSet(Drawdown(sites'), {i \in DOMAIN sites' : i < at'}) \in Nat
    BY <1>5, <2>4, TotalsAreNat
  <2>6. SumFunctionOnSet(Drawdown(sites), {i \in DOMAIN sites : i < at})'
          = SumFunctionOnSet(Drawdown(sites'), {i \in DOMAIN sites' : i < at'})
    BY DEF Drawdown
  <2> QED
    BY <1>4, <1>6, <1>12, <2>3, <2>5, <2>6 DEF PlanAddsUp
<1>17. DOMAIN plan' = {}
  BY <1>4
<1> QED
  BY <1>4, <1>14, <1>15, <1>16, <1>17 DEF ReleaseInv

\* What the loop appends for a facility that gives something.
LEMMA EntryIs ==
  ASSUME ReleaseInv, at > 0, ~Stops,
         NEW volume, volume = Lesser(Available(sites[at]), Rate(sites[at]) * Duration(sites[at]))
  PROVE  /\ at \in DOMAIN sites
         /\ Rate(sites[at]) \in Nat /\ Rate(sites[at]) <= sites[at].drawdown /\ Rate(sites[at]) <= demand
         /\ sites[at].drawdown \in Nat
         /\ Duration(sites[at]) \in Nat /\ volume \in Nat
         /\ volume = Rate(sites[at]) * Duration(sites[at])
         /\ volume <= Rate(sites[at]) * days
         /\ volume * 100 <= sites[at].inventory * (100 - factor)
<1> DEFINE site == sites[at]
           rate == Rate(site)
           available == Available(site)
           kept == site.inventory * (100 - factor)
           duration == Duration(site)
<1>1. at \in DOMAIN sites
  BY DEF ReleaseInv, ReleaseTypes, Stops
<1>2. site \in Facility /\ site.drawdown \in Nat /\ site.inventory \in Nat
  <2>1. site \in Facility
    BY <1>1 DEF ReleaseInv, ReleaseTypes
  <2> QED
    BY <2>1, ReleaseAssumption
<1>3. demand \in Nat /\ days \in Nat /\ 100 - factor \in Nat
  BY FactorIs DEF ReleaseInv, ReleaseTypes
<1>4. rate \in Nat /\ rate <= site.drawdown /\ rate <= demand
  BY <1>2, <1>3, LesserIs DEF Rate
<1>5. kept \in Nat /\ available = kept \div 100
  BY <1>2, <1>3 DEF Available
<1>6. duration = IF rate > 0 THEN Lesser(days, available \div rate) ELSE 0
  BY DEF Duration
<1>7. volume = Lesser(available, rate * duration)
  OBVIOUS
<1> HIDE DEF site, rate, available, kept, duration
<1>8. available \in Nat /\ available * 100 <= kept
  <2>1. available \in Nat /\ 100 * available <= kept
    BY <1>5, QuotientFits
  <2> QED
    BY <2>1, <1>5
<1>9. duration \in Nat /\ duration <= days /\ rate * duration \in Nat /\ rate * duration <= available
  <2>1. CASE rate = 0
    <3>1. duration = 0 /\ rate * duration = 0
      BY <1>6, <2>1
    <3> QED
      BY <1>3, <1>8, <3>1
  <2>2. CASE rate > 0
    <3> DEFINE q == available \div rate
    <3>1. q \in Nat /\ rate * q <= available
      BY <1>4, <1>8, <2>2, QuotientFits
    <3>2. duration = Lesser(days, q)
      BY <1>6, <2>2
    <3> HIDE DEF q
    <3>3. duration \in Nat /\ duration <= days /\ duration <= q
      BY <1>3, <3>1, <3>2, LesserIs
    <3>4. rate * duration \in Nat /\ rate * q \in Nat /\ rate * duration <= rate * q
      BY <1>4, <3>1, <3>3, ProductGrows
    <3> QED
      BY <1>8, <3>1, <3>3, <3>4
  <2> QED
    BY <1>4, <2>1, <2>2
<1> HIDE <1>7
<1>10. volume = rate * duration
  <2> DEFINE v == rate * duration
  <2> HIDE DEF v
  <2>1. v \in Nat /\ v <= available /\ available \in Nat
    BY <1>8, <1>9 DEF v
  <2>2. Lesser(available, v) = v
    BY <2>1, LesserIs
  <2> QED
    BY <1>7, <2>2 DEF v
<1>11. volume <= rate * days
  BY <1>3, <1>4, <1>9, <1>10, ProductGrows
<1>12. volume \in Nat /\ volume <= available
  BY <1>9, <1>10
<1>13. volume * 100 <= kept
  BY <1>5, <1>8, <1>12
<1> QED
  BY <1>1, <1>2, <1>4, <1>9, <1>10, <1>11, <1>12, <1>13 DEF site, rate, kept, duration

LEMMA DrawKeeps == ReleaseInv /\ Draw => ReleaseInv'
<1> SUFFICES ASSUME ReleaseInv, Draw
             PROVE  ReleaseInv'
  OBVIOUS
<1> DEFINE site == sites[at]
           volume == Lesser(Available(site), Rate(site) * Duration(site))
           entry == [site |-> at, rate |-> Rate(site), duration |-> Duration(site), volume |-> volume]
           before == {i \in DOMAIN sites : i < at}
           after == {i \in DOMAIN sites : i < at + 1}
           sum(S) == SumFunctionOnSet(Drawdown(sites), S)
<1>1. /\ at > 0 /\ ~Stops /\ at' = at + 1
      /\ UNCHANGED <<sites, gap, factor, releasable, days, drawn>>
      /\ IF volume = 0
         THEN UNCHANGED <<demand, released, plan>>
         ELSE /\ plan' = Append(plan, entry)
              /\ released' = released + volume
              /\ demand' = demand - Rate(site)
  BY DEF Draw
<1>2. at \in Nat /\ ReleaseTypes /\ ReserveLasts /\ PlanAddsUp
      /\ \A n \in DOMAIN plan : EntrySound(plan[n])
  BY <1>1 DEF ReleaseInv
<1>3. /\ at \in DOMAIN sites
      /\ Rate(site) \in Nat /\ Rate(site) <= site.drawdown /\ Rate(site) <= demand
      /\ site.drawdown \in Nat
      /\ Duration(site) \in Nat /\ volume \in Nat
      /\ volume = Rate(site) * Duration(site)
      /\ volume <= Rate(site) * days
      /\ volume * 100 <= site.inventory * (100 - factor)
  BY <1>1, EntryIs
<1>4. entry \in Entry
  BY <1>2, <1>3 DEF Entry
<1>10. /\ volume \in Nat /\ Rate(site) \in Nat
       /\ demand \in Nat /\ demand - Rate(site) \in Nat
       /\ (demand - Rate(site)) + Rate(site) = demand
  <2>1. demand \in Nat /\ Rate(site) \in Nat /\ Rate(site) <= demand
    BY <1>2, <1>3 DEF ReleaseTypes
  <2> QED
    BY <1>3, <2>1
<1>5. /\ sum(before) \in Nat /\ sum(after) \in Nat
      /\ sum(after) = site.drawdown + sum(before)
  <2>1. before \in SUBSET DOMAIN sites /\ after \in SUBSET DOMAIN sites
        /\ at \in after /\ after \ {at} = before
    BY <1>2, <1>3 DEF ReleaseTypes
  <2>2. IsFiniteSet(after)
    <3>1. DOMAIN sites = 1..Len(sites) /\ Len(sites) \in Nat
      BY <1>2 DEF ReleaseTypes
    <3>2. IsFiniteSet(DOMAIN sites)
      BY <3>1, FS_Interval
    <3> QED
      BY <2>1, <3>2, FS_Subset
  <2>3. \A i \in after : Drawdown(sites)[i] \in Int
    <3>1. \A i \in after : sites[i] \in Facility
      BY <1>2 DEF ReleaseTypes
    <3> QED
      BY <2>1, <3>1, ReleaseAssumption DEF Drawdown
  <2>4. Drawdown(sites)[at] = site.drawdown
    BY <1>3 DEF Drawdown
  <2>5. sum(after) = Drawdown(sites)[at] + sum(after \ {at})
    BY <2>1, <2>2, <2>3, SumWithout
  <2>6. sum(before) \in Nat /\ sum(after) \in Nat
    BY <1>2, <2>1, TotalsAreNat DEF ReleaseTypes
  <2> QED
    BY <2>1, <2>4, <2>5, <2>6
<1>6. SumFunctionOnSet(Drawdown(sites), {i \in DOMAIN sites : i < at})' = sum(after)
  BY <1>1 DEF Drawdown
<1>7. ReserveLasts'
  BY <1>1, <1>2 DEF ReserveLasts, Reserve, Total
<1>8. CASE volume = 0
  <2>1. UNCHANGED <<demand, released, plan>>
    BY <1>1, <1>8
  <2>2. ReleaseTypes'
    BY <1>1, <1>2, <2>1 DEF ReleaseTypes
  <2>3. PlanAddsUp'
    <3>1. RateOf(plan)' = RateOf(plan) /\ VolumeOf(plan)' = VolumeOf(plan)
      BY <2>1 DEF RateOf, VolumeOf, Total
    <3>2. RateOf(plan) \in Nat
      BY <1>2, <1>4, TotalsAppended DEF ReleaseTypes
    <3>3. RateOf(plan) <= sum(before)
      BY <1>2 DEF PlanAddsUp
    <3>4. RateOf(plan) <= sum(after)
      BY <1>3, <1>5, <3>2, <3>3
    <3> QED
      BY <1>1, <1>2, <1>6, <2>1, <3>1, <3>4 DEF PlanAddsUp
  <2>4. \A n \in DOMAIN plan' : EntrySound(plan[n])'
    BY <1>1, <1>2, <2>1 DEF EntrySound
  <2> QED
    BY <1>1, <1>2, <1>7, <2>2, <2>3, <2>4 DEF ReleaseInv
<1>9. CASE volume # 0
  <2>1. plan' = Append(plan, entry) /\ released' = released + volume /\ demand' = demand - Rate(site)
    BY <1>1, <1>9
  <2> HIDE DEF volume
  <2>2. entry.rate = Rate(site) /\ entry.duration = Duration(site) /\ entry.volume = volume
        /\ entry.site = at
    OBVIOUS
  <2> HIDE DEF entry, site
  <2>3. ReleaseTypes'
    <3>1. plan' \in Seq(Entry)
      BY <1>2, <1>4, <2>1 DEF ReleaseTypes
    <3>2. released \in Nat /\ released' \in Nat
      BY <1>2, <1>10, <2>1 DEF ReleaseTypes
    <3> QED
      BY <1>1, <1>2, <1>10, <3>1, <3>2 DEF ReleaseTypes
  <2>4. /\ RateOf(plan) \in Nat /\ RateOf(plan)' = RateOf(plan) + Rate(site)
        /\ VolumeOf(plan) \in Nat /\ VolumeOf(plan)' = VolumeOf(plan) + volume
    <3>1. /\ RateOf(plan) \in Nat /\ RateOf(Append(plan, entry)) = RateOf(plan) + entry.rate
          /\ VolumeOf(plan) \in Nat /\ VolumeOf(Append(plan, entry)) = VolumeOf(plan) + entry.volume
      BY <1>2, <1>4, TotalsAppended DEF ReleaseTypes
    <3>2. RateOf(plan)' = RateOf(Append(plan, entry)) /\ VolumeOf(plan)' = VolumeOf(Append(plan, entry))
      BY <2>1 DEF RateOf, VolumeOf, Total
    <3> QED
      BY <2>2, <3>1, <3>2
  <2>5. PlanAddsUp'
    <3>1. demand' + RateOf(plan)' = gap'
      BY <1>1, <1>2, <1>10, <2>1, <2>4 DEF PlanAddsUp
    <3>2. RateOf(plan)' <= sum(after)
      <4>1. RateOf(plan) <= sum(before)
        BY <1>2 DEF PlanAddsUp
      <4> QED
        BY <1>3, <1>5, <2>4, <4>1
    <3>3. VolumeOf(plan)' <= RateOf(plan)' * days'
      <4> DEFINE a == RateOf(plan)
                 b == Rate(site)
      <4>1. VolumeOf(plan) <= a * days /\ volume <= b * days
        BY <1>2, <1>3 DEF PlanAddsUp
      <4>2. a \in Nat /\ b \in Nat /\ days \in Nat
        BY <1>2, <1>3, <2>4 DEF ReleaseTypes
      <4> HIDE DEF a, b
      <4>3. (a + b) * days = a * days + b * days /\ a * days \in Nat /\ b * days \in Nat
        BY <4>2
      <4>4. VolumeOf(plan) + volume <= (a + b) * days
        BY <1>3, <2>4, <4>1, <4>3
      <4> QED
        BY <1>1, <2>4, <4>4 DEF a, b
    <3> QED
      BY <1>6, <3>1, <3>2, <3>3 DEF PlanAddsUp
  <2>6. \A n \in DOMAIN plan' : EntrySound(plan[n])'
    <3>1. EntrySound(entry)
      BY <1>3, <2>2 DEF EntrySound, site
    <3>2. \A n \in DOMAIN plan' : EntrySound(plan'[n])
      <4>1. DOMAIN plan' = DOMAIN plan \cup {Len(plan) + 1} /\ plan'[Len(plan) + 1] = entry
            /\ \A n \in DOMAIN plan : plan'[n] = plan[n]
        BY <1>2, <1>4, <2>1 DEF ReleaseTypes
      <4> QED
        BY <1>2, <3>1, <4>1
    <3> QED
      BY <1>1, <3>2 DEF EntrySound
  <2> QED
    BY <1>1, <1>2, <1>7, <2>3, <2>5, <2>6 DEF ReleaseInv
<1> QED
  BY <1>8, <1>9

\* The plan keeps the reserve: with any facilities in any order, it delivers no
\* more a day than the gap, no more in all than the run records as drawn, and
\* of no facility what the strategy keeps in it.
THEOREM ReserveAlwaysKept == ReleaseSpec => []ReserveKept
<1>1. ReleaseInit => ReleaseInv
  BY DEF ReleaseInit, ReleaseInv
<1>2. ReleaseInv /\ [ReleaseNext]_releaseVars => ReleaseInv'
  <2>1. ReleaseInv /\ UNCHANGED releaseVars => ReleaseInv'
    BY DEF releaseVars, loopVars, ReleaseInv, ReleaseTypes, ReserveLasts, Reserve, PlanAddsUp,
       RateOf, VolumeOf, Total, Drawdown, EntrySound
  <2> QED
    BY <2>1, OptimizeKeeps, DrawKeeps DEF ReleaseNext
<1>3. ReleaseInv => ReserveKept
  <2> SUFFICES ASSUME ReleaseInv, at > 0
               PROVE  /\ RateOf(plan) <= gap /\ VolumeOf(plan) <= drawn /\ drawn <= releasable
                      /\ \A n \in DOMAIN plan : EntrySound(plan[n])
    BY DEF ReserveKept, RateOf, VolumeOf, EntrySound
  <2>1. ReleaseTypes /\ ReserveLasts /\ PlanAddsUp /\ \A n \in DOMAIN plan : EntrySound(plan[n])
    BY DEF ReleaseInv
  <2>2. RateOf(plan) \in Nat /\ VolumeOf(plan) \in Nat
    <3>1. [site |-> 0, rate |-> 0, duration |-> 0, volume |-> 0] \in Entry
      BY DEF Entry
    <3> QED
      BY <2>1, <3>1, TotalsAppended DEF ReleaseTypes
  <2> DEFINE total == Total(sites, LAMBDA i : sites[i].drawdown)
             passed == {i \in DOMAIN sites : i < at}
  <2>3. total \in Nat /\ RateOf(plan) <= total
    <3>1. passed \in SUBSET DOMAIN sites /\ sites \in Seq(Facility)
      BY <2>1 DEF ReleaseTypes
    <3>2. total \in Nat /\ SumFunctionOnSet(Drawdown(sites), passed) \in Nat
          /\ SumFunctionOnSet(Drawdown(sites), passed) <= total
      BY <3>1, TotalsAreNat
    <3> HIDE DEF total
    <3>3. RateOf(plan) <= SumFunctionOnSet(Drawdown(sites), passed)
      BY <2>1 DEF PlanAddsUp
    <3> QED
      BY <2>2, <3>2, <3>3
  <2>4. Reserve = Lesser(total, gap)
    BY DEF Reserve
  <2> HIDE DEF total
  <2>5. RateOf(plan) <= gap /\ gap \in Nat /\ days \in Nat /\ releasable \in Nat
    BY <2>1, <2>2 DEF PlanAddsUp, ReleaseTypes
  <2>6. Reserve \in Nat /\ RateOf(plan) <= Reserve
    BY <2>3, <2>4, <2>5, LesserIs
  <2>7. RateOf(plan) * days <= Reserve * days /\ RateOf(plan) * days \in Nat /\ Reserve * days \in Nat
    BY <2>2, <2>5, <2>6, ProductGrows
  <2>8. drawn = Reserve * days /\ drawn <= releasable
    <3> DEFINE v == Reserve * days
    <3>1. v \in Nat /\ v <= releasable /\ drawn = Lesser(releasable, v)
      BY <2>1, <2>7 DEF ReserveLasts
    <3> HIDE DEF v
    <3>2. releasable \in Nat
      BY <2>5
    <3>3. Lesser(releasable, v) = v
      BY <3>1, <3>2, LesserIs
    <3> QED
      BY <3>1, <3>3 DEF v
  <2>9. VolumeOf(plan) <= drawn
    <3>1. VolumeOf(plan) <= RateOf(plan) * days
      BY <2>1 DEF PlanAddsUp
    <3> QED
      BY <2>2, <2>7, <2>8, <3>1
  <2> QED
    BY <2>1, <2>5, <2>8, <2>9
<1> QED
  BY <1>1, <1>2, <1>3, PTL DEF ReleaseSpec
=============================================================================
