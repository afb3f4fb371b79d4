--------------------------- MODULE SignalIngestion ---------------------------
(***************************************************************************)
(* Articles become disruption signals and risk scores:                     *)
(* ArticleSignalIngestor.ingest, SignalDetector.ingest_signal,             *)
(* RiskScoringEngine.score_and_persist and RiskPropagator.propagate of the *)
(* energy service.                                                         *)
(*                                                                         *)
(* A scan is one execution of ingest(): the background loop's, or one that *)
(* an endpoint started meanwhile.  It selects its rows in one statement    *)
(* and then works through them, a statement at a time.  A visit is GET     *)
(* /risk/entity, which scores an asset as well.  A propagation is POST     *)
(* /propagate, which stores a share of one asset's risk as the score of    *)
(* the assets related to it.  No constraint ties a signal to its article,  *)
(* and nothing locks.                                                      *)
(*                                                                         *)
(* Articles and assets are numbers: the SELECT orders its rows by them.    *)
(* Signals outlive the behaviours considered; severities and the formula   *)
(* of a risk score are left out: a score is identified by the signals, by  *)
(* article, that it was computed from; a propagated one counts none.       *)
(***************************************************************************)
EXTENDS Naturals, FiniteSets

CONSTANTS
  Article,            \* ids of articles with a high threat score
  Asset,              \* ids of energy assets
  Scan, Visit,        \* executions of ingest() and of GET /risk/entity
  Propagation,        \* executions of POST /propagate
  Propagated,         \* a score with "propagated_from" in its breakdown
  Loop,               \* the background loop's scan
  Cap,                \* MAX_ENTITIES_PER_ARTICLE
  ScanLimit,          \* ARTICLE_SCAN_LIMIT
  MaxMappings,        \* bound: changes of articles' mappings
  MaxRequests,        \* bound: executions that requests start
  MaxFaults           \* bound: failing statements and restarts

ASSUME SignalAssumption ==
  /\ IsFiniteSet(Article) /\ Article \subseteq Nat
  /\ IsFiniteSet(Asset) /\ Asset \subseteq Nat \ {0}
  /\ Scan \cap Visit = {} /\ Loop \in Scan
  /\ Propagated \notin [Article -> Nat]
  /\ Cap \in Nat \ {0} /\ ScanLimit \in Nat \ {0}
  /\ MaxMappings \in Nat /\ MaxRequests \in Nat /\ MaxFaults \in Nat

VARIABLES
  mapped,     \* energy_entity_mappings: mapped[a], the assets of article a
  signals,    \* disruption_signals: signals[e][a], rows about e from article a
  latest,     \* risk_scores: the signals of e's latest score, or Propagated
  pc,         \* next statement of a scan or visit
  todo,       \* the rows a scan has selected and not begun, <<article, asset>>
  at,         \* the asset it scores, 0 if none
  seen,       \* the signals it read for the score
  targets,    \* the related assets a propagation still has to go through
  overlapped, \* history: articles selected while another scan had them
  crossed,    \* history: scorers that missed what another one read or wrote
  outdated,   \* history: assets whose score a fault or a crossed scorer left
  mappings, requests, faults

rowVars   == <<mapped, signals, latest>>
actorVars == <<pc, todo, at, seen, targets>>
histVars  == <<overlapped, crossed, outdated>>
counters  == <<mappings, requests, faults>>
vars == <<rowVars, actorVars, histVars, counters>>

Actor == Scan \cup Visit
Row == Article \X Asset
NoSignals == [a \in Article |-> 0]

Init ==
  /\ mapped = [a \in Article |-> {}]
  /\ signals = [e \in Asset |-> NoSignals]
  /\ latest = [e \in Asset |-> NoSignals]
  /\ pc = [x \in Actor |-> "idle"]
  /\ todo = [x \in Actor |-> {}]
  /\ at = [x \in Actor |-> 0]
  /\ seen = [x \in Actor |-> NoSignals]
  /\ targets = [x \in Propagation |-> {}]
  /\ overlapped = {} /\ crossed = {} /\ outdated = {}
  /\ mappings = 0 /\ requests = 0 /\ faults = 0

\* Enrichment replaces an article's mappings in one transaction.
Map(a) ==
  /\ mappings < MaxMappings
  /\ mappings' = mappings + 1
  /\ \E S \in SUBSET Asset : mapped' = [mapped EXCEPT ![a] = S]
  /\ UNCHANGED <<signals, latest, actorVars, histVars, requests, faults>>

-----------------------------------------------------------------------------
(* ArticleSignalIngestor.ingest                                            *)

\* NOT EXISTS a signal of the article.  Faulty variants: the test is left
\* out, or any article's signal counts.
NotTested(a) == TRUE
NoneAtAll(a) == \A e \in Asset : signals[e] = NoSignals
Unsignalled(a) == \A e \in Asset : signals[e][a] = 0

Eligible == {a \in Article : mapped[a] # {} /\ Unsignalled(a)}

\* P is a first part of S of at most n elements, all of S if it has no more.
IsPart(P, S, n) == Cardinality(P) <= n /\ (P # S => Cardinality(P) = n)

\* The first Cap assets of each of at most ScanLimit articles; those with
\* the highest threat scores, any here.
Selection(R) ==
  LET chosen == {r[1] : r \in R}
      Of(a) == {e \in Asset : <<a, e>> \in R}
  IN /\ chosen \subseteq Eligible /\ IsPart(chosen, Eligible, ScanLimit)
     /\ \A a \in chosen : /\ Of(a) \subseteq mapped[a] /\ IsPart(Of(a), mapped[a], Cap)
                          /\ \A e \in Of(a), d \in mapped[a] \ Of(a) : e < d

\* Articles some scan has selected and not finished.
InProgress == {a \in Article : \E x \in Scan, e \in Asset : <<a, e>> \in todo[x]}

\* The loop's next round, or POST /ingest/news-signals or /ingest/all.
Start(x) ==
  /\ pc[x] = "idle" /\ Eligible # {}
  /\ \/ x = Loop /\ UNCHANGED requests
     \/ x # Loop /\ requests < MaxRequests /\ requests' = requests + 1
  /\ \E R \in SUBSET Row :
       /\ Selection(R)
       /\ todo' = [todo EXCEPT ![x] = R]
       /\ overlapped' = overlapped \cup {a \in InProgress : \E e \in Asset : <<a, e>> \in R}
  /\ pc' = [pc EXCEPT ![x] = "insert"]
  /\ UNCHANGED <<rowVars, at, seen, targets, crossed, outdated, mappings, faults>>

\* The scan goes on to its next row or ends.
AfterRow(x) == IF todo[x] = {} THEN "idle" ELSE "insert"

IsFirst(r, R) ==
  r \in R /\ \A q \in R : r[1] < q[1] \/ (r[1] = q[1] /\ r[2] <= q[2])

\* ingest_signal: the row, then the score.  Faulty variant: no score.
NotScored == "insert"
Scored == "read"

Insert(x) ==
  /\ pc[x] = "insert"
  /\ \E a \in Article, e \in Asset :
       /\ IsFirst(<<a, e>>, todo[x])
       /\ signals' = [signals EXCEPT ![e][a] = @ + 1]
       /\ todo' = [todo EXCEPT ![x] = @ \ {<<a, e>>}]
       /\ at' = [at EXCEPT ![x] = e]
  /\ pc' = [pc EXCEPT ![x] = Scored]
  /\ UNCHANGED <<mapped, latest, seen, targets, histVars, counters>>

\* The INSERT fails: the row is given up and logged.
InsertFails(x) ==
  /\ pc[x] = "insert" /\ faults < MaxFaults
  /\ faults' = faults + 1
  /\ \E r \in todo[x] :
       /\ IsFirst(r, todo[x])
       /\ todo' = [todo EXCEPT ![x] = @ \ {r}]
       /\ pc' = [pc EXCEPT ![x] = IF todo[x] = {r} THEN "idle" ELSE "insert"]
  /\ UNCHANGED <<rowVars, at, seen, targets, histVars, mappings, requests>>

-----------------------------------------------------------------------------
(* RiskScoringEngine                                                       *)

\* GET /risk/entity.
Visited(x) ==
  /\ pc[x] = "idle" /\ requests < MaxRequests
  /\ requests' = requests + 1
  /\ \E e \in Asset : at' = [at EXCEPT ![x] = e]
  /\ pc' = [pc EXCEPT ![x] = "read"]
  /\ UNCHANGED <<rowVars, todo, seen, targets, histVars, mappings, faults>>

\* Scorers of e that have read its signals and not stored the score.
Reading(e) == {x \in Actor : pc[x] = "persist" /\ at[x] = e}

\* score_entity reads the signals; then it asks the ML platform, which may
\* take long.
Read(x) ==
  /\ pc[x] = "read"
  /\ seen' = [seen EXCEPT ![x] = signals[at[x]]]
  /\ pc' = [pc EXCEPT ![x] = "persist"]
  /\ crossed' = IF Reading(at[x]) = {} THEN crossed
                ELSE crossed \cup Reading(at[x]) \cup {x}
  /\ UNCHANGED <<rowVars, todo, at, targets, overlapped, outdated, counters>>

ScoringEnds(x) ==
  /\ pc' = [pc EXCEPT ![x] = AfterRow(x)]
  /\ at' = [at EXCEPT ![x] = 0]
  /\ seen' = [seen EXCEPT ![x] = NoSignals]

\* persist_score of the overall score.
Persist(x) ==
  /\ pc[x] = "persist"
  /\ latest' = [latest EXCEPT ![at[x]] = seen[x]]
  /\ outdated' = IF x \in crossed THEN outdated \cup {at[x]} ELSE outdated \ {at[x]}
  /\ crossed' = crossed \ {x}
  /\ ScoringEnds(x)
  /\ UNCHANGED <<mapped, signals, todo, targets, overlapped, counters>>

\* Assets for which a scan has stored a signal and no score yet.
Unscored(x) == IF x \in Scan /\ pc[x] \in {"read", "persist"} THEN {at[x]} ELSE {}

\* A statement of the scoring fails.
ScoringFails(x) ==
  /\ pc[x] \in {"read", "persist"} /\ faults < MaxFaults
  /\ faults' = faults + 1
  /\ outdated' = outdated \cup Unscored(x)
  /\ crossed' = (crossed \cup UNION {Reading(e) : e \in Unscored(x)}) \ {x}
  /\ ScoringEnds(x)
  /\ UNCHANGED <<rowVars, todo, targets, overlapped, mappings, requests>>

-----------------------------------------------------------------------------
(* RiskPropagator                                                          *)

otherVars == <<mapped, signals, pc, todo, at, seen, histVars, mappings>>

\* POST /propagate reads the assets related to its source, any here.
Propagate(x) ==
  /\ targets[x] = {} /\ requests < MaxRequests
  /\ requests' = requests + 1
  /\ \E T \in SUBSET Asset : targets' = [targets EXCEPT ![x] = T]
  /\ UNCHANGED <<otherVars, latest, faults>>

\* persist_score of one related asset's overall score: a share of the
\* source's risk, whatever the asset's own signals.  An asset with several
\* relationships is written for each.
Spread(x) ==
  /\ \E e \in targets[x] :
       /\ latest' = [latest EXCEPT ![e] = Propagated]
       /\ \E T \in {targets[x], targets[x] \ {e}} : targets' = [targets EXCEPT ![x] = T]
  /\ UNCHANGED <<otherVars, requests, faults>>

\* A statement of the propagation fails: the other assets keep their scores.
SpreadFails(x) ==
  /\ targets[x] # {} /\ faults < MaxFaults
  /\ faults' = faults + 1
  /\ targets' = [targets EXCEPT ![x] = {}]
  /\ UNCHANGED <<otherVars, latest, requests>>

-----------------------------------------------------------------------------
\* The service is killed and started again.
Restart ==
  /\ (\E x \in Actor : pc[x] # "idle") \/ (\E x \in Propagation : targets[x] # {})
  /\ faults < MaxFaults
  /\ faults' = faults + 1
  /\ outdated' = outdated \cup UNION {Unscored(x) : x \in Scan}
  /\ crossed' = {}
  /\ pc' = [x \in Actor |-> "idle"]
  /\ todo' = [x \in Actor |-> {}]
  /\ at' = [x \in Actor |-> 0]
  /\ seen' = [x \in Actor |-> NoSignals]
  /\ targets' = [x \in Propagation |-> {}]
  /\ UNCHANGED <<rowVars, overlapped, mappings, requests>>

Step(x) == Insert(x) \/ Read(x) \/ Persist(x)

Next ==
  \/ \E a \in Article : Map(a)
  \/ \E x \in Scan : Start(x) \/ Insert(x) \/ InsertFails(x)
  \/ \E x \in Visit : Visited(x)
  \/ \E x \in Actor : Read(x) \/ Persist(x) \/ ScoringFails(x)
  \/ \E x \in Propagation : Propagate(x) \/ Spread(x) \/ SpreadFails(x)
  \/ Restart

\* The event loop serves every task, and the background loop never stops.
Fairness ==
  /\ WF_vars(Start(Loop))
  /\ \A x \in Actor : WF_vars(Step(x))

Spec == Init /\ [][Next]_vars /\ Fairness
-----------------------------------------------------------------------------
\* A scan between rows has a row left, a scorer has an asset, and only a
\* scorer that has read has seen signals.
RelationsOK ==
  \A x \in Actor :
    /\ x \in Visit => pc[x] # "insert" /\ todo[x] = {}
    /\ pc[x] = "idle" => todo[x] = {}
    /\ pc[x] = "insert" => todo[x] # {}
    /\ (at[x] # 0) <=> (pc[x] \in {"read", "persist"})
    /\ pc[x] # "persist" => seen[x] = NoSignals /\ x \notin crossed

\* The types of the variables and what goes with a scan's or visit's place.
TypeOK ==
  /\ mapped \in [Article -> SUBSET Asset]
  /\ signals \in [Asset -> [Article -> Nat]]
  /\ latest \in [Asset -> [Article -> Nat] \cup {Propagated}]
  /\ pc \in [Actor -> {"idle", "insert", "read", "persist"}]
  /\ todo \in [Actor -> SUBSET Row]
  /\ at \in [Actor -> Asset \cup {0}]
  /\ seen \in [Actor -> [Article -> Nat]]
  /\ targets \in [Propagation -> SUBSET Asset]
  /\ RelationsOK
  /\ overlapped \subseteq Article /\ crossed \subseteq Actor /\ outdated \subseteq Asset
  /\ mappings \in Nat /\ requests \in Nat /\ faults \in Nat

\* ingest()'s docstring: "one real disruption_signals row per (article,
\* matched entity) pair, capped per article".  It holds, through failures,
\* restarts and changes of the mappings, for every article that no two scans
\* had at once.
OneSignalPerPair ==
  \A a \in Article \ overlapped :
    /\ \A e \in Asset : signals[e][a] <= 1
    /\ Cardinality({e \in Asset : signals[e][a] > 0}) <= Cap

\* The latest score of an asset counts every article's signal about it,
\* unless a scan is about to store one, or the last one was stored by a scorer
\* that another overlapped or a failure hit the scoring, or a propagation put
\* its own score in front and the asset has not been scored since.
ScoreIsCurrent ==
  \A e \in Asset :
    \/ latest[e] \in {signals[e], Propagated}
    \/ \E x \in Scan : e \in Unscored(x)
    \/ e \in outdated

\* An article that is mapped to assets gets a signal, whatever fails a
\* bounded number of times, unless its mappings are withdrawn.
EveryArticleSignalled ==
  \A a \in Article :
    mapped[a] # {} ~> \/ \E e \in Asset : signals[e][a] > 0
                      \/ mapped[a] = {}
=============================================================================
