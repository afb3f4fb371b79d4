----------------------- MODULE SignalIngestion_proofs -----------------------
(***************************************************************************)
(* Theorems about SignalIngestion: what overlapping scans and scorers can  *)
(* and cannot do to the signals and scores, for any number of each.        *)
(***************************************************************************)
EXTENDS SignalIngestion, FiniteSetTheorems, TLAPS

\* The initial types.
LEMMA InitTypeOK == Init => TypeOK
BY SignalAssumption DEF Init, TypeOK, RelationsOK, Actor, NoSignals

\* Every step keeps the types.
LEMMA TypeInductive == TypeOK /\ [Next]_vars => TypeOK'
<1> SUFFICES ASSUME TypeOK, [Next]_vars
             PROVE  TypeOK'
  OBVIOUS
<1> USE SignalAssumption DEF Actor, NoSignals, RelationsOK
<1>1. ASSUME NEW a \in Article, Map(a)
      PROVE  TypeOK'
  BY <1>1 DEF Map, TypeOK, actorVars, histVars
<1>2. ASSUME NEW x \in Scan, Start(x)
      PROVE  TypeOK'
  <2>1. PICK R \in SUBSET Row :
          /\ Selection(R)
          /\ todo' = [todo EXCEPT ![x] = R]
          /\ overlapped' = overlapped \cup {a \in InProgress : \E e \in Asset : <<a, e>> \in R}
    BY <1>2 DEF Start
  <2>2. R # {}
    <3>1. CASE R = {}
      <4>1. {r[1] : r \in R} = {}
        BY <3>1
      <4>2. IsPart({}, Eligible, ScanLimit)
        BY <2>1, <4>1 DEF Selection
      <4>3. Cardinality({}) = ScanLimit
        BY <4>2, <1>2 DEF IsPart, Start
      <4>. QED  BY <4>3, FS_EmptySet
    <3>. QED  BY <3>1
  <2>3. overlapped' \subseteq Article
    BY <2>1 DEF TypeOK, InProgress
  <2>4. todo' \in [Actor -> SUBSET Row]
    BY <2>1 DEF TypeOK
  <2>5. /\ pc' = [pc EXCEPT ![x] = "insert"] /\ pc[x] = "idle"
        /\ mapped' = mapped /\ signals' = signals /\ latest' = latest
        /\ targets' = targets /\ at' = at /\ seen' = seen /\ crossed' = crossed /\ outdated' = outdated
        /\ mappings' = mappings /\ faults' = faults
    BY <1>2 DEF Start, rowVars
  <2>6. requests' \in Nat
    BY <1>2 DEF Start, TypeOK
  <2>7. x \notin Visit /\ x \in Actor /\ x \notin crossed /\ at[x] = 0 /\ seen[x] = NoSignals
    BY <2>5 DEF TypeOK
  <2>. HIDE DEF NoSignals
  <2>8. RelationsOK'
    <3>. SUFFICES ASSUME NEW y \in Actor
                  PROVE  (/\ y \in Visit => pc[y] # "insert" /\ todo[y] = {}
                          /\ pc[y] = "idle" => todo[y] = {}
                          /\ pc[y] = "insert" => todo[y] # {}
                          /\ (at[y] # 0) <=> (pc[y] \in {"read", "persist"})
                          /\ pc[y] # "persist" => seen[y] = NoSignals /\ y \notin crossed)'
      BY DEF NoSignals
    <3>1. CASE y = x
      BY <2>1, <2>2, <2>5, <2>7, <3>1 DEF TypeOK
    <3>2. CASE y # x
      BY <2>1, <2>5, <3>2 DEF TypeOK
    <3>. QED  BY <3>1, <3>2
  <2>. QED  BY <2>3, <2>4, <2>5, <2>6, <2>7, <2>8 DEF TypeOK
<1>3. ASSUME NEW x \in Scan, Insert(x)
      PROVE  TypeOK'
  <2>1. PICK a \in Article, e \in Asset :
          /\ IsFirst(<<a, e>>, todo[x])
          /\ signals' = [signals EXCEPT ![e][a] = @ + 1]
          /\ todo' = [todo EXCEPT ![x] = @ \ {<<a, e>>}]
          /\ at' = [at EXCEPT ![x] = e]
    BY <1>3 DEF Insert
  <2>2. signals' \in [Asset -> [Article -> Nat]]
    BY <2>1 DEF TypeOK
  <2>3. /\ pc' = [pc EXCEPT ![x] = "read"] /\ pc[x] = "insert"
        /\ mapped' = mapped /\ latest' = latest /\ seen' = seen /\ targets' = targets
        /\ UNCHANGED <<overlapped, crossed, outdated, mappings, requests, faults>>
    BY <1>3 DEF Insert, Scored, histVars, counters
  <2>4. x \notin Visit /\ x \in Actor
    OBVIOUS
  <2>. HIDE DEF NoSignals
  <2>5. RelationsOK'
    BY <2>1, <2>3, <2>4 DEF TypeOK
  <2>6. todo' \in [Actor -> SUBSET Row] /\ at' \in [Actor -> Asset \cup {0}]
    BY <2>1 DEF TypeOK
  <2>. QED  BY <2>2, <2>3, <2>5, <2>6 DEF TypeOK
<1>4. ASSUME NEW x \in Scan, InsertFails(x)
      PROVE  TypeOK'
  <2>1. PICK r \in todo[x] :
          /\ todo' = [todo EXCEPT ![x] = @ \ {r}]
          /\ pc' = [pc EXCEPT ![x] = IF todo[x] = {r} THEN "idle" ELSE "insert"]
    BY <1>4 DEF InsertFails
  <2>2. /\ pc[x] = "insert" /\ faults' = faults + 1
        /\ UNCHANGED <<mapped, signals, latest, at, seen, targets, overlapped, crossed, outdated,
                       mappings, requests>>
    BY <1>4 DEF InsertFails, rowVars, histVars
  <2>3. x \notin Visit /\ x \in Actor
    OBVIOUS
  <2>. HIDE DEF NoSignals
  <2>4. RelationsOK'
    BY <2>1, <2>2, <2>3 DEF TypeOK
  <2>5. todo' \in [Actor -> SUBSET Row] /\ pc' \in [Actor -> {"idle", "insert", "read", "persist"}]
    BY <2>1 DEF TypeOK
  <2>. QED  BY <2>2, <2>4, <2>5 DEF TypeOK
<1>5. ASSUME NEW x \in Visit, Visited(x)
      PROVE  TypeOK'
  <2>1. PICK e \in Asset : at' = [at EXCEPT ![x] = e]
    BY <1>5 DEF Visited
  <2>2. /\ pc[x] = "idle" /\ pc' = [pc EXCEPT ![x] = "read"] /\ requests' = requests + 1
        /\ UNCHANGED <<mapped, signals, latest, todo, seen, targets, overlapped, crossed, outdated,
                       mappings, faults>>
    BY <1>5 DEF Visited, rowVars, histVars
  <2>3. x \in Actor
    OBVIOUS
  <2>. HIDE DEF NoSignals
  <2>4. RelationsOK'
    BY <2>1, <2>2, <2>3 DEF TypeOK
  <2>5. at' \in [Actor -> Asset \cup {0}] /\ pc' \in [Actor -> {"idle", "insert", "read", "persist"}]
    BY <2>1, <2>2 DEF TypeOK
  <2>. QED  BY <2>2, <2>4, <2>5 DEF TypeOK
<1>6. ASSUME NEW x \in Actor, Read(x)
      PROVE  TypeOK'
  BY <1>6 DEF Read, Reading, TypeOK, rowVars, counters
<1>7. ASSUME NEW x \in Actor, Persist(x)
      PROVE  TypeOK'
  BY <1>7 DEF Persist, ScoringEnds, AfterRow, TypeOK, counters
<1>8. ASSUME NEW x \in Actor, ScoringFails(x)
      PROVE  TypeOK'
  BY <1>8 DEF ScoringFails, ScoringEnds, AfterRow, Unscored, Reading, TypeOK, rowVars
<1>9. ASSUME Restart
      PROVE  TypeOK'
  <2>1. UNION {Unscored(x) : x \in Scan} \subseteq Asset
    <3>. SUFFICES ASSUME NEW x \in Scan
                  PROVE  Unscored(x) \subseteq Asset
      OBVIOUS
    <3>. QED  BY DEF Unscored, TypeOK
  <2>2. outdated' \subseteq Asset
    BY <1>9, <2>1 DEF Restart, TypeOK
  <2>. QED  BY <1>9, <2>2 DEF Restart, TypeOK, rowVars
<1>10. CASE UNCHANGED vars
  BY <1>10 DEF TypeOK, vars, rowVars, actorVars, histVars, counters
<1>11. ASSUME NEW x \in Propagation, Propagate(x) \/ Spread(x) \/ SpreadFails(x)
       PROVE  TypeOK'
  <2>1. targets' \in [Propagation -> SUBSET Asset]
    <3>1. targets \in [Propagation -> SUBSET Asset]
      BY DEF TypeOK
    <3>2. PICK T \in SUBSET Asset : targets' = [targets EXCEPT ![x] = T]
      BY <1>11, <3>1 DEF Propagate, Spread, SpreadFails
    <3>. QED  BY <3>1, <3>2
  <2>2. latest' \in [Asset -> [Article -> Nat] \cup {Propagated}]
    BY <1>11 DEF Propagate, Spread, SpreadFails, TypeOK
  <2>3. requests' \in Nat /\ faults' \in Nat
    BY <1>11 DEF Propagate, Spread, SpreadFails, TypeOK
  <2>4. UNCHANGED <<mapped, signals, pc, todo, at, seen, overlapped, crossed, outdated, mappings>>
    BY <1>11 DEF Propagate, Spread, SpreadFails, otherVars, histVars
  <2>. HIDE DEF NoSignals
  <2>. QED  BY <2>1, <2>2, <2>3, <2>4 DEF TypeOK
<1>. QED
  BY <1>1, <1>2, <1>3, <1>4, <1>5, <1>6, <1>7, <1>8, <1>9, <1>10, <1>11 DEF Next

\* The types of SignalIngestion hold in every behaviour.
THEOREM TypeCorrect == Spec => []TypeOK
<1>1. Init => TypeOK
  BY InitTypeOK
<1>2. TypeOK /\ [Next]_vars => TypeOK'
  BY TypeInductive
<1>. QED  BY <1>1, <1>2, PTL DEF Spec

-----------------------------------------------------------------------------
(* One signal per article and asset                                        *)

\* Assets of article a that have a signal, and those in a scan's rows.
Signalled(a) == {e \in Asset : signals[e][a] > 0}
Selected(a, x) == {e \in Asset : <<a, e>> \in todo[x]}
Claimed(a) == Signalled(a) \cup {e \in Asset : \E x \in Scan : <<a, e>> \in todo[x]}

\* OneSignalPerPair is not inductive: a row that a scan still has must have
\* no signal yet, no two scans may have rows of the article, and what is
\* signalled and selected together stays within the cap.
PairInv(a) ==
  /\ \A e \in Asset : signals[e][a] <= 1
  /\ \A x \in Scan, e \in Asset : <<a, e>> \in todo[x] => signals[e][a] = 0
  /\ \A x, y \in Scan : x = y \/ Selected(a, x) = {} \/ Selected(a, y) = {}
  /\ Cardinality(Claimed(a)) <= Cap

\* The cap survives whatever claims no further asset.
LEMMA ClaimedShrinks ==
  ASSUME NEW a \in Article, Claimed(a)' \subseteq Claimed(a), Cardinality(Claimed(a)) <= Cap
  PROVE  Cardinality(Claimed(a)') <= Cap
<1>1. IsFiniteSet(Claimed(a))
  <2>1. Claimed(a) \subseteq Asset
    BY DEF Claimed, Signalled
  <2>. QED  BY <2>1, SignalAssumption, FS_Subset
<1>2. /\ Cardinality(Claimed(a)') <= Cardinality(Claimed(a))
      /\ Cardinality(Claimed(a)') \in Nat /\ Cardinality(Claimed(a)) \in Nat
  BY <1>1, FS_Subset, FS_CardinalityType
<1>. QED  BY <1>2, SignalAssumption

\* Rows are only dropped and signals stay: the invariant stays.
LEMMA PairInvOfFewerRows ==
  ASSUME NEW a \in Article, PairInv(a), signals' = signals,
         \A x \in Scan : todo'[x] \subseteq todo[x]
  PROVE  PairInv(a)'
<1>1. Claimed(a)' \subseteq Claimed(a)
  BY DEF Claimed, Signalled
<1>2. Cardinality(Claimed(a)') <= Cap
  BY <1>1, ClaimedShrinks DEF PairInv
<1>3. \A x, y \in Scan : x = y \/ Selected(a, x)' = {} \/ Selected(a, y)' = {}
  BY DEF PairInv, Selected
<1>. QED  BY <1>2, <1>3 DEF PairInv

\* Every step keeps the invariant for the articles that were not overlapped.
LEMMA PairInductive ==
  ASSUME NEW a \in Article, TypeOK, [Next]_vars,
         a \notin overlapped => PairInv(a), a \notin overlapped'
  PROVE  PairInv(a)'
<1>1. PairInv(a)
  BY DEF Next, vars, histVars, Map, Start, Insert, InsertFails, Visited, Read, Persist,
     ScoringFails, Restart, Propagate, Spread, SpreadFails, otherVars
<1>2. Scan \subseteq Actor
  BY DEF Actor
<1>3. ASSUME NEW b \in Article, Map(b)
      PROVE  PairInv(a)'
  BY <1>1, <1>3, PairInvOfFewerRows DEF Map, actorVars
<1>4. ASSUME NEW x \in Scan, Start(x)
      PROVE  PairInv(a)'
  <2>1. PICK R \in SUBSET Row :
          /\ Selection(R)
          /\ todo' = [todo EXCEPT ![x] = R]
          /\ overlapped' = overlapped \cup {b \in InProgress : \E e \in Asset : <<b, e>> \in R}
    BY <1>4 DEF Start
  <2>2. signals' = signals /\ todo[x] = {}
    BY <1>2, <1>4 DEF Start, rowVars, TypeOK, RelationsOK
  <2>3. /\ todo'[x] = R
        /\ \A y \in Scan : y # x => todo'[y] = todo[y]
    BY <1>2, <2>1 DEF TypeOK
  <2>4. CASE \E e \in Asset : <<a, e>> \in R
    <3>1. a \notin InProgress
      BY <2>1, <2>4
    <3>2. \A y \in Scan, e \in Asset : <<a, e>> \notin todo[y]
      BY <3>1 DEF InProgress
    <3>3. a \in {r[1] : r \in R}
      BY <2>4
    <3>4. /\ a \in Eligible
          /\ IsPart({e \in Asset : <<a, e>> \in R}, mapped[a], Cap)
      BY <2>1, <3>3 DEF Selection
    <3>5. \A e \in Asset : signals'[e][a] = 0
      BY <2>2, <3>4 DEF Eligible, Unsignalled
    <3>6. Claimed(a)' = {e \in Asset : <<a, e>> \in R}
      BY <2>3, <3>2, <3>5 DEF Claimed, Signalled
    <3>7. Cardinality(Claimed(a)') <= Cap
      BY <3>4, <3>6 DEF IsPart
    <3>8. \A y, z \in Scan : y = z \/ Selected(a, y)' = {} \/ Selected(a, z)' = {}
      BY <2>3, <3>2 DEF Selected
    <3>. QED  BY <3>5, <3>7, <3>8 DEF PairInv
  <2>5. CASE ~ \E e \in Asset : <<a, e>> \in R
    <3>1. \A y \in Scan, e \in Asset : <<a, e>> \in todo'[y] <=> <<a, e>> \in todo[y]
      BY <2>2, <2>3, <2>5
    <3>2. Claimed(a)' = Claimed(a)
      BY <2>2, <3>1 DEF Claimed, Signalled
    <3>3. \A y \in Scan : Selected(a, y)' = Selected(a, y)
      BY <3>1 DEF Selected
    <3>. QED  BY <1>1, <2>2, <3>1, <3>2, <3>3 DEF PairInv
  <2>. QED  BY <2>4, <2>5
<1>5. ASSUME NEW x \in Scan, Insert(x)
      PROVE  PairInv(a)'
  <2>1. PICK b \in Article, e \in Asset :
          /\ <<b, e>> \in todo[x]
          /\ signals' = [signals EXCEPT ![e][b] = @ + 1]
          /\ todo' = [todo EXCEPT ![x] = @ \ {<<b, e>>}]
    BY <1>5 DEF Insert, IsFirst
  <2>2. /\ \A d \in Asset, c \in Article :
             signals'[d][c] = IF d = e /\ c = b THEN signals[d][c] + 1 ELSE signals[d][c]
        /\ \A d \in Asset : signals[d][a] \in Nat
    BY <2>1 DEF TypeOK
  <2>3. /\ todo'[x] = todo[x] \ {<<b, e>>}
        /\ \A y \in Scan : y # x => todo'[y] = todo[y]
    BY <1>2, <2>1 DEF TypeOK
  <2>4. CASE b = a
    <3>1. e \in Selected(a, x)
      BY <2>1, <2>4 DEF Selected
    <3>2. \A y \in Scan : y # x => Selected(a, y) = {}
      BY <1>1, <3>1 DEF PairInv
    <3>3. \A y \in Scan : <<a, e>> \notin todo'[y]
      BY <2>3, <2>4, <3>2 DEF Selected
    <3>4. signals[e][a] = 0
      BY <1>1, <2>1, <2>4 DEF PairInv
    <3>5. \A d \in Asset : signals'[d][a] <= 1
      BY <1>1, <2>2, <2>4, <3>4 DEF PairInv
    <3>6. \A y \in Scan, d \in Asset : <<a, d>> \in todo'[y] => signals'[d][a] = 0
      BY <1>1, <2>2, <2>3, <3>3 DEF PairInv
    <3>7. Claimed(a)' \subseteq Claimed(a)
      <4>. SUFFICES ASSUME NEW d \in Asset, d # e, d \in Claimed(a)'
                    PROVE  d \in Claimed(a)
        BY <2>1, <2>4 DEF Claimed, Signalled
      <4>1. CASE signals'[d][a] > 0
        BY <2>2, <4>1 DEF Claimed, Signalled
      <4>2. CASE \E y \in Scan : <<a, d>> \in todo'[y]
        BY <2>3, <4>2 DEF Claimed
      <4>. QED  BY <4>1, <4>2 DEF Claimed, Signalled
    <3>8. \A y, z \in Scan : y = z \/ Selected(a, y)' = {} \/ Selected(a, z)' = {}
      BY <2>3, <3>2 DEF Selected
    <3>9. Cardinality(Claimed(a)') <= Cap
      BY <1>1, <3>7, ClaimedShrinks DEF PairInv
    <3>. QED  BY <3>5, <3>6, <3>8, <3>9 DEF PairInv
  <2>5. CASE b # a
    <3>1. \A d \in Asset : signals'[d][a] = signals[d][a]
      BY <2>2, <2>5
    <3>2. \A y \in Scan, d \in Asset : <<a, d>> \in todo'[y] <=> <<a, d>> \in todo[y]
      BY <2>3, <2>5
    <3>3. Claimed(a)' = Claimed(a)
      BY <3>1, <3>2 DEF Claimed, Signalled
    <3>4. \A y \in Scan : Selected(a, y)' = Selected(a, y)
      BY <3>2 DEF Selected
    <3>. QED  BY <1>1, <3>1, <3>2, <3>3, <3>4 DEF PairInv
  <2>. QED  BY <2>4, <2>5
<1>6. ASSUME NEW x \in Scan, InsertFails(x)
      PROVE  PairInv(a)'
  <2>1. signals' = signals /\ \A y \in Scan : todo'[y] \subseteq todo[y]
    BY <1>2, <1>6 DEF InsertFails, rowVars, TypeOK
  <2>. QED  BY <1>1, <2>1, PairInvOfFewerRows
<1>7. ASSUME NEW x \in Visit, Visited(x)
      PROVE  PairInv(a)'
  BY <1>1, <1>7, PairInvOfFewerRows DEF Visited, rowVars
<1>8. ASSUME NEW x \in Actor, Read(x) \/ Persist(x) \/ ScoringFails(x)
      PROVE  PairInv(a)'
  BY <1>1, <1>8, PairInvOfFewerRows DEF Read, Persist, ScoringFails, rowVars
<1>9. ASSUME Restart
      PROVE  PairInv(a)'
  <2>1. signals' = signals /\ \A y \in Scan : todo'[y] \subseteq todo[y]
    BY <1>2, <1>9 DEF Restart, rowVars, TypeOK
  <2>. QED  BY <1>1, <2>1, PairInvOfFewerRows
<1>10. CASE UNCHANGED vars
  BY <1>1, <1>10, PairInvOfFewerRows DEF vars, rowVars, actorVars
<1>11. ASSUME NEW x \in Propagation, Propagate(x) \/ Spread(x) \/ SpreadFails(x)
       PROVE  PairInv(a)'
  BY <1>1, <1>11, PairInvOfFewerRows DEF Propagate, Spread, SpreadFails, otherVars
<1>. QED
  BY <1>3, <1>4, <1>5, <1>6, <1>7, <1>8, <1>9, <1>10, <1>11 DEF Next

\* However many scans run and whatever fails, an article that no two scans
\* had at once has at most one signal per asset and at most Cap of them.
THEOREM OneSignal == Spec => []OneSignalPerPair
<1> DEFINE Inv == TypeOK /\ \A a \in Article \ overlapped : PairInv(a)
<1>1. Init => Inv
  <2> SUFFICES ASSUME Init, NEW a \in Article
               PROVE  PairInv(a)
    BY InitTypeOK
  <2>1. \A e \in Asset : signals[e][a] = 0
    BY DEF Init, NoSignals
  <2>2. \A x \in Scan : todo[x] = {}
    BY DEF Init, Actor
  <2>3. Claimed(a) = {} /\ \A x \in Scan : Selected(a, x) = {}
    BY <2>1, <2>2 DEF Claimed, Signalled, Selected
  <2>4. Cardinality(Claimed(a)) <= Cap
    BY <2>3, FS_EmptySet, SignalAssumption
  <2>. QED  BY <2>1, <2>2, <2>3, <2>4 DEF PairInv
<1>2. Inv /\ [Next]_vars => Inv'
  BY TypeInductive, PairInductive
<1>3. Inv => OneSignalPerPair
  <2> SUFFICES ASSUME Inv, NEW a \in Article \ overlapped
               PROVE  Cardinality(Signalled(a)) <= Cap
    BY DEF OneSignalPerPair, PairInv, Signalled
  <2>1. Signalled(a) \subseteq Claimed(a) /\ Claimed(a) \subseteq Asset
    BY DEF Claimed, Signalled
  <2>2. IsFiniteSet(Claimed(a))
    BY <2>1, SignalAssumption, FS_Subset
  <2>3. /\ Cardinality(Signalled(a)) <= Cardinality(Claimed(a))
        /\ Cardinality(Signalled(a)) \in Nat /\ Cardinality(Claimed(a)) \in Nat
    BY <2>1, <2>2, FS_Subset, FS_CardinalityType
  <2>. QED  BY <2>3, SignalAssumption DEF PairInv
<1>. QED  BY <1>1, <1>2, <1>3, PTL DEF Spec

-----------------------------------------------------------------------------
(* Scores follow signals                                                   *)

\* What an undisturbed scorer has read is all there is, or a scan that has
\* stored another signal is about to read.
SeenIsCurrent ==
  \A x \in Actor, e \in Asset :
    pc[x] = "persist" /\ at[x] = e /\ x \notin crossed
      => seen[x] = signals[e] \/ \E y \in Scan : pc[y] = "read" /\ at[y] = e

\* ScoreIsCurrent with the invariant that makes it inductive.
LEMMA ScoreInductive ==
  TypeOK /\ ScoreIsCurrent /\ SeenIsCurrent /\ [Next]_vars => (ScoreIsCurrent /\ SeenIsCurrent)'
<1> SUFFICES ASSUME TypeOK, ScoreIsCurrent, SeenIsCurrent, [Next]_vars
             PROVE  (ScoreIsCurrent /\ SeenIsCurrent)'
  OBVIOUS
<1>0. Scan \subseteq Actor
  BY DEF Actor
<1>1. ASSUME NEW a \in Article, Map(a)
      PROVE  (ScoreIsCurrent /\ SeenIsCurrent)'
  BY <1>1 DEF Map, actorVars, histVars, ScoreIsCurrent, SeenIsCurrent, Unscored
<1>2. ASSUME NEW x \in Scan, Start(x)
      PROVE  (ScoreIsCurrent /\ SeenIsCurrent)'
  BY <1>0, <1>2 DEF Start, rowVars, ScoreIsCurrent, SeenIsCurrent, Unscored, TypeOK
<1>3. ASSUME NEW x \in Scan, Insert(x)
      PROVE  (ScoreIsCurrent /\ SeenIsCurrent)'
  <2>1. PICK b \in Article, d \in Asset :
          /\ signals' = [signals EXCEPT ![d][b] = @ + 1]
          /\ at' = [at EXCEPT ![x] = d]
    BY <1>3 DEF Insert
  <2>2. \A e \in Asset : e # d => signals'[e] = signals[e]
    BY <2>1 DEF TypeOK
  <2>3. /\ pc[x] = "insert" /\ pc' = [pc EXCEPT ![x] = "read"]
        /\ UNCHANGED <<latest, seen, crossed, outdated>>
    BY <1>3 DEF Insert, Scored, histVars
  <2>4. /\ pc'[x] = "read" /\ at'[x] = d
        /\ \A y \in Actor : y # x => pc'[y] = pc[y] /\ at'[y] = at[y]
    BY <1>0, <2>1, <2>3 DEF TypeOK
  <2>5. ScoreIsCurrent'
    BY <1>0, <2>2, <2>3, <2>4 DEF ScoreIsCurrent, Unscored
  <2>6. SeenIsCurrent'
    BY <1>0, <2>2, <2>3, <2>4 DEF SeenIsCurrent
  <2>. QED  BY <2>5, <2>6
<1>4. ASSUME NEW x \in Scan, InsertFails(x)
      PROVE  (ScoreIsCurrent /\ SeenIsCurrent)'
  <2>1. /\ pc[x] = "insert" /\ pc'[x] \in {"idle", "insert"}
        /\ \A y \in Actor : y # x => pc'[y] = pc[y]
        /\ UNCHANGED <<latest, signals, seen, at, crossed, outdated>>
    BY <1>0, <1>4 DEF InsertFails, rowVars, histVars, TypeOK
  <2>. QED  BY <1>0, <2>1 DEF ScoreIsCurrent, SeenIsCurrent, Unscored
<1>5. ASSUME NEW x \in Visit, Visited(x)
      PROVE  (ScoreIsCurrent /\ SeenIsCurrent)'
  <2>1. /\ pc[x] = "idle" /\ pc'[x] = "read" /\ x \notin Scan
        /\ \A y \in Actor : y # x => pc'[y] = pc[y] /\ at'[y] = at[y]
        /\ UNCHANGED <<latest, signals, seen, crossed, outdated>>
    BY <1>5, SignalAssumption DEF Visited, rowVars, histVars, TypeOK, Actor
  <2>. QED  BY <1>0, <2>1 DEF ScoreIsCurrent, SeenIsCurrent, Unscored
<1>6. ASSUME NEW x \in Actor, Read(x)
      PROVE  (ScoreIsCurrent /\ SeenIsCurrent)'
  <2>1. /\ pc[x] = "read" /\ pc'[x] = "persist" /\ at[x] \in Asset
        /\ seen'[x] = signals[at[x]]
        /\ \A y \in Actor : y # x => pc'[y] = pc[y] /\ seen'[y] = seen[y]
        /\ UNCHANGED <<latest, signals, at, outdated>>
        /\ crossed \subseteq crossed'
        /\ Reading(at[x]) \subseteq crossed'
    BY <1>6 DEF Read, rowVars, TypeOK, RelationsOK
  <2>2. ScoreIsCurrent'
    BY <1>0, <2>1 DEF ScoreIsCurrent, Unscored
  <2>3. SeenIsCurrent'
    <3> SUFFICES ASSUME NEW y \in Actor, NEW e \in Asset,
                        pc'[y] = "persist", at[y] = e, y \notin crossed'
                 PROVE  seen'[y] = signals[e] \/ \E z \in Scan : pc'[z] = "read" /\ at[z] = e
      BY <2>1 DEF SeenIsCurrent
    <3>1. CASE y = x
      BY <2>1, <3>1
    <3>2. CASE y # x
      <4>1. e # at[x]
        BY <2>1, <3>2 DEF Reading
      <4>. QED  BY <1>0, <2>1, <3>2, <4>1 DEF SeenIsCurrent
    <3>. QED  BY <3>1, <3>2
  <2>. QED  BY <2>2, <2>3
<1>7. ASSUME NEW x \in Actor, Persist(x)
      PROVE  (ScoreIsCurrent /\ SeenIsCurrent)'
  <2>1. /\ pc[x] = "persist" /\ pc'[x] \in {"idle", "insert"} /\ at[x] \in Asset /\ at'[x] = 0
        /\ \A y \in Actor : y # x => pc'[y] = pc[y] /\ at'[y] = at[y] /\ seen'[y] = seen[y]
        /\ signals' = signals /\ crossed' = crossed \ {x}
        /\ latest'[at[x]] = seen[x]
        /\ \A e \in Asset : e # at[x] => latest'[e] = latest[e]
    BY <1>7 DEF Persist, ScoringEnds, AfterRow, TypeOK, RelationsOK
  <2>2. outdated' = IF x \in crossed THEN outdated \cup {at[x]} ELSE outdated \ {at[x]}
    BY <1>7 DEF Persist
  <2>3. SeenIsCurrent'
    BY <1>0, <2>1, SignalAssumption DEF SeenIsCurrent
  <2>4. ScoreIsCurrent'
    <3> SUFFICES ASSUME NEW e \in Asset
                 PROVE  \/ latest'[e] \in {signals[e], Propagated}
                        \/ \E y \in Scan : e \in Unscored(y)'
                        \/ e \in outdated'
      BY <2>1 DEF ScoreIsCurrent
    <3>1. CASE e # at[x]
      BY <1>0, <2>1, <2>2, <3>1 DEF ScoreIsCurrent, Unscored
    <3>2. CASE e = at[x] /\ x \in crossed
      BY <2>2, <3>2
    <3>3. CASE e = at[x] /\ x \notin crossed
      <4>1. seen[x] = signals[e] \/ \E y \in Scan : pc[y] = "read" /\ at[y] = e
        BY <2>1, <3>3 DEF SeenIsCurrent
      <4>. QED  BY <1>0, <2>1, <3>3, <4>1 DEF Unscored
    <3>. QED  BY <3>1, <3>2, <3>3
  <2>. QED  BY <2>3, <2>4
<1>8. ASSUME NEW x \in Actor, ScoringFails(x)
      PROVE  (ScoreIsCurrent /\ SeenIsCurrent)'
  <2>1. /\ pc[x] \in {"read", "persist"} /\ pc'[x] \in {"idle", "insert"} /\ at'[x] = 0
        /\ \A y \in Actor : y # x => pc'[y] = pc[y] /\ at'[y] = at[y] /\ seen'[y] = seen[y]
        /\ UNCHANGED <<signals, latest>>
        /\ outdated' = outdated \cup Unscored(x)
        /\ crossed' = (crossed \cup UNION {Reading(e) : e \in Unscored(x)}) \ {x}
    BY <1>8 DEF ScoringFails, ScoringEnds, AfterRow, rowVars, TypeOK
  <2>2. ScoreIsCurrent'
    BY <1>0, <2>1 DEF ScoreIsCurrent, Unscored
  <2>3. SeenIsCurrent'
    <3> SUFFICES ASSUME NEW y \in Actor, NEW e \in Asset,
                        pc'[y] = "persist", at'[y] = e, y \notin crossed'
                 PROVE  seen'[y] = signals[e] \/ \E z \in Scan : pc'[z] = "read" /\ at'[z] = e
      BY <2>1 DEF SeenIsCurrent
    <3>1. y # x /\ y \notin crossed /\ y \in Reading(e)
      BY <2>1 DEF Reading
    <3>2. e \notin Unscored(x)
      BY <2>1, <3>1
    <3>3. seen[y] = signals[e] \/ \E z \in Scan : pc[z] = "read" /\ at[z] = e
      BY <2>1, <3>1 DEF SeenIsCurrent
    <3>. QED  BY <1>0, <2>1, <3>1, <3>2, <3>3 DEF Unscored
  <2>. QED  BY <2>2, <2>3
<1>9. ASSUME Restart
      PROVE  (ScoreIsCurrent /\ SeenIsCurrent)'
  <2>1. /\ UNCHANGED <<signals, latest>>
        /\ outdated' = outdated \cup UNION {Unscored(x) : x \in Scan}
        /\ \A x \in Actor : pc'[x] = "idle"
    BY <1>9 DEF Restart, rowVars
  <2>. QED  BY <2>1 DEF ScoreIsCurrent, SeenIsCurrent
<1>10. CASE UNCHANGED vars
  BY <1>10 DEF vars, rowVars, actorVars, histVars, ScoreIsCurrent, SeenIsCurrent, Unscored
<1>11. ASSUME NEW x \in Propagation, Propagate(x) \/ Spread(x) \/ SpreadFails(x)
       PROVE  (ScoreIsCurrent /\ SeenIsCurrent)'
  <2>1. UNCHANGED <<signals, pc, at, seen, crossed, outdated>>
    BY <1>11 DEF Propagate, Spread, SpreadFails, otherVars, histVars
  <2>2. \A e \in Asset : latest'[e] \in {latest[e], Propagated}
    BY <1>11 DEF Propagate, Spread, SpreadFails, TypeOK
  <2>. QED  BY <2>1, <2>2 DEF ScoreIsCurrent, SeenIsCurrent, Unscored
<1>. QED
  BY <1>1, <1>2, <1>3, <1>4, <1>5, <1>6, <1>7, <1>8, <1>9, <1>10, <1>11 DEF Next

\* An asset's latest score counts all its signals as soon as no scan is about
\* to score it, but for crossed scorers, failures and scores that a
\* propagation put in front.
THEOREM ScoresFollow == Spec => []ScoreIsCurrent
<1>1. Init => TypeOK /\ ScoreIsCurrent /\ SeenIsCurrent
  BY InitTypeOK DEF Init, ScoreIsCurrent, SeenIsCurrent
<1>2. TypeOK /\ ScoreIsCurrent /\ SeenIsCurrent /\ [Next]_vars
        => (TypeOK /\ ScoreIsCurrent /\ SeenIsCurrent)'
  BY TypeInductive, ScoreInductive
<1>. QED  BY <1>1, <1>2, PTL DEF Spec
=============================================================================
