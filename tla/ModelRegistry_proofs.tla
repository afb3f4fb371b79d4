------------------------ MODULE ModelRegistry_proofs ------------------------
(***************************************************************************)
(* Promotions and served models, for any number of jobs, versions,         *)
(* operators, requests, faults and predictions.                            *)
(***************************************************************************)
EXTENDS ModelRegistry, TLAPS

LEMMA ActorTypes ==
  /\ Job \subseteq Actor /\ Client \subseteq Actor
  /\ \A j \in Job : Ended(j) = "done"
  /\ \A a \in Actor : Ended(a) \in {"idle", "done"}
  /\ 1 \in Version
BY RegistryAssumption DEF Actor, Ended, Version

\* Rows, actors, files, cache and answers keep their types.
THEOREM TypeCorrect == Spec => []TypeOK
<1>1. Init => TypeOK
  BY RegistryAssumption, ActorTypes DEF Init, TypeOK, RowsOK, ActorsOK, FilesOK, ApiOK,
     VALID_STAGES, Places, Rows
<1>2. TypeOK /\ [Next]_vars => TypeOK'
  <2> SUFFICES ASSUME TypeOK, [Next]_vars PROVE TypeOK'
    OBVIOUS
  <2> USE ActorTypes, RegistryAssumption
        DEF TypeOK, Rows, Goto, Finish, rowVars, fileVars, actorVars, apiVars, counters
  <2>1. ASSUME NEW j \in Job, NEW p \in Places, Save(j, p) PROVE TypeOK'
    <3>1. RowsOK'
      BY <2>1 DEF RowsOK, ActorsOK, FilesOK, Places, Save
    <3>2. ActorsOK'
      BY <2>1 DEF ActorsOK, RowsOK, Save
    <3>3. FilesOK'
      BY <2>1 DEF FilesOK, RowsOK, ActorsOK, Places, Save
    <3>4. ApiOK'
      BY <2>1 DEF ApiOK, RowsOK, FilesOK, ActorsOK, Places, Save
    <3> QED
      BY <2>1, <3>1, <3>2, <3>3, <3>4 DEF Save
  <2>2. ASSUME NEW j \in Job, Count(j) PROVE TypeOK'
    <3>1. RowsOK'
      BY <2>2 DEF RowsOK, ActorsOK, FilesOK, Count
    <3>2. ActorsOK'
      BY <2>2 DEF ActorsOK, RowsOK, Count
    <3>3. FilesOK'
      BY <2>2 DEF FilesOK, RowsOK, ActorsOK, Count
    <3>4. ApiOK'
      BY <2>2 DEF ApiOK, RowsOK, FilesOK, ActorsOK, Count
    <3> QED
      BY <2>2, <3>1, <3>2, <3>3, <3>4 DEF Count
  <2>3. ASSUME NEW j \in Job, Insert(j) PROVE TypeOK'
    <3>1. RowsOK'
      BY <2>3 DEF RowsOK, ActorsOK, FilesOK, Insert, VALID_STAGES
    <3>2. ActorsOK'
      BY <2>3 DEF ActorsOK, RowsOK, Insert, VALID_STAGES
    <3>3. FilesOK'
      BY <2>3 DEF FilesOK, RowsOK, ActorsOK, Insert, VALID_STAGES
    <3>4. ApiOK'
      BY <2>3 DEF ApiOK, RowsOK, FilesOK, ActorsOK, Insert, VALID_STAGES
    <3> QED
      BY <2>3, <3>1, <3>2, <3>3, <3>4 DEF Insert, VALID_STAGES
  <2>4. ASSUME NEW j \in Job, Rank(j) PROVE TypeOK'
    <3>1. RowsOK'
      BY <2>4 DEF RowsOK, ActorsOK, FilesOK, Rank
    <3>2. ActorsOK'
      BY <2>4 DEF ActorsOK, RowsOK, Rank
    <3>3. FilesOK'
      BY <2>4 DEF FilesOK, RowsOK, ActorsOK, Rank
    <3>4. ApiOK'
      BY <2>4 DEF ApiOK, RowsOK, FilesOK, ActorsOK, Rank
    <3> QED
      BY <2>4, <3>1, <3>2, <3>3, <3>4 DEF Rank
  <2>5. ASSUME NEW j \in Job, Promote(j) PROVE TypeOK'
    <3>1. RowsOK'
      BY <2>5 DEF RowsOK, ActorsOK, FilesOK, Promote, WriteStages, VALID_STAGES
    <3>2. ActorsOK'
      BY <2>5 DEF ActorsOK, RowsOK, Promote, WriteStages, VALID_STAGES
    <3>3. FilesOK'
      BY <2>5 DEF FilesOK, RowsOK, ActorsOK, Promote, WriteStages, VALID_STAGES
    <3>4. ApiOK'
      BY <2>5 DEF ApiOK, RowsOK, FilesOK, ActorsOK, Promote, WriteStages, VALID_STAGES
    <3> QED
      BY <2>5, <3>1, <3>2, <3>3, <3>4 DEF Promote, WriteStages, VALID_STAGES
  <2>6. ASSUME NEW j \in Job, Archive(j) PROVE TypeOK'
    <3>1. RowsOK'
      BY <2>6 DEF RowsOK, ActorsOK, FilesOK, Archive, WriteStages, OthersMoved, VALID_STAGES
    <3>2. ActorsOK'
      BY <2>6 DEF ActorsOK, RowsOK, Archive, WriteStages, OthersMoved, VALID_STAGES
    <3>3. FilesOK'
      BY <2>6 DEF FilesOK, RowsOK, ActorsOK, Archive, WriteStages, OthersMoved, VALID_STAGES
    <3>4. ApiOK'
      BY <2>6 DEF ApiOK, RowsOK, FilesOK, ActorsOK, Archive, WriteStages, OthersMoved, VALID_STAGES
    <3> QED
      BY <2>6, <3>1, <3>2, <3>3, <3>4 DEF Archive, WriteStages, OthersMoved, VALID_STAGES
  <2>7. ASSUME NEW c \in Client, Request(c) PROVE TypeOK'
    <3>1. RowsOK'
      BY <2>7 DEF RowsOK, ActorsOK, FilesOK, Request
    <3>2. ActorsOK'
      BY <2>7 DEF ActorsOK, RowsOK, Request, VALID_STAGES
    <3>3. FilesOK'
      BY <2>7 DEF FilesOK, RowsOK, ActorsOK, Request
    <3>4. ApiOK'
      BY <2>7 DEF ApiOK, RowsOK, FilesOK, ActorsOK, Request
    <3> QED
      BY <2>7, <3>1, <3>2, <3>3, <3>4 DEF Request
  <2>8. ASSUME NEW a \in Actor, Look(a) PROVE TypeOK'
    <3>1. RowsOK'
      BY <2>8 DEF RowsOK, ActorsOK, FilesOK, Look
    <3>2. ActorsOK'
      BY <2>8 DEF ActorsOK, RowsOK, Look
    <3>3. FilesOK'
      BY <2>8 DEF FilesOK, RowsOK, ActorsOK, Look
    <3>4. ApiOK'
      BY <2>8 DEF ApiOK, RowsOK, FilesOK, ActorsOK, Look
    <3> QED
      BY <2>8, <3>1, <3>2, <3>3, <3>4 DEF Look
  <2>9. ASSUME NEW a \in Actor, Demote(a) PROVE TypeOK'
    <3>1. RowsOK'
      BY <2>9 DEF RowsOK, ActorsOK, FilesOK, Demote, WriteStages, OthersMoved, VALID_STAGES
    <3>2. ActorsOK'
      BY <2>9 DEF ActorsOK, RowsOK, Demote, WriteStages, OthersMoved, VALID_STAGES
    <3>3. FilesOK'
      BY <2>9 DEF FilesOK, RowsOK, ActorsOK, Demote, WriteStages, OthersMoved, VALID_STAGES
    <3>4. ApiOK'
      BY <2>9 DEF ApiOK, RowsOK, FilesOK, ActorsOK, Demote, WriteStages, OthersMoved, VALID_STAGES
    <3> QED
      BY <2>9, <3>1, <3>2, <3>3, <3>4 DEF Demote, WriteStages, OthersMoved, VALID_STAGES
  <2>10. ASSUME NEW a \in Actor, Set(a) PROVE TypeOK'
    <3>1. RowsOK'
      BY <2>10 DEF RowsOK, ActorsOK, FilesOK, Set, WriteStages, VALID_STAGES
    <3>2. ActorsOK'
      BY <2>10 DEF ActorsOK, RowsOK, Set, WriteStages, VALID_STAGES
    <3>3. FilesOK'
      BY <2>10 DEF FilesOK, RowsOK, ActorsOK, Set, WriteStages, VALID_STAGES
    <3>4. ApiOK'
      BY <2>10 DEF ApiOK, RowsOK, FilesOK, ActorsOK, Set, WriteStages, VALID_STAGES
    <3> QED
      BY <2>10, <3>1, <3>2, <3>3, <3>4 DEF Set, WriteStages, VALID_STAGES
  <2>11. ASSUME NEW a \in Actor, Die(a) PROVE TypeOK'
    <3>1. RowsOK'
      BY <2>11 DEF RowsOK, ActorsOK, FilesOK, Die
    <3>2. ActorsOK'
      BY <2>11 DEF ActorsOK, RowsOK, Die
    <3>3. FilesOK'
      BY <2>11 DEF FilesOK, RowsOK, ActorsOK, Die
    <3>4. ApiOK'
      BY <2>11 DEF ApiOK, RowsOK, FilesOK, ActorsOK, Die
    <3> QED
      BY <2>11, <3>1, <3>2, <3>3, <3>4 DEF Die
  <2>12. ASSUME NEW v \in Version, Ask(v) PROVE TypeOK'
    <3>1. RowsOK'
      BY <2>12 DEF RowsOK, ActorsOK, FilesOK, Ask, InProduction, Found
    <3>2. ActorsOK'
      BY <2>12 DEF ActorsOK, RowsOK, Ask, InProduction, Found
    <3>3. FilesOK'
      BY <2>12 DEF FilesOK, RowsOK, ActorsOK, Ask, InProduction, Found
    <3>4. ApiOK'
      BY <2>12 DEF ApiOK, RowsOK, FilesOK, ActorsOK, Ask, InProduction, Found
    <3> QED
      BY <2>12, <3>1, <3>2, <3>3, <3>4 DEF Ask, InProduction, Found
  <2>13. ASSUME NEW v \in Version, Answer(v) PROVE TypeOK'
    <3>1. RowsOK'
      BY <2>13 DEF RowsOK, ActorsOK, FilesOK, Answer, Loaded, CacheKey
    <3>2. ActorsOK'
      BY <2>13 DEF ActorsOK, RowsOK, Answer, Loaded, CacheKey
    <3>3. FilesOK'
      BY <2>13 DEF FilesOK, RowsOK, ActorsOK, Answer, Loaded, CacheKey
    <3>4. ApiOK'
      BY <2>13 DEF ApiOK, RowsOK, FilesOK, ActorsOK, Answer, Loaded, CacheKey
    <3> QED
      BY <2>13, <3>1, <3>2, <3>3, <3>4 DEF Answer, Loaded, CacheKey
  <2>14. CASE Restart
    BY <2>14 DEF Restart, Served, RowsOK, ActorsOK, FilesOK, ApiOK
  <2>15. CASE UNCHANGED vars
    BY <2>15 DEF vars, RowsOK, ActorsOK, FilesOK, ApiOK
  <2> QED
    BY <2>1, <2>2, <2>3, <2>4, <2>5, <2>6, <2>7, <2>8, <2>9, <2>10, <2>11, <2>12,
       <2>13, <2>14, <2>15 DEF Next
<1> QED
  BY <1>1, <1>2, PTL DEF Spec

-----------------------------------------------------------------------------
\* What a promotion has seen and done: transition() has found its stage in the
\* table, and a lone promotion has nothing else in production to come.
AllowedInv ==
  \A a \in Actor :
    /\ pc[a] \in {"demote", "set"} => want[a] \in VALID_TRANSITIONS[read[a]]
                                      /\ read[a] \in VALID_STAGES
    /\ pc[a] = "demote" => want[a] = "production"

LoneInv ==
  \A a \in Actor : alone[a] =>
    \/ /\ pc[a] = "set" /\ want[a] = "production"
       /\ InProduction(stage) \subseteq {version[a]}
    \/ pc[a] = "archive" /\ version[a] \in InProduction(stage)

LEMMA AllowedInductive == TypeOK /\ AllowedInv /\ [Next]_vars => AllowedInv'
<1> SUFFICES ASSUME TypeOK, AllowedInv, [Next]_vars PROVE AllowedInv'
  OBVIOUS
<1> USE ActorTypes DEF TypeOK, ActorsOK, RowsOK, AllowedInv, Goto, Finish, Rows,
          actorVars, rowVars
<1>1. ASSUME NEW j \in Job, NEW p \in Places, Save(j, p) PROVE AllowedInv'
  BY <1>1 DEF Save
<1>2. ASSUME NEW j \in Job, Count(j) \/ Insert(j) \/ Rank(j) PROVE AllowedInv'
  <2>1. CASE Count(j)
    BY <2>1 DEF Count
  <2>2. CASE Insert(j)
    BY <2>2 DEF Insert
  <2>3. CASE Rank(j)
    BY <2>3 DEF Rank
  <2> QED
    BY <1>2, <2>1, <2>2, <2>3
<1>3. ASSUME NEW j \in Job, Promote(j) \/ Archive(j) PROVE AllowedInv'
  <2>1. CASE Promote(j)
    BY <2>1 DEF Promote
  <2>2. CASE Archive(j)
    <3>1. /\ pc' = [pc EXCEPT ![j] = Ended(j)] /\ Ended(j) \in {"idle", "done"} /\ j \in Actor
          /\ want' = [want EXCEPT ![j] = "none"] /\ read' = [read EXCEPT ![j] = "none"]
      BY <2>2 DEF Archive, Ended
    <3>2. ASSUME NEW a \in Actor
          PROVE  /\ pc'[a] \in {"demote", "set"} => a # j
                 /\ a # j => pc'[a] = pc[a] /\ want'[a] = want[a] /\ read'[a] = read[a]
      BY <3>1
    <3> QED
      BY <3>2
  <2> QED
    BY <1>3, <2>1, <2>2
<1>4. ASSUME NEW c \in Client, Request(c) PROVE AllowedInv'
  BY <1>4 DEF Request
<1>5. ASSUME NEW a \in Actor, Look(a) PROVE AllowedInv'
  BY <1>5 DEF Look, Allowed
<1>6. ASSUME NEW a \in Actor, Demote(a) \/ Set(a) PROVE AllowedInv'
  <2>1. CASE Demote(a)
    BY <2>1 DEF Demote
  <2>2. CASE Set(a)
    BY <2>2 DEF Set
  <2> QED
    BY <1>6, <2>1, <2>2
<1>7. ASSUME NEW a \in Actor, Die(a) PROVE AllowedInv'
  BY <1>7 DEF Die
<1>8. ASSUME NEW v \in Version, Ask(v) \/ Answer(v) PROVE AllowedInv'
  BY <1>8 DEF Ask, Answer
<1>9. CASE Restart
  BY <1>9 DEF Restart, Served
<1>10. CASE UNCHANGED vars
  BY <1>10 DEF vars
<1> QED
  BY <1>1, <1>2, <1>3, <1>4, <1>5, <1>6, <1>7, <1>8, <1>9, <1>10 DEF Next

\* Who is still alone after another actor's write was so before it, and the
\* write changed nothing in production.
LEMMA StillAlone ==
  ASSUME TypeOK, NEW a \in Actor, NEW s, NEW isAlone, WriteStages(a, s, isAlone),
         NEW b \in Actor, alone'[b]
  PROVE  \/ b = a /\ isAlone
         \/ alone[b] /\ InProduction(stage') = InProduction(stage)
BY DEF WriteStages

LEMMA LoneInductive == TypeOK /\ AllowedInv /\ LoneInv /\ [Next]_vars => LoneInv'
<1> SUFFICES ASSUME TypeOK, AllowedInv, LoneInv, [Next]_vars PROVE LoneInv'
  OBVIOUS
<1> USE ActorTypes DEF TypeOK, ActorsOK, RowsOK, AllowedInv, LoneInv, Goto, Finish, Rows,
          actorVars, rowVars
<1>1. ASSUME NEW j \in Job, NEW p \in Places, Save(j, p) PROVE LoneInv'
  BY <1>1 DEF Save, InProduction
<1>2. ASSUME NEW j \in Job, Count(j) PROVE LoneInv'
  BY <1>2 DEF Count, InProduction
<1>3. ASSUME NEW j \in Job, Insert(j) PROVE LoneInv'
  BY <1>3 DEF Insert, InProduction
<1>4. ASSUME NEW j \in Job, Rank(j) PROVE LoneInv'
  BY <1>4 DEF Rank, InProduction
<1>5. ASSUME NEW j \in Job, Promote(j) PROVE LoneInv'
  BY <1>5 DEF Promote, InProduction, WriteStages
<1>6. ASSUME NEW j \in Job, Archive(j) PROVE LoneInv'
  <2> SUFFICES ASSUME NEW b \in Actor, alone'[b]
               PROVE  \/ /\ pc'[b] = "set" /\ want'[b] = "production"
                         /\ InProduction(stage') \subseteq {version'[b]}
                      \/ pc'[b] = "archive" /\ version'[b] \in InProduction(stage')
    BY DEF LoneInv, InProduction
  <2>3. WriteStages(j, OthersMoved(version[j], "archived"), FALSE)
    BY <1>6 DEF Archive
  <2>1. b # j /\ alone[b] /\ InProduction(stage') = InProduction(stage)
    <3>1. b # j
      BY <2>3 DEF WriteStages
    <3> QED
      BY <2>3, <3>1, StillAlone
  <2>2. pc'[b] = pc[b] /\ want'[b] = want[b] /\ version'[b] = version[b]
    BY <1>6, <2>1 DEF Archive
  <2> QED
    BY <2>1, <2>2 DEF LoneInv
<1>7. ASSUME NEW c \in Client, Request(c) PROVE LoneInv'
  BY <1>7 DEF Request, InProduction
<1>8. ASSUME NEW a \in Actor, Look(a) PROVE LoneInv'
  BY <1>8 DEF Look, InProduction
<1>9. ASSUME NEW a \in Actor, Demote(a) PROVE LoneInv'
  BY <1>9 DEF Demote, InProduction, WriteStages, OthersMoved
<1>10. ASSUME NEW a \in Actor, Set(a) PROVE LoneInv'
  <2> SUFFICES ASSUME NEW b \in Actor, alone'[b]
               PROVE  \/ /\ pc'[b] = "set" /\ want'[b] = "production"
                         /\ InProduction(stage') \subseteq {version'[b]}
                      \/ pc'[b] = "archive" /\ version'[b] \in InProduction(stage')
    BY DEF LoneInv, InProduction
  <2>3. WriteStages(a, [stage EXCEPT ![version[a]] = want[a]], FALSE)
    BY <1>10 DEF Set
  <2>1. b # a /\ alone[b] /\ InProduction(stage') = InProduction(stage)
    <3>1. b # a
      BY <2>3 DEF WriteStages
    <3> QED
      BY <2>3, <3>1, StillAlone
  <2>2. pc'[b] = pc[b] /\ want'[b] = want[b] /\ version'[b] = version[b]
    BY <1>10, <2>1 DEF Set
  <2> QED
    BY <2>1, <2>2 DEF LoneInv
<1>11. ASSUME NEW a \in Actor, Die(a) PROVE LoneInv'
  BY <1>11 DEF Die, InProduction
<1>12. ASSUME NEW v \in Version, Ask(v) \/ Answer(v) PROVE LoneInv'
  BY <1>12 DEF Ask, Answer, InProduction
<1>13. CASE Restart
  BY <1>13 DEF Restart, Served, InProduction
<1>14. CASE UNCHANGED vars
  BY <1>14 DEF vars, InProduction
<1> QED
  BY <1>1, <1>2, <1>3, <1>4, <1>5, <1>6, <1>7, <1>8, <1>9, <1>10, <1>11, <1>12, <1>13, <1>14 DEF Next

LEMMA PromotionInvariant == Spec => [](TypeOK /\ AllowedInv /\ LoneInv)
<1>1. Init => AllowedInv /\ LoneInv
  BY ActorTypes DEF Init, AllowedInv, LoneInv
<1> QED
  BY <1>1, TypeCorrect, AllowedInductive, LoneInductive, PTL DEF Spec

-----------------------------------------------------------------------------
\* Only five actions change the stage of a version that exists.
LEMMA OthersKeepStages ==
  ASSUME TypeOK, [Next]_vars
  PROVE  \/ \E j \in Job : Promote(j) \/ Archive(j)
         \/ \E a \in Actor : Demote(a) \/ Set(a)
         \/ \A v \in Rows : stage'[v] = stage[v]
<1> USE DEF TypeOK, RowsOK, ActorsOK, Rows, rowVars
<1>1. ASSUME NEW j \in Job, NEW p \in Places, Save(j, p) PROVE stage' = stage
  BY <1>1 DEF Save
<1>2. ASSUME NEW j \in Job, Insert(j) PROVE \A v \in Rows : stage'[v] = stage[v]
  BY <1>2, ActorTypes DEF Insert
<1>3. ASSUME NEW j \in Job, Count(j) \/ Rank(j) PROVE stage' = stage
  BY <1>3 DEF Count, Rank
<1>4. ASSUME NEW c \in Client, Request(c) PROVE stage' = stage
  BY <1>4 DEF Request
<1>5. ASSUME NEW a \in Actor, Look(a) \/ Die(a) PROVE stage' = stage
  BY <1>5 DEF Look, Die
<1>6. ASSUME NEW v \in Version, Ask(v) \/ Answer(v) PROVE stage' = stage
  BY <1>6 DEF Ask, Answer
<1>7. CASE Restart
  BY <1>7 DEF Restart
<1>8. CASE UNCHANGED vars
  BY <1>8 DEF vars
<1> QED
  BY <1>1, <1>2, <1>3, <1>4, <1>5, <1>6, <1>7, <1>8 DEF Next

\* Stages change as the table says, but for promote_best and stale reads.
THEOREM TableIsFollowed == Spec => StagesFollowTable
<1> DEFINE Follows(v) ==
      \/ stage'[v] = stage[v]
      \/ stage'[v] \in VALID_TRANSITIONS[stage[v]]
      \/ \E j \in Job : pc[j] = "promote" /\ version[j] = v /\ stage'[v] = "production"
      \/ \E a \in Actor : /\ pc[a] = "set" /\ version[a] = v /\ stage'[v] = want[a]
                          /\ read[a] # stage[v]
<1>1. TypeOK /\ AllowedInv /\ [Next]_vars => \A v \in Rows : Follows(v)
  <2> SUFFICES ASSUME TypeOK, AllowedInv, [Next]_vars, NEW v \in Rows PROVE Follows(v)
    OBVIOUS
  <2> USE ActorTypes DEF TypeOK, RowsOK, ActorsOK, Rows, WriteStages
  <2>1. ASSUME NEW j \in Job, Promote(j) PROVE Follows(v)
    BY <2>1 DEF Promote
  <2>2. ASSUME NEW j \in Job, Archive(j) PROVE Follows(v)
    BY <2>2 DEF Archive, OthersMoved, VALID_TRANSITIONS
  <2>3. ASSUME NEW a \in Actor, Demote(a) PROVE Follows(v)
    BY <2>3 DEF Demote, OthersMoved, VALID_TRANSITIONS
  <2>4. ASSUME NEW a \in Actor, Set(a) PROVE Follows(v)
    BY <2>4 DEF Set, AllowedInv
  <2> QED
    BY <2>1, <2>2, <2>3, <2>4, OthersKeepStages
<1> QED
  BY <1>1, PromotionInvariant, PTL DEF Spec, StagesFollowTable

\* A promotion that nobody interferes with leaves exactly its version in
\* production.
THEOREM LonePromotionsWin == Spec => LonePromotionWins
<1> DEFINE Wins(a) ==
      alone[a] /\ pc[a] \in {"set", "archive"} /\ pc'[a] # pc[a]
      => \/ faults' > faults
         \/ InProduction(stage') = {version[a]}
<1>1. TypeOK /\ LoneInv /\ [Next]_vars => \A a \in Actor : Wins(a)
  <2> SUFFICES ASSUME TypeOK, LoneInv, [Next]_vars, NEW a \in Actor,
                      alone[a], pc[a] \in {"set", "archive"}, pc'[a] # pc[a]
               PROVE  faults' > faults \/ InProduction(stage') = {version[a]}
    OBVIOUS
  <2> USE ActorTypes DEF TypeOK, RowsOK, ActorsOK, Rows, Goto, Finish
  <2>1. CASE Set(a)
    BY <2>1 DEF Set, WriteStages, LoneInv, InProduction
  <2>2. CASE a \in Job /\ Archive(a)
    BY <2>2 DEF Archive, WriteStages, OthersMoved, LoneInv, InProduction
  <2>3. ASSUME NEW b \in Actor, Die(b) PROVE faults' > faults
    BY <2>3 DEF Die
  <2>4. CASE Restart
    BY <2>4 DEF Restart
  <2>5. ASSUME NEW j \in Job, NEW p \in Places, Save(j, p) PROVE FALSE
    BY <2>5 DEF Save
  <2>6. ASSUME NEW j \in Job, Count(j) \/ Insert(j) \/ Rank(j) PROVE FALSE
    BY <2>6 DEF Count, Insert, Rank
  <2>7. ASSUME NEW j \in Job, Promote(j) PROVE FALSE
    BY <2>7 DEF Promote
  <2>8. ASSUME NEW j \in Job, Archive(j), a # j PROVE FALSE
    BY <2>8 DEF Archive
  <2>9. ASSUME NEW c \in Client, Request(c) PROVE FALSE
    BY <2>9 DEF Request
  <2>10. ASSUME NEW b \in Actor, Look(b) \/ Demote(b) PROVE FALSE
    BY <2>10 DEF Look, Demote
  <2>11. ASSUME NEW b \in Actor, Set(b), a # b PROVE FALSE
    BY <2>11 DEF Set
  <2>12. ASSUME NEW v \in Version, Ask(v) \/ Answer(v) PROVE FALSE
    BY <2>12 DEF Ask, Answer, actorVars
  <2>13. CASE UNCHANGED vars
    BY <2>13 DEF vars, actorVars
  <2> QED
    BY <2>1, <2>2, <2>3, <2>4, <2>5, <2>6, <2>7, <2>8, <2>9, <2>10, <2>11, <2>12, <2>13
       DEF Next
<1> QED
  BY <1>1, PromotionInvariant, PTL DEF Spec, LonePromotionWins

\* Production runs empty only in transition()'s gap or by a request, or when
\* promotions overlap.
THEOREM ProductionLostOnlyThen == Spec => ProductionLost
<1> DEFINE Excused ==
      InProduction(stage) # {} /\ InProduction(stage') = {} =>
        \E a \in Actor : \/ pc[a] \in {"demote", "set"} /\ pc'[a] # pc[a]
                         \/ pc[a] = "archive" /\ ~alone[a]
<1>1. TypeOK /\ LoneInv /\ [Next]_vars => Excused
  <2> SUFFICES ASSUME TypeOK, LoneInv, [Next]_vars,
                      InProduction(stage) # {}, InProduction(stage') = {}
               PROVE  \E a \in Actor : \/ pc[a] \in {"demote", "set"} /\ pc'[a] # pc[a]
                                       \/ pc[a] = "archive" /\ ~alone[a]
    OBVIOUS
  <2> USE ActorTypes DEF TypeOK, RowsOK, ActorsOK, Goto, Finish
  <2>1. ASSUME NEW j \in Job, Promote(j) PROVE FALSE
    BY <2>1 DEF Promote, WriteStages, InProduction, Rows
  <2>2. ASSUME NEW j \in Job, Archive(j) PROVE pc[j] = "archive" /\ ~alone[j]
    BY <2>2 DEF Archive, WriteStages, OthersMoved, InProduction, LoneInv
  <2>3. ASSUME NEW a \in Actor, Demote(a) \/ Set(a)
        PROVE  pc[a] \in {"demote", "set"} /\ pc'[a] # pc[a]
    BY <2>3 DEF Demote, Set
  <2>4. CASE \A v \in Rows : stage'[v] = stage[v]
    BY <2>4 DEF InProduction, Rows
  <2> QED
    BY <2>1, <2>2, <2>3, <2>4, OthersKeepStages
<1> QED
  BY <1>1, PromotionInvariant, PTL DEF Spec, ProductionLost

-----------------------------------------------------------------------------
\* A file holds the last model written to its place, and what was loaded from
\* it for a version was written after that version's own model, or is it.
AgeInv ==
  /\ \A j \in Job :
       /\ savedAt[j] <= clock
       /\ pc[j] = "save" => place[j] = "none"
       /\ place[j] # "none" =>
            /\ file[place[j]] # None
            /\ savedAt[j] <= savedAt[file[place[j]]]
  /\ \A p \in Places : file[p] # None => place[file[p]] # "none"
  /\ \A v \in Version : cache[v] # None =>
       /\ v \in Rows /\ place[cache[v]] # "none"
       /\ savedAt[model[v]] <= savedAt[cache[v]]
  /\ answer # None =>
       /\ answer.model \in Job /\ place[answer.model] # "none"
       /\ savedAt[model[answer.version]] <= savedAt[answer.model]

LEMMA AgeInductive == TypeOK /\ AgeInv /\ [Next]_vars => AgeInv'
<1> SUFFICES ASSUME TypeOK, AgeInv, [Next]_vars PROVE AgeInv'
  OBVIOUS
<1> USE ActorTypes, RegistryAssumption
      DEF TypeOK, RowsOK, ActorsOK, FilesOK, ApiOK, AgeInv, Goto, Finish, Rows,
          rowVars, fileVars, apiVars, actorVars
<1>1. ASSUME NEW j \in Job, NEW p \in Places, Save(j, p) PROVE AgeInv'
  BY <1>1 DEF Save, Places
<1>2. ASSUME NEW j \in Job, Count(j) \/ Rank(j) PROVE AgeInv'
  BY <1>2 DEF Count, Rank
<1>3. ASSUME NEW j \in Job, Insert(j) PROVE AgeInv'
  BY <1>3 DEF Insert
<1>4. ASSUME NEW j \in Job, Promote(j) \/ Archive(j) PROVE AgeInv'
  <2>1. CASE Promote(j)
    BY <2>1 DEF Promote, WriteStages
  <2>2. CASE Archive(j)
    BY <2>2 DEF Archive, WriteStages, OthersMoved
  <2> QED
    BY <1>4, <2>1, <2>2
<1>5. ASSUME NEW c \in Client, Request(c) PROVE AgeInv'
  BY <1>5 DEF Request
<1>6. ASSUME NEW a \in Actor, Look(a) \/ Die(a) PROVE AgeInv'
  BY <1>6 DEF Look, Die
<1>7. ASSUME NEW a \in Actor, Demote(a) \/ Set(a) PROVE AgeInv'
  <2>1. CASE Demote(a)
    BY <2>1 DEF Demote, WriteStages, OthersMoved
  <2>2. CASE Set(a)
    BY <2>2 DEF Set, WriteStages
  <2> QED
    BY <1>7, <2>1, <2>2
<1>8. ASSUME NEW v \in Version, Ask(v) PROVE AgeInv'
  BY <1>8 DEF Ask
<1>9. ASSUME NEW v \in Version, Answer(v) PROVE AgeInv'
  BY <1>9 DEF Answer, Loaded, CacheKey
<1>10. CASE Restart
  BY <1>10 DEF Restart, Served
<1>11. CASE UNCHANGED vars
  BY <1>11 DEF vars
<1> QED
  BY <1>1, <1>2, <1>3, <1>4, <1>5, <1>6, <1>7, <1>8, <1>9, <1>10, <1>11 DEF Next

\* No prediction comes from a model older than its version's.
THEOREM ServedNeverOlder == Spec => []NeverOlderModel
<1>1. Init => AgeInv
  BY ActorTypes DEF Init, AgeInv
<1>2. TypeOK /\ AgeInv => NeverOlderModel
  BY DEF TypeOK, RowsOK, FilesOK, ApiOK, AgeInv, NeverOlderModel, Rows
<1> QED
  BY <1>1, <1>2, TypeCorrect, AgeInductive, PTL DEF Spec
=============================================================================
