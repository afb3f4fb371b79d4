----------------------- MODULE ArticlePipeline_proofs -----------------------
(***************************************************************************)
(* The pipeline's processes are consume loops (every step of the pipeline  *)
(* is a step of ConsumerRunner or leaves its variables alone), so what is  *)
(* proved of the loop holds of the pipeline; and derived data never exists *)
(* without what it is derived from, for any articles, keys and partitions. *)
(***************************************************************************)
EXTENDS ArticlePipeline, ConsumerRunner_proofs

\* A step of the pipeline is a step of the consume loops or does not touch
\* them.
LEMMA PipelineStep == [PNext]_pipelineVars => [Next]_vars
<1> SUFFICES ASSUME [PNext]_pipelineVars PROVE [Next]_vars
  OBVIOUS
<1> USE PipelineAssumption
<1>1. ASSUME NEW a \in Article, NEW p \in Partition,
             DeliverRaw(a, p) \/ DeliverProcessed(a, p) \/ DeliverTwice(a, p)
      PROVE  Next
  BY <1>1 DEF DeliverRaw, DeliverProcessed, DeliverTwice, Next
<1>2. ASSUME NEW g \in Group, NEW p \in Partition, PPoll(g, p)
      PROVE  Next
  BY <1>2 DEF PPoll, Next
<1>3. ASSUME NEW g \in Group,
             \/ PReturn(g) \/ PCommitLands(g) \/ PStop(g) \/ PEmptyPoll(g)
             \/ PCrash(g) \/ PStart(g)
      PROVE  Next
  BY <1>3 DEF PReturn, PCommitLands, PStop, PEmptyPoll, PCrash, PStart, Next
<1>4. CASE UNCHANGED vars
  BY <1>4
<1> QED
  BY <1>1, <1>2, <1>3, <1>4
  DEF PNext, pipelineVars, Fetch, DeliveryFails, IngestCrash, Enrich, EnrichFails,
      Upsert, ReplaceRelated, UpdateEvents, EnrichEnergy, Index, StoreFails,
      SelectRow, InsertEmbedding, EmbedFails, GenerateStart, GenerateOne

\* The pipeline runs ConsumerRunner's loops.
THEOREM PipelineRunsConsumers == PSpec => Spec
<1>1. PInit => Init
  BY DEF PInit
<1> QED
  BY <1>1, PipelineStep, PTL DEF PSpec, Spec

\* So in the pipeline, too, no commit ever covers an unhandled message.
THEOREM PipelineCommitIsSafe == PSpec => []CommitCoversHandled
  BY PipelineRunsConsumers, CommitIsSafe

-----------------------------------------------------------------------------
Steps == {"enrich", "upsert", "related", "events", "energy", "index", "select",
          "insert", "done"}
Table == [Key -> Article \cup {None}]

\* The part of the type invariant the argument below needs.
Types ==
  /\ step \in [Group -> Steps]
  /\ row \in Table /\ related \in Table /\ attached \in Table
  /\ energy \in Table /\ esDoc \in Table /\ embedding \in Table
  /\ todo \subseteq Key \X Article

\* What the earlier steps of the database handler have stored when it is
\* about to take step s for key k.
Ready(k, s) ==
  /\ s \in {"related", "events", "energy", "index"} => row[k] # None
  /\ s \in {"events", "energy", "index"} => related[k] # None
  /\ s \in {"energy", "index"} => attached[k] # None
  /\ s = "index" => energy[k] # None

StepInv ==
  /\ Handling("db") => Ready(HandledKey("db"), step["db"])
  /\ Handling("em") /\ step["em"] = "insert" => row[HandledKey("em")] # None
  /\ \A t \in todo : row[t[1]] # None

DInv == IInv /\ Types /\ StepInv /\ DerivedInOrder

LEMMA HandledIsArticle ==
  ASSUME IInv, NEW g \in Group, Handling(g)
  PROVE  Handled(g) \in Article /\ HandledKey(g) \in Key
<1>1. /\ current[g][1] \in Partition
      /\ current[g][2] \in 1..Len(TopicLog(g)[current[g][1]])
  BY CurrentInLog DEF Handling
<1>2. TopicLog(g)[current[g][1]] \in Seq(Article)
  BY <1>1, RunnerAssumption, PipelineAssumption DEF IInv, TypeOK, TopicLog
<1>3. Handled(g) \in Article
  BY <1>1, <1>2 DEF Handled
<1> QED
  BY <1>3, PipelineAssumption DEF HandledKey

\* Appending to a log does not change the message in a handler.
LEMMA HandledIsStable ==
  ASSUME IInv, NEW t \in Topic, NEW p \in Partition, NEW m \in Message,
         Produce(t, p, m), NEW g \in Group, Handling(g)
  PROVE  Handled(g)' = Handled(g)
<1>1. /\ current[g][1] \in Partition
      /\ current[g][2] \in 1..Len(TopicLog(g)[current[g][1]])
  BY CurrentInLog DEF Handling
<1>2. UNCHANGED current /\ log' = [log EXCEPT ![t][p] = Append(@, m)]
  BY DEF Produce, Append1, runnerVars
<1> DEFINE q == current[g][1]
           o == current[g][2]
<1>3. /\ TopicLog(g)[q] \in Seq(Message)
      /\ \/ TopicLog(g)'[q] = TopicLog(g)[q]
         \/ TopicLog(g)'[q] = Append(TopicLog(g)[q], m)
  BY <1>1, <1>2, RunnerAssumption DEF IInv, TypeOK, TopicLog
<1>4. TopicLog(g)'[q][o] = TopicLog(g)[q][o]
  BY <1>1, <1>3
<1> QED
  BY <1>2, <1>4 DEF Handled

\* Storing an article (or nothing) under a key leaves a table a table.
LEMMA TableUpdate ==
  ASSUME NEW T \in Table, NEW k \in Key, NEW a \in Article \cup {None}
  PROVE  [T EXCEPT ![k] = a] \in Table
  BY DEF Table

LEMMA StepUpdate ==
  ASSUME step \in [Group -> Steps], NEW g \in Group, NEW s \in Steps, Goto(g, s)
  PROVE  step' \in [Group -> Steps]
  BY DEF Goto

\* INSERT ... ON CONFLICT DO NOTHING stores the article or changes nothing.
LEMMA InsertIsUpdate ==
  ASSUME embedding \in Table, NEW k \in Key, NEW a \in Article, InsertOnce(k, a)
  PROVE  embedding' \in Table
<1>1. embedding[k] \in Article \cup {None}
  BY DEF Table
<1>2. (IF embedding[k] = None THEN a ELSE embedding[k]) \in Article \cup {None}
  BY <1>1
<1> QED
  BY <1>2, TableUpdate DEF InsertOnce

\* Every step keeps the types.
LEMMA TypesStep ==
  ASSUME IInv, Types, [PNext]_pipelineVars
  PROVE  Types'
<1>a. \A g \in Group : Handling(g) => HandledKey(g) \in Key /\ Handled(g) \in Article
  BY HandledIsArticle
<1>b. ASSUME NEW s, NEW g, InHandler(g, s) \/ (Handling(g) /\ step[g] # "done")
      PROVE  g \in Group /\ HandledKey(g) \in Key /\ Handled(g) \in Article
  BY <1>a, <1>b DEF InHandler, Handling
<1>1. ASSUME NEW a \in Article, NEW p \in Partition,
             DeliverRaw(a, p) \/ DeliverProcessed(a, p) \/ DeliverTwice(a, p)
      PROVE  Types'
  BY <1>1 DEF Types, DeliverRaw, DeliverProcessed, DeliverTwice, storeVars, embedVars
<1>c. ASSUME NEW a \in Article, Fetch(a) \/ DeliveryFails(a)
      PROVE  Types'
  BY <1>c DEF Types, Fetch, DeliveryFails, storeVars, embedVars
<1>d. CASE IngestCrash
  BY <1>d DEF Types, IngestCrash, storeVars, embedVars
<1>2. ASSUME NEW g \in Group, NEW p \in Partition, PPoll(g, p)
      PROVE  Types'
  <2>1. FirstStep(g) \in Steps
    BY PipelineAssumption DEF FirstStep, Steps
  <2> QED
    BY <1>2, <2>1, StepUpdate DEF Types, PPoll, storeVars, embedVars
<1>3. ASSUME NEW g \in Group,
             \/ PReturn(g) \/ PCommitLands(g) \/ PStop(g) \/ PEmptyPoll(g)
             \/ PCrash(g) \/ PStart(g)
      PROVE  Types'
  <2>1. UNCHANGED <<storeVars, embedVars>>
    BY <1>3 DEF PReturn, PCommitLands, PStop, PEmptyPoll, PCrash, PStart
  <2>2. UNCHANGED step \/ Goto(g, "done")
    BY <1>3 DEF PReturn, PCommitLands, PStop, PEmptyPoll, PCrash, PStart
  <2>3. step' \in [Group -> Steps]
    BY <2>2, StepUpdate DEF Types, Steps
  <2> QED
    BY <2>1, <2>3 DEF Types, storeVars, embedVars
\* Handler steps: the step counter first, then the table it stores to.
<1>4. CASE Enrich \/ EnrichFails \/ StoreFails \/ EmbedFails
  <2>1. \E g \in Group : Goto(g, "done")
    BY <1>4, <1>b
    DEF Enrich, EnrichFails, StoreFails, AfterFault, EmbedFails, InHandler, Handling
  <2>2. step' \in [Group -> Steps]
    BY <2>1, StepUpdate DEF Types, Steps
  <2> QED
    BY <1>4, <2>2
    DEF Types, Enrich, EnrichFails, StoreFails, EmbedFails, storeVars, embedVars
<1>5. CASE Upsert
  <2>1. step' \in [Group -> Steps]
    BY <1>5, <1>b, StepUpdate DEF Upsert, Types, Steps
  <2>2. row' \in Table
    BY <1>5, <1>b, TableUpdate DEF Upsert, Types
  <2> QED
    BY <1>5, <2>1, <2>2 DEF Upsert, Types, embedVars
<1>6. CASE ReplaceRelated
  <2>1. step' \in [Group -> Steps]
    BY <1>6, <1>b, StepUpdate DEF ReplaceRelated, Types, Steps
  <2>2. related' \in Table
    BY <1>6, <1>b, TableUpdate DEF ReplaceRelated, Types
  <2> QED
    BY <1>6, <2>1, <2>2 DEF ReplaceRelated, Types, embedVars
<1>7. CASE UpdateEvents
  <2>1. step' \in [Group -> Steps]
    BY <1>7, <1>b, StepUpdate DEF UpdateEvents, Types, Steps
  <2>2. row[HandledKey("db")] \in Article \cup {None}
    BY <1>7, <1>b DEF UpdateEvents, Types, Table
  <2>3. attached' \in Table
    BY <1>7, <1>b, <2>2, TableUpdate DEF UpdateEvents, Types
  <2> QED
    BY <1>7, <2>1, <2>3 DEF UpdateEvents, Types, embedVars
<1>8. CASE EnrichEnergy
  <2>1. step' \in [Group -> Steps]
    BY <1>8, <1>b, StepUpdate DEF EnrichEnergy, Types, Steps
  <2>2. related[HandledKey("db")] \in Article \cup {None}
    BY <1>8, <1>b DEF EnrichEnergy, Types, Table
  <2>3. energy' \in Table
    BY <1>8, <1>b, <2>2, TableUpdate DEF EnrichEnergy, RebuiltEnergy, Types
  <2> QED
    BY <1>8, <2>1, <2>3 DEF EnrichEnergy, Types, embedVars
<1>9. CASE Index
  <2>1. step' \in [Group -> Steps]
    BY <1>9, <1>b, StepUpdate DEF Index, Types, Steps
  <2>2. esDoc' \in Table
    BY <1>9, <1>b, TableUpdate DEF Index, Types
  <2> QED
    BY <1>9, <2>1, <2>2 DEF Index, Types, embedVars
<1>10. CASE SelectRow
  <2>1. AfterSelect \in Steps
    BY DEF AfterSelect, Steps
  <2>2. step' \in [Group -> Steps]
    BY <1>10, <1>b, <2>1, StepUpdate DEF SelectRow, Types
  <2> QED
    BY <1>10, <2>2 DEF SelectRow, Types, storeVars, embedVars
<1>11. CASE InsertEmbedding
  <2>1. step' \in [Group -> Steps]
    BY <1>11, <1>b, StepUpdate DEF InsertEmbedding, Types, Steps
  <2>2. embedding' \in Table
    BY <1>11, <1>b, InsertIsUpdate DEF InsertEmbedding, Types
  <2> QED
    BY <1>11, <2>1, <2>2 DEF InsertEmbedding, Types, storeVars
<1>12. CASE GenerateStart
  <2>1. todo' \subseteq Key \X Article
    BY <1>12 DEF GenerateStart, Types, Table
  <2> QED
    BY <1>12, <2>1 DEF GenerateStart, Types, storeVars
<1>13. CASE GenerateOne
  <2>1. PICK t \in todo : /\ InsertOnce(t[1], t[2])
                          /\ todo' = todo \ {t}
                          /\ UNCHANGED <<step, storeVars>>
    BY <1>13 DEF GenerateOne
  <2>2. t[1] \in Key /\ t[2] \in Article
    BY DEF Types
  <2>3. embedding' \in Table
    BY <2>1, <2>2, InsertIsUpdate DEF Types
  <2> QED
    BY <2>1, <2>3 DEF Types, storeVars
<1>14. CASE UNCHANGED pipelineVars
  BY <1>14 DEF Types, pipelineVars, storeVars, embedVars
<1> QED
  BY <1>1, <1>c, <1>d, <1>2, <1>3, <1>4, <1>5, <1>6, <1>7, <1>8, <1>9, <1>10,
     <1>11, <1>12, <1>13, <1>14 DEF PNext

\* Every step keeps the order.
LEMMA StoresStep ==
  ASSUME DInv, [PNext]_pipelineVars
  PROVE  StepInv' /\ DerivedInOrder'
<1> DEFINE Goal == StepInv' /\ DerivedInOrder'
<1>0. IInv /\ Types /\ StepInv /\ DerivedInOrder
  BY DEF DInv
<1>a. \A g \in Group : Handling(g) => HandledKey(g) \in Key /\ Handled(g) \in Article
  BY <1>0, HandledIsArticle
<1>1. ASSUME NEW t \in Topic, NEW q \in Partition, NEW m \in Message,
             Produce(t, q, m), UNCHANGED <<step, storeVars, embedVars>>
      PROVE  Goal
  <2>1. UNCHANGED <<current, alive>>
    BY <1>1 DEF Produce, runnerVars
  <2>2. \A g \in {"db", "em"} :
           Handling(g)' => Handling(g) /\ HandledKey(g)' = HandledKey(g)
    <3> SUFFICES ASSUME NEW g \in {"db", "em"}, Handling(g)'
                 PROVE  Handling(g) /\ HandledKey(g)' = HandledKey(g)
      OBVIOUS
    <3>1. Handling(g) /\ g \in Group
      BY <2>1 DEF Handling
    <3>2. Handled(g)' = Handled(g)
      BY <3>1, <1>0, <1>1, HandledIsStable
    <3> QED
      BY <3>1, <3>2 DEF HandledKey
  <2> QED
    BY <2>2, <1>0, <1>1 DEF StepInv, Ready, DerivedInOrder, storeVars, embedVars
<1>2. ASSUME UNCHANGED <<log, current, alive, step, storeVars, embedVars>>
      PROVE  Goal
  BY <1>0, <1>2 DEF StepInv, Ready, DerivedInOrder, Handling, HandledKey, Handled,
                    TopicLog, storeVars, embedVars
\* The loop and the faults: a group that is not handling, or is not about to
\* take one of the steps above, needs nothing.
<1>3. ASSUME NEW g \in Group, UNCHANGED <<log, storeVars, embedVars>>,
             \A h \in Group \ {g} : /\ current'[h] = current[h]
                                    /\ alive'[h] = alive[h]
                                    /\ step'[h] = step[h],
             Handling(g)' => step'[g] \in {"enrich", "upsert", "select", "done"}
      PROVE  Goal
  <2>1. \A h \in Group \ {g} : /\ Handling(h)' = Handling(h)
                                /\ HandledKey(h)' = HandledKey(h)
    BY <1>3 DEF Handling, HandledKey, Handled, TopicLog
  <2>2. \A h : Handling(h)' => h \in Group
    BY DEF Handling
  <2> QED
    BY <2>1, <2>2, <1>0, <1>3 DEF StepInv, Ready, DerivedInOrder, storeVars, embedVars
<1>4. ASSUME NEW g \in Group, NEW p \in Partition, PPoll(g, p)
      PROVE  Goal
  <2>1. FirstStep(g) \in {"enrich", "upsert", "select", "done"}
    BY PipelineAssumption DEF FirstStep
  <2> QED
    BY <1>0, <1>3, <1>4, <2>1
    DEF PPoll, Poll, Goto, brokerVars, IInv, TypeOK, Types
<1>5. ASSUME NEW g \in Group, PReturn(g)
      PROVE  Goal
  BY <1>0, <1>3, <1>5 DEF PReturn, Return, brokerVars, IInv, TypeOK, Types
<1>6. ASSUME NEW g \in Group, PCommitLands(g) \/ PStop(g)
      PROVE  Goal
  BY <1>2, <1>6 DEF PCommitLands, CommitLands, PStop, Stop, brokerVars, runnerVars
<1>7. ASSUME NEW g \in Group, PEmptyPoll(g)
      PROVE  Goal
  BY <1>0, <1>3, <1>7
  DEF PEmptyPoll, EmptyPoll, Handling, brokerVars, IInv, TypeOK, Types
<1>8. ASSUME NEW g \in Group, PCrash(g)
      PROVE  Goal
  BY <1>0, <1>3, <1>8 DEF PCrash, Crash, Goto, brokerVars, IInv, TypeOK, Types
<1>9. ASSUME NEW g \in Group, PStart(g)
      PROVE  Goal
  <2>1. current[g] = Idle
    BY <1>0, <1>9 DEF PStart, Start, IInv, CursorInv, CurrentAtCursor
  <2> QED
    BY <1>0, <1>3, <1>9, <2>1
    DEF PStart, Start, Handling, brokerVars, IInv, TypeOK, Types
\* The database handler.
<1>10. CASE Upsert
  BY <1>0, <1>a, <1>10, PipelineAssumption
  DEF Upsert, InHandler, Goto, vars, embedVars, Types, Table, StepInv, Ready,
      DerivedInOrder, Handling, HandledKey, Handled, TopicLog
<1>11. CASE ReplaceRelated
  BY <1>0, <1>a, <1>11, PipelineAssumption
  DEF ReplaceRelated, InHandler, Goto, vars, embedVars, Types, Table, StepInv, Ready,
      DerivedInOrder, Handling, HandledKey, Handled, TopicLog
<1>12. CASE UpdateEvents
  BY <1>0, <1>a, <1>12, PipelineAssumption
  DEF UpdateEvents, InHandler, Goto, vars, embedVars, Types, Table, StepInv, Ready,
      DerivedInOrder, Handling, HandledKey, Handled, TopicLog
<1>13. CASE EnrichEnergy
  BY <1>0, <1>a, <1>13, PipelineAssumption
  DEF EnrichEnergy, InHandler, Goto, vars, embedVars, Types, Table, StepInv, Ready,
      DerivedInOrder, Handling, HandledKey, Handled, TopicLog, RebuiltEnergy
<1>14. CASE Index
  BY <1>0, <1>a, <1>14, PipelineAssumption
  DEF Index, InHandler, Goto, vars, embedVars, Types, Table, StepInv, Ready,
      DerivedInOrder, Handling, HandledKey, Handled, TopicLog
\* A fault ends the handler.
<1>15. CASE Enrich \/ EnrichFails
  BY <1>0, <1>3, <1>15
  DEF Enrich, EnrichFails, InHandler, Handling, Goto, vars, Types
<1>16. CASE StoreFails
  BY <1>0, <1>3, <1>16
  DEF StoreFails, AfterFault, Handling, Goto, vars, Types
<1>17. CASE EmbedFails
  BY <1>0, <1>3, <1>17 DEF EmbedFails, Handling, Goto, vars, Types
\* The embedding handler and /generate.
<1>18. CASE SelectRow
  BY <1>0, <1>a, <1>18
  DEF SelectRow, AfterSelect, InHandler, Goto, vars, storeVars, embedVars, Types,
      StepInv, Ready, DerivedInOrder, Handling, HandledKey, Handled, TopicLog
<1>19. CASE InsertEmbedding
  BY <1>0, <1>a, <1>19
  DEF InsertEmbedding, InsertOnce, InHandler, Goto, vars, storeVars, Types, Table,
      StepInv, Ready, DerivedInOrder, Handling, HandledKey, Handled, TopicLog
<1>20. CASE GenerateStart
  <2>1. \A t \in todo' : row[t[1]] # None
    BY <1>20 DEF GenerateStart
  <2>2. UNCHANGED <<vars, step, storeVars, embedding>>
    BY <1>20 DEF GenerateStart
  <2>3. DerivedInOrder'
    BY <1>0, <2>2 DEF DerivedInOrder, storeVars
  <2> QED
    BY <1>0, <2>1, <2>2, <2>3
    DEF vars, storeVars, StepInv, Ready, Handling, HandledKey, Handled, TopicLog
<1>21. CASE GenerateOne
  <2>1. PICK t \in todo : /\ InsertOnce(t[1], t[2])
                          /\ todo' = todo \ {t}
                          /\ UNCHANGED <<vars, step, storeVars>>
    BY <1>21 DEF GenerateOne
  <2>2. row[t[1]] # None
    BY <1>0 DEF StepInv
  <2>3. \A k \in Key : embedding'[k] # None => row[k] # None
    BY <1>0, <2>1, <2>2 DEF InsertOnce, DerivedInOrder, Types, Table
  <2>4. StepInv'
    BY <1>0, <2>1
    DEF vars, storeVars, StepInv, Ready, Handling, HandledKey, Handled, TopicLog
  <2> QED
    BY <1>0, <2>1, <2>3, <2>4 DEF storeVars, DerivedInOrder
\* Producers, ingest-service, stuttering.
<1>22. ASSUME NEW a \in Article, NEW p \in Partition,
              DeliverRaw(a, p) \/ DeliverProcessed(a, p) \/ DeliverTwice(a, p)
       PROVE  Goal
  BY <1>1, <1>22, PipelineAssumption DEF DeliverRaw, DeliverProcessed, DeliverTwice
<1>23. ASSUME NEW a \in Article, Fetch(a) \/ DeliveryFails(a)
       PROVE  Goal
  BY <1>2, <1>23 DEF Fetch, DeliveryFails, vars
<1>24. CASE IngestCrash
  BY <1>2, <1>24 DEF IngestCrash, vars
<1>25. CASE UNCHANGED pipelineVars
  BY <1>2, <1>25 DEF pipelineVars, vars
<1> QED
  BY <1>4, <1>5, <1>6, <1>7, <1>8, <1>9, <1>10, <1>11, <1>12, <1>13, <1>14, <1>15,
     <1>16, <1>17, <1>18, <1>19, <1>20, <1>21, <1>22, <1>23, <1>24, <1>25 DEF PNext

\* The invariant above holds in every reachable state.
LEMMA PipelineInductive == PSpec => []DInv
<1>1. PInit => Types /\ StepInv /\ DerivedInOrder
  BY DEF PInit, Init, Types, Steps, Table, StepInv, Ready, DerivedInOrder, NoRows,
         Handling
<1>2. IInv /\ (Types /\ StepInv /\ DerivedInOrder) /\ [PNext]_pipelineVars
      => (Types /\ StepInv /\ DerivedInOrder)'
  BY TypesStep, StoresStep DEF DInv
<1>3. PSpec => []IInv
  BY PipelineRunsConsumers, Inductive
<1>4. IInv /\ Types /\ StepInv /\ DerivedInOrder => DInv
  BY DEF DInv
<1> QED
  BY <1>1, <1>2, <1>3, <1>4, PTL DEF PSpec

\* For any articles, keys, partitions, consumers and any number of faults,
\* crashes and repeated deliveries, nothing is derived from a row that is not
\* stored.
THEOREM DerivedAlwaysInOrder == PSpec => []DerivedInOrder
<1>1. DInv => DerivedInOrder
  BY DEF DInv
<1> QED
  BY <1>1, PipelineInductive, PTL

-----------------------------------------------------------------------------
(* The producers' buffers, and the type invariant.                         *)

Bufs ==
  /\ ingestBuf \in [Article -> Nat] /\ mlBuf \in [Article -> Nat]
  /\ lost \subseteq Article /\ damaged \subseteq Key

LEMMA BufUpdate ==
  ASSUME NEW B \in [Article -> Nat], NEW a \in Article
  PROVE  /\ [B EXCEPT ![a] = @ + 1] \in [Article -> Nat]
         /\ B[a] > 0 => [B EXCEPT ![a] = @ - 1] \in [Article -> Nat]
OBVIOUS

\* Every step keeps the types of the buffers and of the history variables.
LEMMA BufsStep ==
  ASSUME IInv, Bufs, [PNext]_pipelineVars
  PROVE  Bufs'
<1>a. \A g : Handling(g) => HandledKey(g) \in Key /\ Handled(g) \in Article
  BY HandledIsArticle DEF Handling
<1>b. Empty \in [Article -> Nat]
  BY DEF Empty
<1>c. InBuffer(ingestBuf) \subseteq Article /\ InBuffer(mlBuf) \subseteq Article
  BY DEF InBuffer
<1>1. ASSUME NEW a \in Article, NEW p \in Partition,
             DeliverRaw(a, p) \/ DeliverProcessed(a, p) \/ DeliverTwice(a, p)
      PROVE  Bufs'
  <2>1. CASE DeliverRaw(a, p)
    BY <2>1, BufUpdate DEF DeliverRaw, Bufs, histVars
  <2>2. CASE DeliverProcessed(a, p)
    BY <2>2, BufUpdate DEF DeliverProcessed, Bufs, histVars
  <2>3. CASE DeliverTwice(a, p)
    BY <2>3 DEF DeliverTwice, Bufs, bufVars
  <2> QED
    BY <1>1, <2>1, <2>2, <2>3
<1>2. ASSUME NEW a \in Article, Fetch(a) \/ DeliveryFails(a)
      PROVE  Bufs'
  <2>1. CASE Fetch(a)
    BY <2>1, BufUpdate DEF Fetch, Bufs
  <2>2. CASE DeliveryFails(a)
    <3>1. ingestBuf' \in [Article -> Nat] /\ mlBuf' \in [Article -> Nat]
      BY <2>2, BufUpdate DEF DeliveryFails, Bufs
    <3> QED
      BY <2>2, <3>1 DEF DeliveryFails, Bufs
  <2> QED
    BY <1>2, <2>1, <2>2
<1>3. CASE IngestCrash
  BY <1>3, <1>b, <1>c DEF IngestCrash, Bufs
<1>4. ASSUME NEW g \in Group, NEW p \in Partition, PPoll(g, p)
      PROVE  Bufs'
  BY <1>4 DEF PPoll, Bufs, bufVars, histVars
<1>5. ASSUME NEW g \in Group,
             PReturn(g) \/ PCommitLands(g) \/ PStop(g) \/ PEmptyPoll(g)
      PROVE  Bufs'
  BY <1>5 DEF PReturn, PCommitLands, PStop, PEmptyPoll, Bufs, bufVars, histVars
<1>6. ASSUME NEW g \in Group, PCrash(g) \/ PStart(g)
      PROVE  Bufs'
  BY <1>6, <1>b, <1>c DEF PCrash, PStart, Bufs, histVars
<1>7. CASE Enrich
  BY <1>7, <1>a, BufUpdate DEF Enrich, InHandler, Bufs, histVars
<1>8. CASE EnrichFails \/ StoreFails \/ Index
  BY <1>8, <1>a DEF EnrichFails, StoreFails, Index, InHandler, Bufs, bufVars
<1>9. CASE Upsert \/ ReplaceRelated \/ UpdateEvents \/ EnrichEnergy \/ EmbedFails
  BY <1>9 DEF Upsert, ReplaceRelated, UpdateEvents, EnrichEnergy, EmbedFails,
              Bufs, bufVars, histVars
<1>10. CASE SelectRow \/ InsertEmbedding \/ GenerateStart \/ GenerateOne
  BY <1>10 DEF SelectRow, InsertEmbedding, GenerateStart, GenerateOne,
               Bufs, bufVars, histVars
<1>11. CASE UNCHANGED pipelineVars
  BY <1>11 DEF pipelineVars, Bufs, bufVars, histVars
<1> QED
  BY <1>1, <1>2, <1>3, <1>4, <1>5, <1>6, <1>7, <1>8, <1>9, <1>10, <1>11 DEF PNext

\* Every variable of the pipeline keeps its type.
THEOREM PipelineTypeCorrect == PSpec => []PTypeOK
<1>1. PInit => Bufs
  BY DEF PInit, Bufs, Empty
<1>2. IInv /\ Bufs /\ [PNext]_pipelineVars => Bufs'
  BY BufsStep
<1>3. DInv /\ Bufs => PTypeOK
  <2> SUFFICES ASSUME DInv, Bufs PROVE PTypeOK
    OBVIOUS
  <2>1. \A table \in {row, related, attached, energy, esDoc, embedding} :
           table \in [Key -> Article \cup {None}]
    BY DEF DInv, Types, Table
  <2> QED
    BY <2>1 DEF PTypeOK, DInv, IInv, Types, Steps, Bufs
<1>4. DInv => IInv
  BY DEF DInv
<1> QED
  BY <1>1, <1>2, <1>3, <1>4, PipelineInductive, PTL DEF PSpec
-----------------------------------------------------------------------------
(* Nothing the enrichment consumer has finished with disappears unnoticed. *)

\* Article a is on its way to the output topic, on it, or known to be lost.
Held(a) == a \in lost \/ mlBuf[a] > 0 \/ InTopic("processed_articles", a)

\* A handler of "ml" that has returned has handed its article on.
HandedOn == Handling("ml") /\ step["ml"] = "done" => Held(Handled("ml"))

\* Appending keeps what is on a topic there, and adds the message appended.
LEMMA AppendInTopic ==
  ASSUME TypeOK, NEW t \in Topic, NEW p \in Partition, NEW m \in Message,
         Produce(t, p, m)
  PROVE  /\ InTopic(t, m)'
         /\ \A u \in Topic : \A a : InTopic(u, a) => InTopic(u, a)'
<1> DEFINE s == log[t][p]
<1>1. s \in Seq(Message)
  BY DEF TypeOK
<1>2. log'[t][p] = Append(s, m)
  BY DEF Produce, Append1, TypeOK
<1>3. /\ Len(Append(s, m)) = Len(s) + 1 /\ Len(s) \in Nat
      /\ Append(s, m)[Len(s) + 1] = m
      /\ \A o \in 1..Len(s) : Append(s, m)[o] = s[o]
  BY <1>1
<1>4. InTopic(t, m)'
  <2>1. Len(s) + 1 \in 1..Len(log'[t][p]) /\ log'[t][p][Len(s) + 1] = m
    BY <1>2, <1>3
  <2> QED
    BY <2>1 DEF InTopic
<1>5. ASSUME NEW u \in Topic, NEW a, InTopic(u, a)
      PROVE  InTopic(u, a)'
  <2>1. PICK q \in Partition : \E o \in 1..Len(log[u][q]) : log[u][q][o] = a
    BY <1>5 DEF InTopic
  <2>o. PICK o \in 1..Len(log[u][q]) : log[u][q][o] = a
    BY <2>1
  <2>2. CASE u = t /\ q = p
    <3>1. o \in 1..Len(log'[t][p]) /\ log'[t][p][o] = a
      BY <2>o, <2>2, <1>2, <1>3
    <3> QED
      BY <2>2, <3>1 DEF InTopic
  <2>3. CASE ~(u = t /\ q = p)
    <3>1. log'[u][q] = log[u][q]
      BY <2>3 DEF Produce, Append1, TypeOK
    <3> QED
      BY <2>o, <3>1 DEF InTopic
  <2> QED
    BY <2>2, <2>3
<1> QED
  BY <1>4, <1>5

\* No step takes an article from the buffer without sending it or recording
\* the loss: restarts included, because the old process flushed.
LEMMA HeldStays ==
  ASSUME IInv, Bufs, [PNext]_pipelineVars, NEW a \in Article, Held(a)
  PROVE  Held(a)'
<1> USE PipelineAssumption
<1>0. TypeOK /\ mlBuf \in [Article -> Nat]
  BY DEF IInv, Bufs
<1>1. ASSUME NEW b \in Article, NEW p \in Partition,
             DeliverRaw(b, p) \/ DeliverProcessed(b, p) \/ DeliverTwice(b, p)
      PROVE  Held(a)'
  <2>1. CASE DeliverRaw(b, p)
    BY <2>1, <1>0, AppendInTopic DEF DeliverRaw, Held, histVars
  <2>2. CASE DeliverProcessed(b, p)
    <3>1. /\ InTopic("processed_articles", b)'
          /\ InTopic("processed_articles", a) => InTopic("processed_articles", a)'
      BY <2>2, <1>0, AppendInTopic DEF DeliverProcessed
    <3>2. a # b => mlBuf'[a] = mlBuf[a]
      BY <2>2, <1>0 DEF DeliverProcessed
    <3> QED
      BY <2>2, <3>1, <3>2 DEF DeliverProcessed, Held, histVars
  <2>3. CASE DeliverTwice(b, p)
    BY <2>3, <1>0, AppendInTopic DEF DeliverTwice, Held, bufVars
  <2> QED
    BY <1>1, <2>1, <2>2, <2>3
<1>2. ASSUME UNCHANGED log, lost \subseteq lost',
             mlBuf[a] > 0 => mlBuf'[a] > 0 \/ a \in lost'
      PROVE  Held(a)'
  BY <1>2 DEF Held, InTopic
<1>3. ASSUME NEW b \in Article, Fetch(b) \/ DeliveryFails(b)
      PROVE  Held(a)'
  <2>1. UNCHANGED log /\ lost \subseteq lost'
    BY <1>3 DEF Fetch, DeliveryFails, vars
  <2>2. mlBuf'[a] = mlBuf[a] \/ a \in lost'
    BY <1>3, <1>0 DEF Fetch, DeliveryFails
  <2> QED
    BY <1>2, <2>1, <2>2
<1>4. CASE IngestCrash
  BY <1>2, <1>4 DEF IngestCrash, vars
<1>5. ASSUME NEW g \in Group, NEW p \in Partition, PPoll(g, p)
      PROVE  Held(a)'
  BY <1>2, <1>5 DEF PPoll, Poll, brokerVars, bufVars, histVars
<1>6. ASSUME NEW g \in Group,
             PReturn(g) \/ PCommitLands(g) \/ PStop(g) \/ PEmptyPoll(g)
      PROVE  Held(a)'
  <2>1. UNCHANGED <<log, mlBuf, lost>>
    BY <1>6 DEF PReturn, PCommitLands, PStop, PEmptyPoll, Return, CommitLands, Stop,
                EmptyPoll, brokerVars, bufVars, histVars
  <2> QED
    BY <1>2, <2>1
<1>7. ASSUME NEW g \in Group, PCrash(g)
      PROVE  Held(a)'
  <2>1. UNCHANGED log /\ lost \subseteq lost'
    BY <1>7 DEF PCrash, Crash, brokerVars
  <2>2. mlBuf[a] > 0 => mlBuf'[a] > 0 \/ a \in lost'
    BY <1>7 DEF PCrash, InBuffer
  <2> QED
    BY <1>2, <2>1, <2>2
<1>8. ASSUME NEW g \in Group, PStart(g)
      PROVE  Held(a)'
  <2>1. UNCHANGED <<log, lost>>
    BY <1>8 DEF PStart, Start, brokerVars, histVars
  <2>2. mlBuf[a] > 0 => mlBuf'[a] > 0
    BY <1>8 DEF PStart, Flushed, InBuffer
  <2> QED
    BY <1>2, <2>1, <2>2
<1>9. CASE Enrich
  <2>1. mlBuf[a] > 0 => mlBuf'[a] > 0
    BY <1>9, <1>0 DEF Enrich
  <2> QED
    BY <1>2, <1>9, <2>1 DEF Enrich, vars, histVars
<1>10. CASE EnrichFails
  BY <1>2, <1>10 DEF EnrichFails, vars, bufVars
<1>11. CASE \/ Upsert \/ ReplaceRelated \/ UpdateEvents \/ EnrichEnergy \/ Index
            \/ StoreFails
  <2>1. UNCHANGED <<log, mlBuf, lost>>
    BY <1>11 DEF Upsert, ReplaceRelated, UpdateEvents, EnrichEnergy, Index, StoreFails,
                 vars, bufVars, histVars
  <2> QED
    BY <1>2, <2>1
<1>12. CASE SelectRow \/ InsertEmbedding \/ EmbedFails \/ GenerateStart \/ GenerateOne
  <2>1. UNCHANGED <<log, mlBuf, lost>>
    BY <1>12 DEF SelectRow, InsertEmbedding, EmbedFails, GenerateStart, GenerateOne,
                 vars, bufVars, histVars
  <2> QED
    BY <1>2, <2>1
<1>13. CASE UNCHANGED pipelineVars
  BY <1>2, <1>13 DEF pipelineVars, vars, bufVars, histVars
<1> QED
  BY <1>1, <1>3, <1>4, <1>5, <1>6, <1>7, <1>8, <1>9, <1>10, <1>11, <1>12, <1>13
  DEF PNext

\* A handler of "ml" is done only after it has queued its article or lost it.
LEMMA HandedOnStep ==
  ASSUME IInv, Types, Bufs, HandedOn, [PNext]_pipelineVars
  PROVE  HandedOn'
<1> USE PipelineAssumption
<1>0. \A a \in Article : Held(a) => Held(a)'
  BY HeldStays
<1>a. Handling("ml") => Handled("ml") \in Article
  BY HandledIsArticle DEF Handling
\* While the handler stays where it is, HeldStays carries the claim.
<1>1. ASSUME Handling("ml")' /\ step'["ml"] = "done" =>
               /\ Handling("ml") /\ step["ml"] = "done"
               /\ Handled("ml")' = Handled("ml")
      PROVE  HandedOn'
  BY <1>0, <1>1, <1>a DEF HandedOn
<1>2. ASSUME UNCHANGED <<log, current, alive>>,
             "ml" \in Group => step'["ml"] = step["ml"]
      PROVE  HandedOn'
  BY <1>1, <1>2 DEF Handling, Handled, TopicLog
<1>3. ASSUME NEW b \in Article, NEW p \in Partition,
             DeliverRaw(b, p) \/ DeliverProcessed(b, p) \/ DeliverTwice(b, p)
      PROVE  HandedOn'
  <2>1. PICK t \in Topic : Produce(t, p, b)
    BY <1>3 DEF DeliverRaw, DeliverProcessed, DeliverTwice
  <2>2. UNCHANGED <<current, alive, step>>
    BY <1>3, <2>1 DEF Produce, runnerVars, DeliverRaw, DeliverProcessed, DeliverTwice
  <2>3. Handling("ml")' => Handling("ml") /\ Handled("ml")' = Handled("ml")
    BY <2>1, <2>2, HandledIsStable DEF Handling
  <2> QED
    BY <1>1, <2>2, <2>3
<1>4. ASSUME NEW g \in Group, NEW p \in Partition, PPoll(g, p)
      PROVE  HandedOn'
  <2>1. CASE g = "ml"
    <3>1. step'["ml"] = "enrich"
      BY <1>4, <2>1 DEF PPoll, Goto, FirstStep, Types
    <3> QED
      BY <3>1 DEF HandedOn
  <2>2. CASE g # "ml"
    <3>1. /\ UNCHANGED <<log, alive>>
          /\ "ml" \in Group => current'["ml"] = current["ml"] /\ step'["ml"] = step["ml"]
      BY <1>4, <2>2 DEF PPoll, Poll, Goto, Types, IInv, TypeOK, brokerVars
    <3> QED
      BY <1>1, <3>1 DEF Handling, Handled, TopicLog
  <2> QED
    BY <2>1, <2>2
<1>5. ASSUME NEW g \in Group, PReturn(g) \/ PEmptyPoll(g) \/ PCrash(g)
      PROVE  HandedOn'
  <2>1. UNCHANGED log
    BY <1>5 DEF PReturn, Return, PEmptyPoll, EmptyPoll, PCrash, Crash, brokerVars
  <2>2. /\ current'[g] = Idle \/ ~alive'[g]
        /\ \A h \in Group \ {g} : /\ current'[h] = current[h]
                                  /\ alive'[h] = alive[h]
                                  /\ step'[h] = step[h]
    BY <1>5 DEF PReturn, Return, PEmptyPoll, EmptyPoll, PCrash, Crash, Goto, Types,
                IInv, TypeOK
  <2> QED
    BY <1>1, <2>1, <2>2 DEF Handling, Handled, TopicLog
<1>6. ASSUME NEW g \in Group, PCommitLands(g) \/ PStop(g)
      PROVE  HandedOn'
  BY <1>2, <1>6 DEF PCommitLands, CommitLands, PStop, Stop, brokerVars, runnerVars
<1>7. ASSUME NEW g \in Group, PStart(g)
      PROVE  HandedOn'
  <2>1. current[g] = Idle /\ UNCHANGED <<log, current, step>>
    BY <1>7 DEF PStart, Start, IInv, CursorInv, CurrentAtCursor, brokerVars
  <2>2. \A h \in Group \ {g} : alive'[h] = alive[h]
    BY <1>7 DEF PStart, Start, IInv, TypeOK
  <2> QED
    BY <1>1, <2>1, <2>2 DEF Handling, Handled, TopicLog
<1>8. CASE Enrich
  <2>1. UNCHANGED vars /\ mlBuf'[Handled("ml")] = mlBuf[Handled("ml")] + 1
    BY <1>8, <1>a DEF Enrich, InHandler, Bufs
  <2>2. Handled("ml")' = Handled("ml")
    BY <2>1 DEF vars, Handled, TopicLog
  <2>3. mlBuf[Handled("ml")] \in Nat
    BY <1>8, <1>a DEF Enrich, InHandler, Bufs
  <2> QED
    BY <2>1, <2>2, <2>3 DEF HandedOn, Held
<1>9. CASE EnrichFails
  <2>1. UNCHANGED vars /\ Handled("ml") \in lost'
    BY <1>9 DEF EnrichFails
  <2>2. Handled("ml")' = Handled("ml")
    BY <2>1 DEF vars, Handled, TopicLog
  <2> QED
    BY <2>1, <2>2 DEF HandedOn, Held
<1>10. CASE \/ Upsert \/ ReplaceRelated \/ UpdateEvents \/ EnrichEnergy \/ Index
            \/ StoreFails
  <2>1. UNCHANGED vars /\ \E s : step' = [step EXCEPT !["db"] = s]
    BY <1>10 DEF Upsert, ReplaceRelated, UpdateEvents, EnrichEnergy, Index, StoreFails,
                 Goto
  <2> QED
    BY <1>2, <2>1 DEF vars, Types
<1>11. CASE SelectRow \/ InsertEmbedding \/ EmbedFails
  <2>1. UNCHANGED vars /\ \E s : step' = [step EXCEPT !["em"] = s]
    BY <1>11 DEF SelectRow, InsertEmbedding, EmbedFails, Goto
  <2> QED
    BY <1>2, <2>1 DEF vars, Types
<1>12. CASE GenerateStart \/ GenerateOne \/ IngestCrash
            \/ (\E b \in Article : Fetch(b) \/ DeliveryFails(b))
  BY <1>2, <1>12 DEF GenerateStart, GenerateOne, IngestCrash, Fetch, DeliveryFails, vars
<1>13. CASE UNCHANGED pipelineVars
  BY <1>2, <1>13 DEF pipelineVars, vars
<1> QED
  BY <1>3, <1>4, <1>5, <1>6, <1>7, <1>8, <1>9, <1>10, <1>11, <1>12, <1>13 DEF PNext

\* What is finished stays accounted for, and what a handler of "ml" finishes
\* has been handed on.
LEMMA AccountedStep ==
  ASSUME IInv, IInv', Bufs, HandedOn, EnrichmentAccounted, [PNext]_pipelineVars
  PROVE  EnrichmentAccounted'
<1> USE PipelineAssumption
<1> DEFINE raw == log["raw_articles"]
<1>0. \A a \in Article : Held(a) => Held(a)'
  BY HeldStays
<1>1. SUFFICES ASSUME NEW p \in Partition, NEW o \in 1..Len(raw'[p]),
                      <<"ml", p, o>> \in finished',
                      NEW a, raw'[p][o] = a
               PROVE  Held(a)'
  BY DEF EnrichmentAccounted, Held
<1>2. "ml" \in Group /\ TopicLog("ml") = raw
  BY <1>1, RunnerAssumption DEF IInv, TypeOK, TopicLog
<1>3. CASE <<"ml", p, o>> \in finished
  <2>1. o \in 1..Len(raw[p])
    BY <1>2, <1>3 DEF IInv, HandledInOrder
  <2>2. raw[p] \in Seq(Article)
    BY DEF IInv, TypeOK
  <2>3. raw[p][o] \in Article /\ Held(raw[p][o])
    BY <2>1, <2>2, <1>3 DEF EnrichmentAccounted, Held
  <2>4. raw'[p][o] = raw[p][o]
    <3>1. [Next]_vars
      BY PipelineStep
    <3>2. \/ UNCHANGED log
          \/ \E t \in Topic, q \in Partition, m \in Article :
               log' = [log EXCEPT ![t][q] = Append(@, m)]
      BY <3>1 DEF Next, Produce, Append1, Poll, EmptyPoll, Return, CommitLands, Stop,
                  Crash, Start, brokerVars, vars
    <3>3. ASSUME NEW t \in Topic, NEW q \in Partition, NEW m \in Article,
                 log' = [log EXCEPT ![t][q] = Append(@, m)]
          PROVE  raw'[p] \in {raw[p], Append(raw[p], m)}
      BY <3>3 DEF IInv, TypeOK
    <3>4. ASSUME NEW m \in Article, raw'[p] = Append(raw[p], m)
          PROVE  raw'[p][o] = raw[p][o]
      BY <3>4, <2>1, <2>2
    <3> QED
      BY <3>2, <3>3, <3>4
  <2> QED
    BY <2>3, <2>4, <1>0, <1>1
<1>4. CASE <<"ml", p, o>> \notin finished
  <2>1. PReturn("ml") /\ current["ml"][1] = p /\ current["ml"][2] = o
    <3>1. \E g \in Group : /\ PReturn(g)
                           /\ finished' = finished \cup {<<g, current[g][1], current[g][2]>>}
      BY <1>1, <1>4
      DEF PNext, pipelineVars, vars, Fetch, DeliveryFails, DeliverRaw, DeliverProcessed,
          DeliverTwice, Produce, IngestCrash, PPoll, Poll, PReturn, Return, PCommitLands,
          CommitLands, PStop, Stop, PEmptyPoll, EmptyPoll, PCrash, Crash, PStart, Start,
          Enrich, EnrichFails, Upsert, ReplaceRelated, UpdateEvents, EnrichEnergy, Index,
          StoreFails, SelectRow, InsertEmbedding, EmbedFails, GenerateStart, GenerateOne
    <3> QED
      BY <3>1, <1>1, <1>4
  <2>2. Handling("ml") /\ step["ml"] = "done" /\ UNCHANGED log
    BY <2>1, <1>2 DEF PReturn, Return, Handling, brokerVars
  <2>3. Handled("ml") = raw'[p][o]
    BY <2>1, <2>2, <1>2 DEF Handled
  <2>4. Handled("ml") \in Article /\ Held(Handled("ml"))
    BY <2>2, <1>2, HandledIsArticle DEF HandedOn
  <2> QED
    BY <2>3, <2>4, <1>0, <1>1
<1> QED
  BY <1>3, <1>4

\* For any articles, partitions and number of crashes, stops, faults and
\* repeated or failed deliveries: what "ml" has finished with is on its way,
\* on the output topic, or was lost to a fault.
THEOREM EnrichmentAlwaysAccounted == PSpec => []EnrichmentAccounted
<1>1. PInit => Bufs /\ HandedOn /\ EnrichmentAccounted
  BY DEF PInit, Init, Bufs, Empty, HandedOn, Handling, EnrichmentAccounted
<1>2. /\ IInv /\ Types /\ IInv' /\ Bufs /\ HandedOn /\ EnrichmentAccounted
      /\ [PNext]_pipelineVars
      => (Bufs /\ HandedOn /\ EnrichmentAccounted)'
  BY BufsStep, HandedOnStep, AccountedStep
<1>3. DInv => IInv /\ Types
  BY DEF DInv
<1> QED
  BY <1>1, <1>2, <1>3, PipelineInductive, PTL DEF PSpec
-----------------------------------------------------------------------------
(* PostgreSQL and Elasticsearch agree on what has been committed.          *)

Output == log["processed_articles"]

\* The messages of key k, and the place below which the database consumer has
\* polled them: its cursor, or where at most a successor will resume.
Copies(k) == {c \in Partition \X Nat : /\ c[2] \in 1..Len(Output[c[1]])
                                       /\ KeyOf[Output[c[1]][c[2]]] = k}
Frontier(p) == IF alive["db"] THEN position["db"][p] ELSE requested["db"][p]

\* The stores agree on k, or the handler is at work on it, or some copy of it
\* is still to be polled, or there is none, or a fault cut its handler short.
Settled(k) ==
  \/ k \in damaged
  \/ Agree(k)
  \/ Handling("db") /\ HandledKey("db") = k
  \/ Copies(k) = {}
  \/ \E c \in Copies(k) : c[2] > Frontier(c[1])

\* How far the handler of article a has brought the stores when it is about
\* to take step s, and that no commit covers the article yet.
Stored(k, a, s) ==
  /\ s \in {"related", "events", "energy", "index"} => row[k] = a
  /\ s \in {"events", "energy", "index"} => related[k] = a
  /\ s \in {"energy", "index"} => attached[k] = a
  /\ s = "index" => energy[k] = a
  /\ s = "done" => k \in damaged \/ Agree(k)

MidHandler ==
  Handling("db") =>
    /\ Stored(HandledKey("db"), Handled("db"), step["db"])
    /\ requested["db"][current["db"][1]] < current["db"][2]

LogBounded == \A t \in Topic, p \in Partition : Len(log[t][p]) <= MaxLog

SInv == LogBounded /\ MidHandler /\ \A k \in Key : Settled(k)

\* The message in the handler is one of the copies of its key.
LEMMA HandledIsCopy ==
  ASSUME IInv, Handling("db")
  PROVE  current["db"] \in Copies(HandledKey("db"))
<1>1. /\ current["db"][1] \in Partition
      /\ current["db"] = <<current["db"][1], current["db"][2]>>
      /\ current["db"][2] \in 1..Len(TopicLog("db")[current["db"][1]])
  BY CurrentInLog DEF Handling
<1>2. TopicLog("db") = Output
  BY PipelineAssumption DEF TopicLog, Output, Handling
<1>3. current["db"][2] \in Nat
  BY <1>1
<1>4. current["db"] \in Partition \X Nat
  BY <1>1, <1>3
<1> QED
  BY <1>1, <1>2, <1>4 DEF Copies, HandledKey, Handled

\* Cursors of the database consumer, as numbers.
LEMMA DbCursors ==
  ASSUME IInv, "db" \in Group, NEW p \in Partition
  PROVE  /\ committed["db"][p] \in Nat /\ requested["db"][p] \in Nat
         /\ position["db"][p] \in Nat /\ Len(Output[p]) \in Nat
         /\ committed["db"][p] <= requested["db"][p]
         /\ requested["db"][p] <= position["db"][p]
         /\ position["db"][p] <= Len(Output[p])
         /\ Frontier(p) \in {position["db"][p], requested["db"][p]}
<1>1. TopicLog("db") = Output
  BY PipelineAssumption DEF TopicLog, Output
<1>2. Output[p] \in Seq(Message)
  BY PipelineAssumption DEF IInv, TypeOK, Output
<1> QED
  BY <1>1, <1>2 DEF IInv, TypeOK, CursorInv, CursorsOrdered, Frontier

\* A message appended to the output topic lies beyond the frontier.
LEMMA CopiesAfterProduce ==
  ASSUME IInv, "db" \in Group, NEW t \in Topic, NEW q \in Partition,
         NEW m \in Message, Produce(t, q, m), NEW k \in Key
  PROVE  /\ Copies(k) \subseteq Copies(k)'
         /\ \A c \in Copies(k)' : c \in Copies(k) \/ c[2] > Frontier(c[1])
<1>0. log' = [log EXCEPT ![t][q] = Append(@, m)]
  BY DEF Produce, Append1
<1>1. ASSUME NEW p \in Partition
      PROVE  /\ Output[p] \in Seq(Message)
             /\ Output'[p] \in {Output[p], Append(Output[p], m)}
  BY <1>0, PipelineAssumption DEF IInv, TypeOK, Output
<1>2. ASSUME NEW p \in Partition
      PROVE  /\ \A o \in 1..Len(Output[p]) :
                   o \in 1..Len(Output'[p]) /\ Output'[p][o] = Output[p][o]
             /\ \A o \in 1..Len(Output'[p]) :
                   o \in 1..Len(Output[p]) \/ o > Len(Output[p])
  BY <1>1
<1>3. ASSUME NEW p \in Partition
      PROVE  Frontier(p) \in Nat /\ Frontier(p) <= Len(Output[p])
  BY DbCursors
<1>4. Copies(k) \subseteq Copies(k)'
  BY <1>2 DEF Copies
<1>5. ASSUME NEW c \in Copies(k)', c \notin Copies(k)
      PROVE  c[2] > Frontier(c[1])
  <2>1. /\ c \in Partition \X Nat /\ c[1] \in Partition
        /\ c[2] \in 1..Len(Output'[c[1]])
        /\ KeyOf[Output'[c[1]][c[2]]] = k
    BY <1>5 DEF Copies
  <2>2. c[2] \notin 1..Len(Output[c[1]])
    BY <2>1, <1>2, <1>5 DEF Copies
  <2>3. Len(Output[c[1]]) \in Nat
    BY <2>1, <1>1
  <2> QED
    BY <2>1, <2>2, <2>3, <1>2, <1>3
<1> QED
  BY <1>4, <1>5

\* A step that leaves the loop and the message alone settles no less.
LEMMA SettledKept ==
  ASSUME IInv, IInv', "db" \in Group, NEW k \in Key, Settled(k),
         UNCHANGED log,
         \/ Handling("db") /\ HandledKey("db") = k
         \/ (k \in damaged => k \in damaged') /\ (Agree(k) => Agree(k)'),
         \A p \in Partition : Frontier(p)' <= Frontier(p),
         Handling("db") /\ HandledKey("db") = k => Settled(k)'
  PROVE  Settled(k)'
<1>1. Copies(k)' = Copies(k)
  BY DEF Copies, Output
<1>2. CASE Handling("db") /\ HandledKey("db") = k
  BY <1>2
<1>3. CASE \E c \in Copies(k) : c[2] > Frontier(c[1])
  <2>1. PICK c \in Copies(k) : c[2] > Frontier(c[1])
    BY <1>3
  <2>2. c[1] \in Partition /\ c[2] \in Nat
    BY DEF Copies
  <2>3. Frontier(c[1]) \in Nat /\ Frontier(c[1])' \in Nat
    <3>1. Frontier(c[1]) \in Nat
      BY <2>2, DbCursors
    <3>2. Frontier(c[1])' \in Nat
      BY <2>2 DEF IInv, TypeOK, Frontier
    <3> QED
      BY <3>1, <3>2
  <2>4. c[2] > Frontier(c[1])'
    BY <2>1, <2>2, <2>3
  <2> QED
    BY <2>4, <1>1 DEF Settled
<1>4. CASE Copies(k) = {}
  BY <1>1, <1>4 DEF Settled
<1>5. CASE k \in damaged \/ Agree(k)
  BY <1>2, <1>5 DEF Settled
<1> QED
  BY <1>2, <1>3, <1>4, <1>5 DEF Settled

\* What the database consumer, its topic and its stores do not take part in
\* changes nothing.
LEMMA DbUntouched ==
  ASSUME MidHandler, \A k \in Key : Settled(k),
         UNCHANGED <<log, storeVars, damaged>>,
         position'["db"] = position["db"], requested'["db"] = requested["db"],
         current'["db"] = current["db"], alive'["db"] = alive["db"],
         step'["db"] = step["db"]
  PROVE  MidHandler' /\ \A k \in Key : Settled(k)'
<1>1. /\ Handling("db")' = Handling("db")
      /\ Handled("db")' = Handled("db") /\ HandledKey("db")' = HandledKey("db")
  BY DEF Handling, Handled, HandledKey, TopicLog
<1>2. \A k : Agree(k)' = Agree(k) /\ Copies(k)' = Copies(k)
  BY DEF Agree, Copies, Output, storeVars
<1>3. \A p : Frontier(p)' = Frontier(p)
  BY DEF Frontier
<1>4. MidHandler'
  BY <1>1, <1>2 DEF MidHandler, Stored, storeVars
<1>5. \A k \in Key : Settled(k)'
  BY <1>1, <1>2, <1>3 DEF Settled
<1> QED
  BY <1>4, <1>5

\* A message arrives on a topic.
LEMMA DbProduce ==
  ASSUME IInv, "db" \in Group, MidHandler, \A k \in Key : Settled(k),
         NEW t \in Topic, NEW q \in Partition, NEW m \in Message, Produce(t, q, m),
         UNCHANGED <<step, storeVars, damaged>>
  PROVE  MidHandler' /\ \A k \in Key : Settled(k)'
<1>1. UNCHANGED <<position, current, requested, alive>>
  BY DEF Produce, runnerVars
<1>2. Handling("db")' = Handling("db")
  BY <1>1 DEF Handling
<1>3. Handling("db") => /\ Handled("db")' = Handled("db")
                        /\ HandledKey("db")' = HandledKey("db")
  BY HandledIsStable DEF HandledKey
<1>4. \A k : Agree(k)' = Agree(k)
  BY DEF Agree, storeVars
<1>5. MidHandler'
  BY <1>1, <1>2, <1>3, <1>4 DEF MidHandler, Stored, storeVars
<1>6. ASSUME NEW k \in Key
      PROVE  Settled(k)'
  <2>1. /\ Copies(k) \subseteq Copies(k)'
        /\ \A c \in Copies(k)' : c \in Copies(k) \/ c[2] > Frontier(c[1])
    BY CopiesAfterProduce
  <2>2. \A p : Frontier(p)' = Frontier(p)
    BY <1>1 DEF Frontier
  <2>3. CASE \E c \in Copies(k) : c[2] > Frontier(c[1])
    BY <2>1, <2>2, <2>3 DEF Settled
  <2>4. CASE Copies(k) = {}
    BY <2>1, <2>2, <2>4 DEF Settled
  <2>5. CASE k \in damaged \/ Agree(k)
    BY <1>4, <2>5 DEF Settled
  <2>6. CASE Handling("db") /\ HandledKey("db") = k
    BY <1>2, <1>3, <2>6 DEF Settled
  <2> QED
    BY <2>3, <2>4, <2>5, <2>6 DEF Settled
<1> QED
  BY <1>5, <1>6

\* The loop of the database consumer.
LEMMA DbPoll ==
  ASSUME IInv, IInv', Types, "db" \in Group, MidHandler, \A k \in Key : Settled(k),
         NEW q \in Partition, PPoll("db", q)
  PROVE  MidHandler' /\ \A k \in Key : Settled(k)'
<1>1. /\ current["db"] = Idle
      /\ current'["db"] = <<q, position["db"][q] + 1>>
      /\ position'["db"] = [position["db"] EXCEPT ![q] = @ + 1]
      /\ UNCHANGED <<log, requested, alive, storeVars, damaged>>
      /\ alive["db"] /\ step'["db"] = "upsert"
  BY DEF PPoll, Poll, Goto, FirstStep, brokerVars, histVars, IInv, TypeOK, Types
<1>2. ~Handling("db") /\ Handling("db")'
  BY <1>1 DEF Handling, Idle
<1>3. requested["db"][q] < position["db"][q] + 1
  BY DbCursors
<1>4. MidHandler'
  BY <1>1, <1>3 DEF MidHandler, Stored
<1>5. ASSUME NEW k \in Key
      PROVE  Settled(k)'
  <2>1. Copies(k)' = Copies(k) /\ Agree(k)' = Agree(k)
    BY <1>1 DEF Copies, Output, Agree, storeVars
  <2>2. CASE \E c \in Copies(k) : c[2] > Frontier(c[1])
    <3>1. PICK c \in Copies(k) : c[2] > Frontier(c[1])
      BY <2>2
    <3>2. /\ c \in Partition \X Nat /\ c = <<c[1], c[2]>>
          /\ c[2] \in 1..Len(Output[c[1]]) /\ KeyOf[Output[c[1]][c[2]]] = k
      BY DEF Copies
    <3>3. c[2] > position["db"][c[1]] /\ position["db"][c[1]] \in Nat
      BY <3>1, <3>2, <1>1, DbCursors DEF Frontier
    <3>4. CASE c = <<q, position["db"][q] + 1>>
      <4>1. TopicLog("db")' = Output
        BY <1>1, PipelineAssumption DEF TopicLog, Output
      <4>2. HandledKey("db")' = k
        BY <3>2, <3>4, <4>1, <1>1 DEF HandledKey, Handled
      <4> QED
        BY <4>2, <1>2 DEF Settled
    <3>5. CASE c # <<q, position["db"][q] + 1>>
      <4>1. c[2] > position'["db"][c[1]]
        <5>1. CASE c[1] = q
          <6>1. c[2] # position["db"][q] + 1
            BY <3>2, <3>5, <5>1
          <6>2. position'["db"][q] = position["db"][q] + 1
            BY <1>1 DEF IInv, TypeOK
          <6> QED
            BY <3>2, <3>3, <5>1, <6>1, <6>2
        <5>2. CASE c[1] # q
          <6>1. position'["db"][c[1]] = position["db"][c[1]]
            BY <1>1, <3>2, <5>2 DEF IInv, TypeOK
          <6> QED
            BY <3>3, <6>1
        <5> QED
          BY <5>1, <5>2
      <4>2. c \in Copies(k)' /\ c[2] > Frontier(c[1])'
        BY <4>1, <2>1, <1>1 DEF Frontier
      <4> QED
        BY <4>2 DEF Settled
    <3> QED
      BY <3>4, <3>5
  <2> QED
    BY <2>1, <2>2, <1>1, <1>2 DEF Settled
<1> QED
  BY <1>4, <1>5

LEMMA DbReturn ==
  ASSUME IInv, IInv', Types, "db" \in Group, MidHandler, \A k \in Key : Settled(k),
         PReturn("db")
  PROVE  MidHandler' /\ \A k \in Key : Settled(k)'
<1>1. /\ alive["db"] /\ current["db"] # Idle /\ step["db"] = "done"
      /\ current'["db"] = Idle
      /\ requested'["db"] = position["db"] /\ position' = position
      /\ UNCHANGED <<log, storeVars, damaged>>
  BY DEF PReturn, Return, CommitTarget, brokerVars, histVars, IInv, TypeOK
<1>2. Handling("db") /\ ~Handling("db")'
  BY <1>1 DEF Handling
<1>3. MidHandler'
  BY <1>2 DEF MidHandler
<1>4. ASSUME NEW k \in Key
      PROVE  Settled(k)'
  <2>1. Copies(k)' = Copies(k) /\ Agree(k)' = Agree(k)
    BY <1>1 DEF Copies, Output, Agree, storeVars
  <2>2. \A p \in Partition : Frontier(p)' = Frontier(p)
    BY <1>1 DEF Frontier
  <2>3. \A c \in Copies(k) : c[1] \in Partition
    BY DEF Copies
  <2>4. CASE HandledKey("db") = k
    BY <1>1, <1>2, <2>1, <2>4 DEF MidHandler, Stored, Settled
  <2>5. CASE HandledKey("db") # k
    BY <1>1, <2>1, <2>2, <2>3, <2>5 DEF Settled
  <2> QED
    BY <2>4, <2>5
<1> QED
  BY <1>3, <1>4

\* The consumer stops between two messages, is killed, or starts again.
LEMMA DbRestart ==
  ASSUME IInv, IInv', Types, "db" \in Group, MidHandler, \A k \in Key : Settled(k),
         PEmptyPoll("db") \/ PCrash("db") \/ PStart("db")
  PROVE  MidHandler' /\ \A k \in Key : Settled(k)'
<1>1. current'["db"] = Idle /\ UNCHANGED <<log, storeVars, damaged>>
  <2>1. CASE PStart("db")
    BY <2>1 DEF PStart, Start, brokerVars, histVars, IInv, CursorInv, CurrentAtCursor
  <2>2. CASE PEmptyPoll("db") \/ PCrash("db")
    BY <2>2 DEF PEmptyPoll, EmptyPoll, PCrash, Crash, brokerVars, histVars, IInv, TypeOK
  <2> QED
    BY <2>1, <2>2
<1>2. ~Handling("db")'
  BY <1>1 DEF Handling
<1>3. MidHandler'
  BY <1>2 DEF MidHandler
<1>4. ASSUME NEW p \in Partition
      PROVE  /\ Frontier(p)' <= Frontier(p)
             /\ Handling("db") => Frontier(p)' = requested["db"][p]
  <2>1. /\ committed["db"][p] \in Nat /\ requested["db"][p] \in Nat
        /\ position["db"][p] \in Nat
        /\ committed["db"][p] <= requested["db"][p]
        /\ requested["db"][p] <= position["db"][p]
    BY DbCursors
  <2>2. CASE PStart("db")
    <3>1. /\ ~alive["db"] /\ alive'["db"]
          /\ position'["db"] = committed["db"]
      BY <2>2 DEF PStart, Start, ResumeAt, IInv, TypeOK
    <3> QED
      BY <3>1, <2>1 DEF Frontier, Handling
  <2>3. CASE PEmptyPoll("db") \/ PCrash("db")
    <3>1. alive["db"] /\ ~alive'["db"] /\ requested' = requested
      BY <2>3 DEF PEmptyPoll, EmptyPoll, PCrash, Crash, IInv, TypeOK
    <3> QED
      BY <3>1, <2>1 DEF Frontier
  <2> QED
    BY <2>2, <2>3
<1>5. ASSUME NEW k \in Key
      PROVE  Settled(k)'
  <2>1. Copies(k)' = Copies(k) /\ Agree(k)' = Agree(k)
    BY <1>1 DEF Copies, Output, Agree, storeVars
  <2>2. Handling("db") /\ HandledKey("db") = k => Settled(k)'
    <3>1. SUFFICES ASSUME Handling("db"), HandledKey("db") = k
                   PROVE  Settled(k)'
      OBVIOUS
    <3>2. PICK c \in Copies(k) : c = current["db"]
      BY <3>1, HandledIsCopy
    <3>3. c[1] \in Partition /\ c[2] \in Nat
      BY DEF Copies
    <3>4. requested["db"][c[1]] < c[2] /\ Frontier(c[1])' = requested["db"][c[1]]
      BY <3>1, <3>2, <3>3, <1>4 DEF MidHandler
    <3>5. requested["db"][c[1]] \in Nat
      BY <3>3, DbCursors
    <3>6. c[2] > Frontier(c[1])'
      BY <3>3, <3>4, <3>5
    <3> QED
      BY <3>6, <2>1 DEF Settled
  <2> QED
    BY <2>1, <2>2, <1>1, <1>4, SettledKept
<1> QED
  BY <1>3, <1>5

\* The steps of the handler touch only the key they handle, which needs
\* nothing of the stores until the handler returns.
LEMMA DbHandler ==
  ASSUME IInv, Types, "db" \in Group, MidHandler, \A k \in Key : Settled(k),
         Upsert \/ ReplaceRelated \/ UpdateEvents \/ EnrichEnergy \/ Index \/ StoreFails
  PROVE  MidHandler' /\ \A k \in Key : Settled(k)'
<1> DEFINE key == HandledKey("db")
           a == Handled("db")
<1>1. /\ Handling("db") /\ UNCHANGED vars
      /\ \A T \in {row, related, attached, energy, esDoc} : T \in Table
  BY DEF Upsert, ReplaceRelated, UpdateEvents, EnrichEnergy, Index, StoreFails,
         InHandler, Types
<1>2. key \in Key /\ a \in Article /\ a # None
  BY <1>1, HandledIsArticle, PipelineAssumption DEF Handling
<1>3. Handling("db")' /\ HandledKey("db")' = key /\ Handled("db")' = a
  BY <1>1 DEF vars, Handling, HandledKey, Handled, TopicLog
<1>4. UNCHANGED <<requested, current, position, alive, log>>
  BY <1>1 DEF vars
<1>5. Stored(key, a, step["db"]) /\ requested["db"][current["db"][1]] < current["db"][2]
  BY <1>1 DEF MidHandler
<1> HIDE DEF key, a
<1>6. Stored(key, a, step["db"])'
  <2>1. CASE Upsert
    BY <2>1, <1>1, <1>2, <1>3, <1>5
    DEF Upsert, InHandler, Goto, Stored, Types, Table, key, a
  <2>2. CASE ReplaceRelated
    BY <2>2, <1>1, <1>2, <1>3, <1>5
    DEF ReplaceRelated, InHandler, Goto, Stored, Types, Table, key, a
  <2>3. CASE UpdateEvents
    BY <2>3, <1>1, <1>2, <1>3, <1>5
    DEF UpdateEvents, InHandler, Goto, Stored, Types, Table, key, a
  <2>4. CASE EnrichEnergy
    BY <2>4, <1>1, <1>2, <1>3, <1>5
    DEF EnrichEnergy, RebuiltEnergy, InHandler, Goto, Stored, Types, Table, key, a
  <2>5. CASE Index
    <3>1. /\ row[key] = a /\ related[key] = a /\ attached[key] = a /\ energy[key] = a
      BY <2>5, <1>5 DEF Index, InHandler, Stored
    <3>2. /\ esDoc'[key] = a /\ step'["db"] = "done"
          /\ UNCHANGED <<row, related, attached, energy>>
      BY <2>5, <1>1, <1>2 DEF Index, Goto, Types, Table, key, a
    <3> QED
      BY <3>1, <3>2, <1>2, <1>3 DEF Stored, Agree, key, a
  <2>6. CASE StoreFails
    BY <2>6, <1>1, <1>2, <1>3 DEF StoreFails, AfterFault, Goto, Stored, Types, key, a
  <2> QED
    BY <2>1, <2>2, <2>3, <2>4, <2>5, <2>6
<1>7. MidHandler'
  BY <1>3, <1>4, <1>5, <1>6 DEF MidHandler, key, a
<1>8. ASSUME NEW k \in Key
      PROVE  Settled(k)'
  <2>1. CASE k = key
    BY <2>1, <1>3 DEF Settled
  <2>2. CASE k # key
    <3>1. Copies(k)' = Copies(k) /\ \A p : Frontier(p)' = Frontier(p)
      BY <1>4 DEF Copies, Output, Frontier
    <3>2. /\ row'[k] = row[k] /\ related'[k] = related[k] /\ attached'[k] = attached[k]
          /\ energy'[k] = energy[k] /\ esDoc'[k] = esDoc[k]
          /\ k \in damaged => k \in damaged'
      BY <2>2, <1>1 DEF Upsert, ReplaceRelated, UpdateEvents, EnrichEnergy, Index,
                        StoreFails, storeVars, histVars, Table, key
    <3>3. Agree(k)' = Agree(k)
      BY <3>2 DEF Agree
    <3> QED
      BY <2>2, <3>1, <3>2, <3>3 DEF Settled, key
  <2> QED
    BY <2>1, <2>2
<1> QED
  BY <1>7, <1>8

\* Every step of the pipeline keeps the stores settled.
LEMMA SettledStep ==
  ASSUME IInv, IInv', Types, "db" \in Group, MidHandler, \A k \in Key : Settled(k),
         [PNext]_pipelineVars
  PROVE  MidHandler' /\ \A k \in Key : Settled(k)'
<1> DEFINE Goal == MidHandler' /\ \A k \in Key : Settled(k)'
<1> USE PipelineAssumption
<1>1. ASSUME NEW b \in Article, NEW p \in Partition,
             DeliverRaw(b, p) \/ DeliverProcessed(b, p) \/ DeliverTwice(b, p)
      PROVE  Goal
  BY <1>1, DbProduce DEF DeliverRaw, DeliverProcessed, DeliverTwice, histVars
\* Steps of another consumer, or outside the consumers' loops.
<1>2. ASSUME UNCHANGED <<vars, step, storeVars, damaged>>
      PROVE  Goal
  BY <1>2, DbUntouched DEF vars
<1>3. ASSUME NEW g \in Group \ {"db"},
             UNCHANGED <<log, storeVars, damaged>>,
             \A h \in Group \ {g} : /\ position'[h] = position[h]
                                    /\ requested'[h] = requested[h]
                                    /\ current'[h] = current[h]
                                    /\ alive'[h] = alive[h]
                                    /\ step'[h] = step[h]
      PROVE  Goal
  BY <1>3, DbUntouched
<1>4. ASSUME NEW g \in Group \ {"db"}, NEW p \in Partition, PPoll(g, p)
      PROVE  Goal
  BY <1>3, <1>4 DEF PPoll, Poll, Goto, brokerVars, histVars, IInv, TypeOK, Types
<1>5. ASSUME NEW g \in Group, PCommitLands(g) \/ PStop(g)
      PROVE  Goal
  BY <1>5, DbUntouched
  DEF PCommitLands, CommitLands, PStop, Stop, brokerVars, runnerVars, histVars
<1>6. ASSUME NEW g \in Group \ {"db"}, PReturn(g) \/ PEmptyPoll(g) \/ PCrash(g) \/ PStart(g)
      PROVE  Goal
  <2>1. CASE PReturn(g) \/ PEmptyPoll(g)
    BY <1>3, <1>6, <2>1 DEF PReturn, Return, PEmptyPoll, EmptyPoll, brokerVars, histVars,
                            IInv, TypeOK
  <2>2. CASE PCrash(g) \/ PStart(g)
    BY <1>3, <1>6, <2>2 DEF PCrash, Crash, PStart, Start, Goto, brokerVars, histVars,
                            IInv, TypeOK, Types
  <2> QED
    BY <1>6, <2>1, <2>2
<1>7. ASSUME PReturn("db") \/ PEmptyPoll("db") \/ PCrash("db") \/ PStart("db")
      PROVE  Goal
  BY <1>7, DbReturn, DbRestart
<1>8. ASSUME NEW p \in Partition, PPoll("db", p)
      PROVE  Goal
  BY <1>8, DbPoll
<1>9. CASE Upsert \/ ReplaceRelated \/ UpdateEvents \/ EnrichEnergy \/ Index \/ StoreFails
  BY <1>9, DbHandler
<1>10. CASE Enrich \/ EnrichFails
  <2>1. "ml" \in Group
    BY <1>10 DEF Enrich, EnrichFails, InHandler, Handling
  <2> QED
    BY <1>3, <1>10, <2>1 DEF Enrich, EnrichFails, Goto, vars, histVars, Types
<1>11. CASE SelectRow \/ InsertEmbedding \/ EmbedFails
  <2>1. "em" \in Group
    BY <1>11 DEF SelectRow, InsertEmbedding, EmbedFails, InHandler, Handling
  <2> QED
    BY <1>3, <1>11, <2>1
    DEF SelectRow, InsertEmbedding, EmbedFails, Goto, vars, histVars, Types
<1>12. CASE GenerateStart \/ GenerateOne \/ IngestCrash
            \/ (\E b \in Article : Fetch(b) \/ DeliveryFails(b))
  BY <1>2, <1>12 DEF GenerateStart, GenerateOne, IngestCrash, Fetch, DeliveryFails,
                     storeVars, histVars
<1>13. CASE UNCHANGED pipelineVars
  BY <1>2, <1>13 DEF pipelineVars, histVars
<1> QED
  BY <1>1, <1>4, <1>5, <1>6, <1>7, <1>8, <1>9, <1>10, <1>11, <1>12, <1>13 DEF PNext

\* No partition outgrows its bound.
LEMMA LogBoundedStep ==
  ASSUME IInv, LogBounded, [PNext]_pipelineVars
  PROVE  LogBounded'
<1>1. [Next]_vars
  BY PipelineStep
<1>2. ASSUME NEW t \in Topic, NEW p \in Partition, NEW m \in Message, Produce(t, p, m)
      PROVE  LogBounded'
  <2>1. SUFFICES ASSUME NEW u \in Topic, NEW q \in Partition
                 PROVE  Len(log'[u][q]) <= MaxLog
    BY DEF LogBounded
  <2>2. CASE u = t /\ q = p
    <3>1. log'[u][q] = Append(log[t][p], m) /\ log[t][p] \in Seq(Message)
      BY <1>2, <2>2 DEF Produce, Append1, IInv, TypeOK
    <3>2. Len(log[t][p]) < MaxLog
      BY <1>2 DEF Produce
    <3>3. Len(log'[u][q]) = Len(log[t][p]) + 1 /\ Len(log[t][p]) \in Nat
      BY <3>1
    <3> QED
      BY <3>2, <3>3, RunnerAssumption
  <2>3. CASE ~(u = t /\ q = p)
    <3>1. log'[u][q] = log[u][q]
      BY <1>2, <2>3 DEF Produce, Append1, IInv, TypeOK
    <3> QED
      BY <3>1 DEF LogBounded
  <2> QED
    BY <2>2, <2>3
<1>3. ASSUME UNCHANGED log
      PROVE  LogBounded'
  BY <1>3 DEF LogBounded
<1> QED
  BY <1>1, <1>2, <1>3 DEF Next, Poll, EmptyPoll, Return, CommitLands, Stop, Crash, Start,
                          brokerVars, vars

\* What the invariant says of a key whose copies are all committed.
LEMMA SettledAgrees ==
  ASSUME IInv, SInv, "db" \in Group, NEW k \in Key, k \notin damaged,
         Copies(k) # {}, \A c \in Copies(k) : c[2] <= committed["db"][c[1]]
  PROVE  Agree(k)
<1>1. ASSUME NEW c \in Copies(k)
      PROVE  /\ c[1] \in Partition /\ c[2] \in Nat
             /\ c[2] <= requested["db"][c[1]] /\ c[2] <= Frontier(c[1])
             /\ requested["db"][c[1]] \in Nat /\ Frontier(c[1]) \in Nat
  <2>1. c[1] \in Partition /\ c[2] \in Nat
    BY DEF Copies
  <2> QED
    BY <2>1, DbCursors
<1>2. ~(Handling("db") /\ HandledKey("db") = k)
  <2>1. SUFFICES ASSUME Handling("db"), HandledKey("db") = k
                 PROVE  FALSE
    OBVIOUS
  <2>2. PICK c \in Copies(k) : c = current["db"]
    BY <2>1, HandledIsCopy
  <2>3. requested["db"][c[1]] < c[2]
    BY <2>1, <2>2 DEF SInv, MidHandler
  <2> QED
    BY <2>3, <1>1
<1>3. ~\E c \in Copies(k) : c[2] > Frontier(c[1])
  BY <1>1
<1> QED
  BY <1>2, <1>3 DEF SInv, Settled

\* For any articles, keys, partitions and number of crashes, stops, faults and
\* repeated deliveries, wherever a database consumer is deployed: what has been
\* committed of a key is stored alike in PostgreSQL and Elasticsearch, unless a
\* fault cut its last handler short.
THEOREM StoresAlwaysAgree ==
  ASSUME "db" \in Group
  PROVE  PSpec => []StoresAgreeOnceCommitted
<1>1. PInit => SInv
  <2> SUFFICES ASSUME PInit PROVE SInv
    OBVIOUS
  <2>1. LogBounded
    BY RunnerAssumption DEF PInit, Init, LogBounded
  <2>2. ~Handling("db")
    BY DEF PInit, Init, Handling
  <2>3. ASSUME NEW k \in Key PROVE Copies(k) = {}
    BY PipelineAssumption DEF PInit, Init, Copies, Output
  <2> QED
    BY <2>1, <2>2, <2>3 DEF SInv, MidHandler, Settled
<1>2. IInv /\ Types /\ IInv' /\ SInv /\ [PNext]_pipelineVars => SInv'
  BY SettledStep, LogBoundedStep DEF SInv
<1>3. IInv /\ SInv /\ PTypeOK => StoresAgreeOnceCommitted
  <2> SUFFICES ASSUME IInv, SInv, PTypeOK, NEW k \in Key
               PROVE  LET copies == {c \in Partition \X (1..MaxLog) :
                                       /\ c[2] <= Len(log["processed_articles"][c[1]])
                                       /\ KeyOf[log["processed_articles"][c[1]][c[2]]] = k}
                      IN  (/\ copies # {}
                           /\ \A c \in copies : c[2] <= committed["db"][c[1]]
                           /\ k \notin damaged)
                          => Agree(k)
    BY DEF StoresAgreeOnceCommitted
  <2>1. \A p \in Partition : Len(Output[p]) \in Nat /\ Len(Output[p]) <= MaxLog
    BY DbCursors, PipelineAssumption DEF SInv, LogBounded, Output
  <2>2. {c \in Partition \X (1..MaxLog) :
           /\ c[2] <= Len(Output[c[1]]) /\ KeyOf[Output[c[1]][c[2]]] = k} = Copies(k)
    BY <2>1, RunnerAssumption DEF Copies
  <2> QED
    BY <2>2, SettledAgrees DEF Output
<1>4. DInv => IInv /\ Types
  BY DEF DInv
<1> QED
  BY <1>1, <1>2, <1>3, <1>4, PipelineInductive, PipelineTypeCorrect, PTL DEF PSpec
=============================================================================
