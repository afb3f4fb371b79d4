--------------------------- MODULE ArticlePipeline ---------------------------
(***************************************************************************)
(* The article pipeline: ingest-service publishes raw articles, the        *)
(* ml-platform consumer enriches and republishes them, the                 *)
(* database-service consumer stores them in PostgreSQL and Elasticsearch   *)
(* and the embedding-service consumer embeds them.                         *)
(*                                                                         *)
(*   ingest --raw_articles--> "ml" --processed_articles--> "db", "em"      *)
(*                                                                         *)
(* The three consumers are processes of ConsumerRunner, which this module  *)
(* extends with what their handlers do.  Producing is asynchronous: a      *)
(* message sits in the producer's memory (ingestBuf, mlBuf) until the      *)
(* broker takes it, and the consumer commits without waiting for that.     *)
(* Each step of the database handler is a transaction of its own.          *)
(*                                                                         *)
(* Data: an article is a model value; KeyOf gives its dedupe_key, the hash *)
(* of its normalised text, so syndicated copies share a key.  A table maps *)
(* a key to the article its row was last derived from, or None.            *)
(***************************************************************************)
EXTENDS ConsumerRunner

CONSTANTS
  Article,         \* articles the news APIs return
  Key,             \* dedupe keys
  KeyOf,           \* KeyOf[a]: dedupe_key of article a
  None,            \* no row
  MaxFetch,        \* bound: articles published by ingest-service
  MaxHandlerFaults,\* bound: exceptions in a handler, or Elasticsearch down
  MaxDeliveryFaults\* bound: failed or repeated deliveries, ingest-service kills

ASSUME PipelineAssumption ==
  /\ Group \subseteq {"ml", "db", "em"}     \* the consumers that are deployed
  /\ Topic = {"raw_articles", "processed_articles"}
  /\ Subscribes = [g \in Group |-> IF g = "ml" THEN "raw_articles"
                                   ELSE "processed_articles"]
  /\ Message = Article
  /\ KeyOf \in [Article -> Key]
  /\ None \notin Article
  /\ MaxFetch \in Nat /\ MaxHandlerFaults \in Nat /\ MaxDeliveryFaults \in Nat

VARIABLES
  ingestBuf,    \* ingestBuf[a]: copies of a queued in ingest-service's producer
  mlBuf,        \* mlBuf[a]: copies queued in the enrichment consumer's producer
  step,         \* step[g]: the next step of g's handler, "done" when it returned
  row,          \* processed_articles, by dedupe_key
  related,      \* extracted_entities, article_sentiments, relationships
  attached,     \* event_articles and the event tables: article last clustered
  energy,       \* energy_entity_mappings, article_energy_enrichments
  esDoc,        \* the Elasticsearch document, by dedupe_key
  embedding,    \* article_embeddings
  todo,         \* rows the running /generate request has still to embed
  fetched, handlerFaults, deliveryFaults,
  lost,         \* history: articles a producer dropped or a fault discarded
  damaged       \* history: keys whose last handler run a fault cut short

storeVars == <<row, related, attached, energy, esDoc>>
embedVars == <<embedding, todo>>
bufVars   == <<ingestBuf, mlBuf>>
histVars  == <<fetched, handlerFaults, deliveryFaults, lost, damaged>>
pipelineVars == <<vars, bufVars, step, storeVars, embedVars, histVars>>

Empty == [a \in Article |-> 0]
NoRows == [k \in Key |-> None]

PInit ==
  /\ Init
  /\ ingestBuf = Empty /\ mlBuf = Empty
  /\ step = [g \in Group |-> "done"]
  /\ row = NoRows /\ related = NoRows /\ attached = NoRows
  /\ energy = NoRows /\ esDoc = NoRows
  /\ embedding = NoRows /\ todo = {}
  /\ fetched = 0 /\ handlerFaults = 0 /\ deliveryFaults = 0
  /\ lost = {} /\ damaged = {}

-----------------------------------------------------------------------------
\* The article in the handler of g, and its key.
Handled(g) == TopicLog(g)[current[g][1]][current[g][2]]
HandledKey(g) == KeyOf[Handled(g)]

Handling(g) == g \in Group /\ alive[g] /\ current[g] # Idle
InHandler(g, s) == Handling(g) /\ step[g] = s
Goto(g, s) == step' = [step EXCEPT ![g] = s]

HandlerFault ==
  /\ handlerFaults < MaxHandlerFaults
  /\ handlerFaults' = handlerFaults + 1

DeliveryFault ==
  /\ deliveryFaults < MaxDeliveryFaults
  /\ deliveryFaults' = deliveryFaults + 1

InBuffer(buf) == {a \in Article : buf[a] > 0}

-----------------------------------------------------------------------------
(* ingest-service                                                          *)

\* A fetch job (at start, hourly or by HTTP) produces one more article.  The
\* hourly window overlaps the last one, so the same article may come again.
Fetch(a) ==
  /\ fetched < MaxFetch
  /\ fetched' = fetched + 1
  /\ ingestBuf' = [ingestBuf EXCEPT ![a] = @ + 1]
  /\ UNCHANGED <<vars, mlBuf, step, storeVars, embedVars, handlerFaults,
                 deliveryFaults, lost, damaged>>

\* ingest-service is killed and restarted: what its producer held is gone.
IngestCrash ==
  /\ DeliveryFault
  /\ InBuffer(ingestBuf) # {}
  /\ lost' = lost \cup InBuffer(ingestBuf)
  /\ ingestBuf' = Empty
  /\ UNCHANGED <<vars, mlBuf, step, storeVars, embedVars, fetched,
                 handlerFaults, damaged>>

-----------------------------------------------------------------------------
(* The producers' background delivery                                      *)

DeliverRaw(a, p) ==
  /\ ingestBuf[a] > 0
  /\ Produce("raw_articles", p, a)
  /\ ingestBuf' = [ingestBuf EXCEPT ![a] = @ - 1]
  /\ UNCHANGED <<mlBuf, step, storeVars, embedVars, histVars>>

DeliverProcessed(a, p) ==
  /\ mlBuf[a] > 0
  /\ Produce("processed_articles", p, a)
  /\ mlBuf' = [mlBuf EXCEPT ![a] = @ - 1]
  /\ UNCHANGED <<ingestBuf, step, storeVars, embedVars, histVars>>

\* The broker's acknowledgement is lost and the producer, which is not
\* idempotent, sends the message again: the log gets it twice.
DeliverTwice(a, p) ==
  /\ DeliveryFault
  /\ mlBuf[a] > 0
  /\ Produce("processed_articles", p, a)
  /\ UNCHANGED <<bufVars, step, storeVars, embedVars, fetched, handlerFaults,
                 lost, damaged>>

\* Delivery fails for good (the broker stays away longer than the message
\* timeout): _delivery_callback logs the error and the message is dropped.
DeliveryFails(a) ==
  /\ DeliveryFault
  /\ \/ /\ mlBuf[a] > 0
        /\ mlBuf' = [mlBuf EXCEPT ![a] = @ - 1]
        /\ UNCHANGED ingestBuf
     \/ /\ ingestBuf[a] > 0
        /\ ingestBuf' = [ingestBuf EXCEPT ![a] = @ - 1]
        /\ UNCHANGED mlBuf
  /\ lost' = lost \cup {a}
  /\ UNCHANGED <<vars, step, storeVars, embedVars, fetched, handlerFaults, damaged>>

-----------------------------------------------------------------------------
(* The consume loop with its handlers                                      *)

FirstStep(g) == CASE g = "ml" -> "enrich"
                  [] g = "db" -> "upsert"
                  [] g = "em" -> "select"

PPoll(g, p) ==
  /\ Poll(g, p)
  /\ Goto(g, FirstStep(g))
  /\ UNCHANGED <<bufVars, storeVars, embedVars, histVars>>

PReturn(g) ==
  /\ step[g] = "done"
  /\ Return(g)
  /\ UNCHANGED <<bufVars, step, storeVars, embedVars, histVars>>

PCommitLands(g) ==
  /\ CommitLands(g)
  /\ UNCHANGED <<bufVars, step, storeVars, embedVars, histVars>>

PStop(g) ==
  /\ Stop(g)
  /\ UNCHANGED <<bufVars, step, storeVars, embedVars, histVars>>

PEmptyPoll(g) ==
  /\ EmptyPoll(g)
  /\ UNCHANGED <<bufVars, step, storeVars, embedVars, histVars>>

\* A kill also loses what the enrichment consumer's producer had queued.
PCrash(g) ==
  /\ Crash(g)
  /\ Goto(g, "done")
  /\ IF g = "ml"
     THEN mlBuf' = Empty /\ lost' = lost \cup InBuffer(mlBuf)
     ELSE UNCHANGED <<mlBuf, lost>>
  /\ UNCHANGED <<ingestBuf, storeVars, embedVars, fetched, handlerFaults,
                 deliveryFaults, damaged>>

\* The enrichment consumer flushes its producer before it exits, so a
\* successor starts when the buffer is empty (or was dropped by a fault).
\* Faulty variant: the process exits without the flush.
NoFlush(g) == TRUE
Flushed(g) == g = "ml" => InBuffer(mlBuf) = {}

PStart(g) ==
  /\ Flushed(g)
  /\ Start(g)
  /\ mlBuf' = IF g = "ml" THEN Empty ELSE mlBuf
  /\ UNCHANGED <<ingestBuf, step, storeVars, embedVars, histVars>>

-----------------------------------------------------------------------------
(* Handlers                                                                *)

\* ml-platform: enrich, and hand the result to the producer.
Enrich ==
  /\ InHandler("ml", "enrich")
  /\ mlBuf' = [mlBuf EXCEPT ![Handled("ml")] = @ + 1]
  /\ Goto("ml", "done")
  /\ UNCHANGED <<vars, ingestBuf, storeVars, embedVars, histVars>>

\* The enrichment raises: the article is logged and skipped.
EnrichFails ==
  /\ InHandler("ml", "enrich")
  /\ HandlerFault
  /\ lost' = lost \cup {Handled("ml")}
  /\ Goto("ml", "done")
  /\ UNCHANGED <<vars, bufVars, storeVars, embedVars, fetched, deliveryFaults,
                 damaged>>

\* database-service: five steps, each committed on its own.
Upsert ==
  /\ InHandler("db", "upsert")
  /\ row' = [row EXCEPT ![HandledKey("db")] = Handled("db")]
  /\ Goto("db", "related")
  /\ UNCHANGED <<vars, bufVars, related, attached, energy, esDoc, embedVars, histVars>>

ReplaceRelated ==
  /\ InHandler("db", "related")
  /\ related' = [related EXCEPT ![HandledKey("db")] = Handled("db")]
  /\ Goto("db", "events")
  /\ UNCHANGED <<vars, bufVars, row, attached, energy, esDoc, embedVars, histVars>>

\* Clusters the article with what the two earlier steps stored.
UpdateEvents ==
  /\ InHandler("db", "events")
  /\ attached' = [attached EXCEPT ![HandledKey("db")] = row[HandledKey("db")]]
  /\ Goto("db", "energy")
  /\ UNCHANGED <<vars, bufVars, row, related, energy, esDoc, embedVars, histVars>>

\* Rebuilds the energy rows from the stored entities.  Faulty variant: rows
\* that exist are kept.
KeepEnergy(k) == IF energy[k] = None THEN related[k] ELSE energy[k]
RebuiltEnergy(k) == related[k]

EnrichEnergy ==
  /\ InHandler("db", "energy")
  /\ energy' = [energy EXCEPT ![HandledKey("db")] = RebuiltEnergy(HandledKey("db"))]
  /\ Goto("db", "index")
  /\ UNCHANGED <<vars, bufVars, row, related, attached, esDoc, embedVars, histVars>>

Index ==
  /\ InHandler("db", "index")
  /\ esDoc' = [esDoc EXCEPT ![HandledKey("db")] = Handled("db")]
  /\ damaged' = damaged \ {HandledKey("db")}
  /\ Goto("db", "done")
  /\ UNCHANGED <<vars, bufVars, row, related, attached, energy, embedVars, fetched,
                 handlerFaults, deliveryFaults, lost>>

\* Any step raises, or index_article finds no Elasticsearch and returns: the
\* steps that are left are skipped and the message counts as handled.
\* Faulty variant: each step has its own try/except.
NextStep(s) == CASE s = "upsert"  -> "related"
                 [] s = "related" -> "events"
                 [] s = "events"  -> "energy"
                 [] s = "energy"  -> "index"
                 [] OTHER -> "done"
AfterFault(s) == "done"

StoreFails ==
  /\ Handling("db") /\ step["db"] # "done"
  /\ HandlerFault
  /\ damaged' = damaged \cup {HandledKey("db")}
  /\ Goto("db", AfterFault(step["db"]))
  /\ UNCHANGED <<vars, bufVars, storeVars, embedVars, fetched, deliveryFaults, lost>>

\* embedding-service: the row must exist by now, otherwise nothing is stored.
\* Faulty variant: the look-up is skipped.
SelectAnyway == "insert"
AfterSelect == IF row[HandledKey("em")] = None THEN "done" ELSE "insert"

SelectRow ==
  /\ InHandler("em", "select")
  /\ Goto("em", AfterSelect)
  /\ UNCHANGED <<vars, bufVars, storeVars, embedVars, histVars>>

\* INSERT ... ON CONFLICT (article_id) DO NOTHING: the first vector stays.
InsertOnce(k, a) ==
  embedding' = [embedding EXCEPT ![k] = IF @ = None THEN a ELSE @]

InsertEmbedding ==
  /\ InHandler("em", "insert")
  /\ InsertOnce(HandledKey("em"), Handled("em"))
  /\ Goto("em", "done")
  /\ UNCHANGED <<vars, bufVars, storeVars, todo, histVars>>

EmbedFails ==
  /\ Handling("em") /\ step["em"] # "done"
  /\ HandlerFault
  /\ Goto("em", "done")
  /\ UNCHANGED <<vars, bufVars, storeVars, embedVars, fetched, deliveryFaults,
                 lost, damaged>>

\* GET /generate reads the rows without an embedding, then embeds one by one.
\* Only an operator calls it.
GenerateStart ==
  /\ "em" \in Group
  /\ todo = {}
  /\ todo' = {<<k, row[k]>> : k \in {k \in Key : row[k] # None /\ embedding[k] = None}}
  /\ todo' # {}
  /\ UNCHANGED <<vars, bufVars, step, storeVars, embedding, histVars>>

GenerateOne ==
  \E t \in todo :
    /\ InsertOnce(t[1], t[2])
    /\ todo' = todo \ {t}
    /\ UNCHANGED <<vars, bufVars, step, storeVars, histVars>>

-----------------------------------------------------------------------------
PNext ==
  \/ \E a \in Article : Fetch(a) \/ DeliveryFails(a)
  \/ \E a \in Article, p \in Partition :
       DeliverRaw(a, p) \/ DeliverProcessed(a, p) \/ DeliverTwice(a, p)
  \/ IngestCrash
  \/ \E g \in Group, p \in Partition : PPoll(g, p)
  \/ \E g \in Group :
       \/ PReturn(g) \/ PCommitLands(g) \/ PStop(g) \/ PEmptyPoll(g)
       \/ PCrash(g) \/ PStart(g)
  \/ Enrich \/ EnrichFails
  \/ Upsert \/ ReplaceRelated \/ UpdateEvents \/ EnrichEnergy \/ Index \/ StoreFails
  \/ SelectRow \/ InsertEmbedding \/ EmbedFails
  \/ GenerateStart \/ GenerateOne

PSpec == PInit /\ [][PNext]_pipelineVars

\* What the single thread of consumer g does next when it is not polling.
Progress(g) ==
  \/ g = "ml" /\ Enrich
  \/ g = "db" /\ (Upsert \/ ReplaceRelated \/ UpdateEvents \/ EnrichEnergy \/ Index)
  \/ g = "em" /\ (SelectRow \/ InsertEmbedding)
  \/ PReturn(g) \/ PEmptyPoll(g) \/ PStart(g)

\* Producers deliver, consumers poll every partition, handlers run to their
\* end, the broker applies commits, and stopped consumers are restarted.
\* Nothing is assumed of fetching, faults, signals, crashes or the operator's
\* /generate.
PFairness ==
  /\ \A a \in Article :
       /\ WF_pipelineVars(\E p \in Partition : DeliverRaw(a, p))
       /\ WF_pipelineVars(\E p \in Partition : DeliverProcessed(a, p))
  /\ \A g \in Group :
       /\ \A p \in Partition : SF_pipelineVars(PPoll(g, p))
       /\ WF_pipelineVars(Progress(g)) /\ WF_pipelineVars(PCommitLands(g))

PFairSpec == PSpec /\ PFairness
-----------------------------------------------------------------------------
PTypeOK ==
  /\ TypeOK
  /\ ingestBuf \in [Article -> Nat] /\ mlBuf \in [Article -> Nat]
  /\ step \in [Group -> {"enrich", "upsert", "related", "events", "energy",
                         "index", "select", "insert", "done"}]
  /\ \A table \in {row, related, attached, energy, esDoc, embedding} :
       table \in [Key -> Article \cup {None}]
  /\ todo \subseteq Key \X Article
  /\ lost \subseteq Article /\ damaged \subseteq Key

InTopic(t, a) == \E p \in Partition : \E o \in 1..Len(log[t][p]) : log[t][p][o] = a

Agree(k) ==
  /\ row[k] # None
  /\ related[k] = row[k] /\ attached[k] = row[k]
  /\ energy[k] = row[k] /\ esDoc[k] = row[k]

\* PostgreSQL and Elasticsearch agree on an article as soon as the group has
\* committed every message of its key, whatever was interrupted and replayed
\* on the way and in whatever order syndicated copies came, unless a fault
\* cut the last run of the handler short.  (The five steps share no
\* transaction; only redelivery of the uncommitted message repairs a crash.)
StoresAgreeOnceCommitted ==
  /\ PTypeOK
  /\ \A k \in Key :
       LET copies == {c \in Partition \X (1..MaxLog) :
                        /\ c[2] <= Len(log["processed_articles"][c[1]])
                        /\ KeyOf[log["processed_articles"][c[1]][c[2]]] = k}
       IN  (/\ copies # {}
            /\ \A c \in copies : c[2] <= committed["db"][c[1]]
            /\ k \notin damaged)
           => Agree(k)

\* What is derived never exists without what it is derived from: a search hit
\* has its energy context, events, entities and row, and an embedding a row.
\* A failing step must therefore skip the steps after it.
DerivedInOrder ==
  \A k \in Key :
    /\ esDoc[k] # None => energy[k] # None
    /\ energy[k] # None => attached[k] # None
    /\ attached[k] # None => related[k] # None
    /\ related[k] # None => row[k] # None
    /\ embedding[k] # None => row[k] # None

\* An article whose raw message the enrichment consumer has finished with is
\* on its way or on the output topic: it can only disappear through a fault,
\* a kill or a failed delivery, never through an orderly restart.
EnrichmentAccounted ==
  \A p \in Partition : \A o \in 1..Len(log["raw_articles"][p]) :
    <<"ml", p, o>> \in finished =>
      LET a == log["raw_articles"][p][o]
      IN  a \in lost \/ mlBuf[a] > 0 \/ InTopic("processed_articles", a)

\* An article that reached raw_articles ends in every store although the
\* consumers are stopped, or killed at any point of their handlers, unless a
\* kill or a failed delivery took it from a producer's memory, or an exception
\* cut a handler short.
EveryArticleStored ==
  \A a \in Article :
    InTopic("raw_articles", a) ~> (Agree(KeyOf[a]) \/ a \in lost \/ KeyOf[a] \in damaged)

\* services/embedding-service/consumer.py:1 "generates embeddings for
\* processed articles".  The code gives up on a row that is not there yet.
EveryArticleEmbedded ==
  \A a \in Article :
    InTopic("processed_articles", a) ~> (embedding[KeyOf[a]] # None)
=============================================================================
