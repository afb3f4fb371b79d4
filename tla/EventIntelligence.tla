------------------------- MODULE EventIntelligence -------------------------
(***************************************************************************)
(* Clustering of articles into events (services/database-service,          *)
(* services/event_intelligence.py) by two writers of one database: the     *)
(* consumer, one transaction per article, and the administrator's          *)
(* POST /rebuild-events (app.py), one transaction that deletes all events  *)
(* and clusters every stored article again.                                *)
(*                                                                         *)
(* The event tables are abstracted to two functions: founder[e] is the     *)
(* article event e was created from (its title, summary and topic), or     *)
(* None, and members[e] the articles event_articles has for it; last_seen  *)
(* and the texts in event_entities follow from the members.  Isolation is  *)
(* READ COMMITTED: a statement sees what is committed by then and its own  *)
(* transaction's writes, and waits for rows another transaction has        *)
(* written.                                                                *)
(***************************************************************************)
EXTENDS Integers, Sequences, FiniteSets, SequencesExt, FiniteSetsExt

CONSTANTS
  Article,
  None,
  Raw,           \* Raw[a]: the entity texts stored for a, lower-cased
  Normal,        \* Normal[t]: the normal form of a text, lower-cased
  Blacklist,     \* EVENT_ENTITY_BLACKLIST
  Topic,         \* Topic[a]
  Published,     \* Published[a]: hours
  TextScore,     \* TextScore[a][b]: 0..100, similarity of a to b's title and summary
  Candidates,    \* LIMIT of the candidate query (25)
  MaxEvents,     \* bound: ids the events sequence has issued
  MaxHandled,    \* bound: messages the consumer handles
  MaxRebuilds,   \* bound: /rebuild-events requests
  MaxFaults      \* bound: exceptions

Event == 1..MaxEvents
New == 0             \* a choice: create an event
Undecided == -1

ASSUME EventAssumption ==
  /\ None \notin Article /\ IsFiniteSet(Article)
  /\ \A a \in Article : IsFiniteSet(Raw[a])
  /\ Published \in [Article -> Nat]
  /\ TextScore \in [Article -> [Article -> 0..100]]
  /\ Candidates \in Nat \ {0}
  /\ MaxEvents \in Nat /\ MaxHandled \in Nat /\ MaxRebuilds \in Nat /\ MaxFaults \in Nat

VARIABLES
  stored,       \* processed_articles in id order
  events,       \* committed event tables: [founder, members]
  issued,       \* ids issued so far
  handling,     \* the article in the consumer's handler, or None
  choice,       \* its chosen event, New, or Undecided before the choice
  missed,       \* history: articles whose last handling failed
  rebuild,      \* "idle" or "running": a /rebuild-events request
  todo,         \* article_ids the request has still to cluster
  rebuilt,      \* those it has clustered
  draft,        \* the event tables its transaction sees while it runs
  overlapped,   \* history: articles in the consumer's handler while a request ran
  handled, rebuilds, faults

consumerVars == <<handling, choice, missed, handled>>
rebuildVars  == <<rebuild, todo, rebuilt, draft, rebuilds>>
vars == <<stored, events, issued, consumerVars, rebuildVars, overlapped, faults>>

NoEvents == [founder |-> [e \in Event |-> None], members |-> [e \in Event |-> {}]]

Init ==
  /\ stored = <<>> /\ events = NoEvents /\ issued = 0
  /\ handling = None /\ choice = Undecided /\ missed = {} /\ handled = 0
  /\ rebuild = "idle" /\ todo = <<>> /\ rebuilt = {} /\ draft = NoEvents
  /\ rebuilds = 0 /\ overlapped = {} /\ faults = 0

-----------------------------------------------------------------------------
(* Scoring.  es is a view of the event tables.  Scores are in thousandths. *)

\* An article is compared by its normal forms, the publishers left out, with
\* the texts of an event as its articles have them.
Names(a) == {Normal[t] : t \in Raw[a]} \ Blacklist

Exists(es, e) == es.founder[e] # None
InEvent(es, a) == \E e \in Event : a \in es.members[e]
EventEntities(es, e) == UNION {Raw[b] : b \in es.members[e]}
LastSeen(es, e) == Max({Published[b] : b \in es.members[e]})

Overlap(es, e, a) == Cardinality(Names(a) \cap EventEntities(es, e))

Distance(s, t) == IF s > t THEN s - t ELSE t - s
TimeScore(hours) == IF hours <= 24 THEN 150 ELSE IF hours <= 72 THEN 75 ELSE 0

Score(es, e, a) ==
  LET f == es.founder[e]
  IN  (600 * Overlap(es, e, a))
        \div Max({Cardinality(Names(a) \cup EventEntities(es, e)), 1})
      + (IF Topic[f] = Topic[a] THEN 150 ELSE 0)
      + TimeScore(Distance(Published[a], LastSeen(es, e)))
      + TextScore[a][f]

\* The query: recent events or events of the topic, the last seen first.
Queried(es, a) == {e \in Event : /\ Exists(es, e)
                                 /\ \/ LastSeen(es, e) >= Published[a] - 72
                                    \/ Topic[es.founder[e]] = Topic[a]}
Candidate(es, a) ==
  {e \in Queried(es, a) :
     Cardinality({f \in Queried(es, a) : LastSeen(es, f) > LastSeen(es, e)}) < Candidates}

\* Faulty variants: the minimum overlap is not required, or is three.
AnyOverlap(es, e, a) == TRUE
MoreOverlap(es, e, a) == Overlap(es, e, a) > 2
EnoughOverlap(es, e, a) == Overlap(es, e, a) >= 2

Eligible(es, a) == {e \in Candidate(es, a) : /\ EnoughOverlap(es, e, a)
                                             /\ Score(es, e, a) >= 600}

Better(es, a, e, f) ==
  \/ Score(es, e, a) > Score(es, f, a)
  \/ Score(es, e, a) = Score(es, f, a) /\ LastSeen(es, e) > LastSeen(es, f)

\* The events a may be put into: the best ones, or a new one.
Best(es, a) ==
  IF Eligible(es, a) = {} THEN {New}
  ELSE {e \in Eligible(es, a) : ~\E f \in Eligible(es, a) : Better(es, a, f, e)}

-----------------------------------------------------------------------------
(* Writing                                                                 *)

Join(es, e, a) == [es EXCEPT !.members[e] = @ \cup {a}]
Found(es, e, a) == [Join(es, e, a) EXCEPT !.founder[e] = a]

\* The chosen event, or a new one with the next id.
Put(es, c, a) == IF c = New THEN Found(es, issued + 1, a) ELSE Join(es, c, a)
Issue(c) == /\ c = New => issued < MaxEvents
            /\ issued' = IF c = New THEN issued + 1 ELSE issued

Fault == faults < MaxFaults /\ faults' = faults + 1

-----------------------------------------------------------------------------
(* The consumer: update_event_intelligence(article_db_id)                  *)

\* INSERT ... ON CONFLICT (dedupe_key) DO UPDATE.
Upserted(a) == IF a \in ToSet(stored) THEN stored ELSE Append(stored, a)

\* The next message: its row and entities are stored before it is clustered.
\* The same article comes again whenever it is fetched again.
Handle(a) ==
  /\ handling = None
  /\ handled < MaxHandled /\ handled' = handled + 1
  /\ handling' = a
  /\ stored' = Upserted(a)
  /\ overlapped' = IF rebuild = "running" THEN overlapped \cup {a} ELSE overlapped
  /\ UNCHANGED <<events, issued, choice, missed, rebuildVars, faults>>

Choose ==
  /\ handling # None /\ choice = Undecided
  /\ choice' \in Best(events, handling)
  /\ UNCHANGED <<stored, events, issued, handling, missed, handled, rebuildVars,
                 overlapped, faults>>

\* event_articles references events: inserting for a deleted event fails.
\* Faulty variant: no foreign key.
Unchecked(c) == TRUE
Referenced(c) == c # New => Exists(events, c)

\* Rows the running request has deleted or written hold the consumer's
\* transaction up until the request has committed or rolled back: the event
\* (deleted, or updated with an article), or an entity profile.
Waits(a, c) ==
  /\ rebuild = "running"
  /\ \/ c # New /\ (~Exists(draft, c) \/ draft.members[c] # events.members[c])
     \/ \E b \in rebuilt : Raw[a] \cap Raw[b] # {}

Attach ==
  /\ choice # Undecided /\ Referenced(choice) /\ ~Waits(handling, choice)
  /\ Issue(choice)
  /\ events' = Put(events, choice, handling)
  /\ draft' = IF rebuild = "running" THEN Put(draft, choice, handling) ELSE draft
  /\ handling' = None /\ choice' = Undecided
  /\ missed' = missed \ {handling}
  /\ UNCHANGED <<stored, handled, rebuild, todo, rebuilt, rebuilds, overlapped, faults>>

\* The chosen event is gone, or any other statement fails (also as the victim
\* of a deadlock with the request): the transaction is rolled back and the
\* message is skipped.
AttachFails ==
  /\ handling # None
  /\ \/ choice # Undecided /\ ~Referenced(choice) /\ UNCHANGED faults
     \/ Fault
  /\ handling' = None /\ choice' = Undecided
  /\ missed' = missed \cup {handling}
  /\ UNCHANGED <<stored, events, issued, handled, rebuildVars, overlapped>>

-----------------------------------------------------------------------------
(* POST /rebuild-events: one transaction, committed as its block is left.  *)

\* Its first statements: the deletion of all events, and the articles' ids.
Wipe ==
  /\ rebuild = "idle"
  /\ rebuilds < MaxRebuilds /\ rebuilds' = rebuilds + 1
  /\ rebuild' = "running"
  /\ draft' = NoEvents
  /\ todo' = stored
  /\ rebuilt' = {}
  /\ overlapped' = overlapped \cup ({handling} \ {None})
  /\ UNCHANGED <<stored, events, issued, consumerVars, faults>>

RebuildOne ==
  /\ rebuild = "running" /\ todo # <<>>
  /\ \E c \in Best(draft, Head(todo)) :
       /\ Issue(c)
       /\ draft' = Put(draft, c, Head(todo))
  /\ todo' = Tail(todo)
  /\ rebuilt' = rebuilt \cup {Head(todo)}
  /\ UNCHANGED <<stored, events, consumerVars, rebuild, rebuilds, overlapped, faults>>

RebuildEnds ==
  /\ rebuild = "running" /\ todo = <<>>
  /\ rebuild' = "idle"
  /\ events' = draft
  /\ draft' = NoEvents /\ rebuilt' = {}
  /\ UNCHANGED <<stored, issued, consumerVars, todo, rebuilds, overlapped, faults>>

\* Faulty variant: the deletion was committed on its own.
DeletionStays == draft
RolledBack == events

\* A statement fails: the request answers 500 and the deletion is undone too.
RebuildFails ==
  /\ rebuild = "running"
  /\ Fault
  /\ rebuild' = "idle" /\ todo' = <<>> /\ rebuilt' = {} /\ draft' = NoEvents
  /\ events' = RolledBack
  /\ UNCHANGED <<stored, issued, consumerVars, rebuilds, overlapped>>

-----------------------------------------------------------------------------
Next ==
  \/ \E a \in Article : Handle(a)
  \/ Choose \/ Attach \/ AttachFails
  \/ Wipe \/ RebuildOne \/ RebuildEnds \/ RebuildFails

Spec == Init /\ [][Next]_vars
-----------------------------------------------------------------------------
Tables == [founder : [Event -> Article \cup {None}], members : [Event -> SUBSET Article]]

TypeOK ==
  /\ stored \in Seq(Article) /\ IsInjective(stored)
  /\ events \in Tables /\ draft \in Tables
  /\ issued \in 0..MaxEvents
  /\ handling \in Article \cup {None}
  /\ choice \in Event \cup {New, Undecided}
  /\ missed \subseteq Article /\ rebuilt \subseteq Article /\ overlapped \subseteq Article
  /\ rebuild \in {"idle", "running"} /\ todo \in Seq(Article)
  /\ {handled, rebuilds, faults} \subseteq Nat

\* Whatever the two writers interleave, an event has the article it was
\* created from and no article is attached to an event that is gone: not in
\* what is committed, nor in what the rebuilding transaction sees.
EventsWellFounded ==
  /\ TypeOK
  /\ \A es \in {events, draft} : \A e \in Event :
       IF Exists(es, e) THEN es.founder[e] \in es.members[e] ELSE es.members[e] = {}

\* Every stored article is in an event, unless it is being handled or its last
\* handling failed: a rebuild, whether it commits or is rolled back, leaves no
\* article behind, nor the ones the consumer commits while it runs.
ClusteredOrMissed ==
  \A a \in ToSet(stored) : InEvent(events, a) \/ a = handling \/ a \in missed

\* An article in an event it did not found has two names that stand among the
\* entities of the event's other articles: clusters do not chain on less,
\* though one article is attached by a choice made before a rebuild committed.
ClusterCohesive ==
  \A e \in Event : \A a \in events.members[e] \ {events.founder[e]} :
    Cardinality(Names(a) \cap UNION {Raw[b] : b \in events.members[e] \ {a}}) >= 2

\* Two of the article's names stand in its own event as they are, and they are
\* half of what the article and its event name together.  (Aliases and
\* publishers are not found again.)
Recognisable(a) ==
  /\ Cardinality(Names(a) \cap Raw[a]) >= 2
  /\ 2 * Cardinality(Names(a) \cap Raw[a]) >= Cardinality(Names(a) \cup Raw[a])

\* The event has taken up another entity or a later article.
Drifted(es, e) == \E b \in es.members[e] : \/ ~(Raw[b] \subseteq Raw[es.founder[e]])
                                          \/ Published[b] > Published[es.founder[e]]

\* As many events as the query returns have an article later than its founder.
Crowded(es, e) ==
  Cardinality({f \in Event :
    \E b \in es.members[f] : Published[b] > Published[es.founder[e]]}) >= Candidates

\* Handling an article again creates another event from it only for a reason:
\* its event has drifted or is crowded out of the query, the article cannot be
\* recognised by its names, or it was in the handler while a rebuild ran.
TwinsExplained ==
  \A e, f \in Event :
    /\ e < f /\ Exists(events, e) /\ events.founder[e] = events.founder[f]
    /\ Recognisable(events.founder[e]) /\ events.founder[e] \notin overlapped
    => Drifted(events, e) \/ Crowded(events, e)
=============================================================================
