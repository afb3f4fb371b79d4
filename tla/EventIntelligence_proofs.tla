---------------------- MODULE EventIntelligence_proofs ----------------------
(***************************************************************************)
(* Clustering by two writers, for any articles, names, scores, candidate   *)
(* limit and interleaving: the event tables stay well founded, a rebuild   *)
(* leaves no article behind, clusters stay cohesive, and an article        *)
(* handled again founds another event only for one of the stated reasons.  *)
(***************************************************************************)
EXTENDS EventIntelligence, FiniteSetTheorems, TLAPS

\* One view of the tables: an event has its founder, and nothing is attached
\* to an event that does not exist.
Founded(es) ==
  \A e \in Event :
    IF Exists(es, e) THEN es.founder[e] \in es.members[e] ELSE es.members[e] = {}

\* Ids that are still to be issued belong to no event.
Fresh == \A e \in Event : e > issued => ~Exists(events, e) /\ ~Exists(draft, e)

\* What a request leaves when it ends, and who it overlaps while it runs.
Requests ==
  /\ rebuild = "idle" => draft = NoEvents /\ todo = <<>>
  /\ rebuild = "running" /\ handling # None => handling \in overlapped

\* The committed events the request sees are those the consumer founded while
\* it ran; it has added articles to them and taken none away.
Kept ==
  \A e \in Event : Exists(events, e) /\ Exists(draft, e) =>
    /\ events.founder[e] = draft.founder[e] /\ draft.founder[e] \in overlapped
    /\ events.members[e] \subseteq draft.members[e]

\* Those it founded itself are of different articles, and done with.
Own(e) == Exists(draft, e) /\ ~Exists(events, e)
Redone ==
  /\ IsInjective(todo)
  /\ \A e \in Event : Own(e) => draft.founder[e] \notin ToSet(todo)
  /\ \A e, f \in Event : Own(e) /\ Own(f) /\ e # f => draft.founder[e] # draft.founder[f]

\* a's own events are not to be found by it.
NoOwnEvent(es, a) ==
  \A e \in Event : Exists(es, e) /\ es.founder[e] = a /\ Recognisable(a) =>
    Drifted(es, e) \/ Crowded(es, e)

\* A choice stays justified while a request commits: the event is gone, or has
\* the names it was chosen for; a new one is created for want of an own one.
ChoiceStands ==
  /\ choice # Undecided => handling # None
  /\ choice \in Event =>
       /\ choice <= issued
       /\ Exists(draft, choice) => Exists(events, choice)
       /\ Exists(events, choice) => Overlap(events, choice, handling) >= 2
  /\ choice = New /\ handling \notin overlapped => NoOwnEvent(events, handling)

EInv ==
  /\ TypeOK
  /\ Founded(events) /\ Founded(draft)
  /\ Fresh /\ Requests /\ Kept /\ Redone /\ ChoiceStands

\* The clusters of a view.
CohesiveIn(es) ==
  \A e \in Event : \A a \in es.members[e] \ {es.founder[e]} :
    Cardinality(Names(a) \cap UNION {Raw[b] : b \in es.members[e] \ {a}}) >= 2

\* While a request runs, what it has not clustered yet is still to do.
AccountedFor ==
  rebuild = "running" =>
    \A a \in ToSet(stored) :
      InEvent(draft, a) \/ a = handling \/ a \in missed \/ a \in ToSet(todo)

-----------------------------------------------------------------------------
(* Names, counts and sequences.                                            *)

LEMMA FiniteNames ==
  ASSUME NEW a \in Article
  PROVE  IsFiniteSet(Names(a))
<1> DEFINE f == [t \in Raw[a] |-> Normal[t]]
           T == {Normal[t] : t \in Raw[a]}
<1>1. f \in Surjection(Raw[a], T)
  BY DEF Surjection
<1>2. IsFiniteSet(T)
  BY <1>1, EventAssumption, FS_Surjection
<1> QED
  BY <1>2, FS_Subset DEF Names

\* What is shared with more is not less.
LEMMA MoreShared ==
  ASSUME NEW S, IsFiniteSet(S), NEW X, NEW Y, S \cap X \subseteq S \cap Y,
         Cardinality(S \cap X) >= 2
  PROVE  Cardinality(S \cap Y) >= 2
<1>1. IsFiniteSet(S \cap Y)
  BY FS_Subset
<1>2. Cardinality(S \cap X) <= Cardinality(S \cap Y)
  BY <1>1, FS_Subset
<1>3. Cardinality(S \cap Y) \in Nat /\ Cardinality(S \cap X) \in Nat
  <2>1. IsFiniteSet(S \cap X)
    BY FS_Subset
  <2> QED
    BY <1>1, <2>1, FS_CardinalityType
<1> QED
  BY <1>2, <1>3

\* The overlap with an event does not shrink as the event grows.
LEMMA OverlapGrows ==
  ASSUME NEW es, NEW fs, NEW e, NEW a \in Article,
         es.members[e] \subseteq fs.members[e], Overlap(es, e, a) >= 2
  PROVE  Overlap(fs, e, a) >= 2
<1>1. EventEntities(es, e) \subseteq EventEntities(fs, e)
  BY DEF EventEntities
<1> QED
  BY <1>1, FiniteNames, MoreShared DEF Overlap

LEMMA HeadAndTail ==
  ASSUME NEW s \in Seq(Article), s # <<>>, IsInjective(s)
  PROVE  /\ Head(s) \in Article /\ Tail(s) \in Seq(Article) /\ IsInjective(Tail(s))
         /\ ToSet(s) = {Head(s)} \cup ToSet(Tail(s))
         /\ Head(s) \notin ToSet(Tail(s))
<1>1. /\ Head(s) = s[1] /\ 1 \in DOMAIN s /\ Head(s) \in Article
      /\ Tail(s) \in Seq(Article) /\ Len(Tail(s)) = Len(s) - 1
      /\ \A i \in DOMAIN Tail(s) : Tail(s)[i] = s[i + 1] /\ i + 1 \in DOMAIN s /\ i \in Nat
      /\ \A i \in DOMAIN s : i = 1 \/ i - 1 \in DOMAIN Tail(s)
      /\ DOMAIN s \subseteq Nat
  OBVIOUS
<1>2. IsInjective(Tail(s))
  BY <1>1 DEF IsInjective
<1>3. Head(s) \notin ToSet(Tail(s))
  BY <1>1 DEF IsInjective, ToSet
<1>4. ToSet(s) = {Head(s)} \cup ToSet(Tail(s))
  <2>1. ASSUME NEW i \in DOMAIN s
        PROVE  s[i] \in {Head(s)} \cup ToSet(Tail(s))
    <3>1. CASE i = 1
      BY <3>1, <1>1
    <3>2. CASE i # 1
      <4>1. i - 1 \in DOMAIN Tail(s) /\ Tail(s)[i - 1] = s[i]
        BY <3>2, <1>1
      <4> QED
        BY <4>1 DEF ToSet
    <3> QED
      BY <3>1, <3>2
  <2>2. \A i \in DOMAIN Tail(s) : Tail(s)[i] \in ToSet(s)
    BY <1>1 DEF ToSet
  <2>3. Head(s) \in ToSet(s)
    BY <1>1 DEF ToSet
  <2> QED
    BY <2>1, <2>2, <2>3 DEF ToSet
<1> QED
  BY <1>1, <1>2, <1>3, <1>4

LEMMA UpsertedStored ==
  ASSUME stored \in Seq(Article), IsInjective(stored), NEW a \in Article
  PROVE  /\ Upserted(a) \in Seq(Article) /\ IsInjective(Upserted(a))
         /\ ToSet(Upserted(a)) = ToSet(stored) \cup {a}
<1>1. CASE a \in ToSet(stored)
  BY <1>1 DEF Upserted
<1>2. CASE a \notin ToSet(stored)
  <2>1. \A i \in 1..Len(stored) : stored[i] # a
    BY <1>2 DEF ToSet
  <2>2. Upserted(a) = Append(stored, a)
    BY <1>2 DEF Upserted
  <2>3. IsInjective(Append(stored, a))
    BY <2>1 DEF IsInjective
  <2>4. /\ DOMAIN Append(stored, a) = DOMAIN stored \cup {Len(stored) + 1}
        /\ \A i \in DOMAIN stored : Append(stored, a)[i] = stored[i]
        /\ Append(stored, a)[Len(stored) + 1] = a
    OBVIOUS
  <2>5. ToSet(Append(stored, a)) = ToSet(stored) \cup {a}
    BY <2>4 DEF ToSet
  <2> QED
    BY <2>2, <2>3, <2>5
<1> QED
  BY <1>1, <1>2
\* A finite set of articles has a latest one: one after which the fewest come.
LEMMA LatestExists ==
  ASSUME NEW M \in SUBSET Article, M # {}
  PROVE  \E x \in M : \A b \in M : Published[b] <= Published[x]
<1> DEFINE After(x) == {b \in M : Published[b] > Published[x]}
           T == {After(x) : x \in M}
           R == StrictSubsetOrdering(M)
<1>1. IsFiniteSet(M) /\ \A b \in M : Published[b] \in Nat
  <2>1. IsFiniteSet(Article) /\ M \subseteq Article /\ Published \in [Article -> Nat]
    BY EventAssumption
  <2> QED
    BY <2>1, FS_Subset
<1>2. IsWellFoundedOn(R, FiniteSubsetsOf(M))
  BY <1>1, FS_StrictSubsetOrderingWellFounded
<1>3. T \subseteq FiniteSubsetsOf(M) /\ T # {}
  <2>1. ASSUME NEW x \in M
        PROVE  After(x) \in FiniteSubsetsOf(M)
    <3>1. After(x) \subseteq M
      OBVIOUS
    <3> HIDE DEF After
    <3>2. IsFiniteSet(After(x))
      BY <3>1, <1>1, FS_Subset
    <3> QED
      BY <3>1, <3>2 DEF FiniteSubsetsOf
  <2> HIDE DEF After
  <2> QED
    BY <2>1
<1>4. PICK X \in T : \A Y \in T : ~(<<Y, X>> \in R)
  <2> HIDE DEF T, R
  <2> QED
    BY <1>2, <1>3, WFMin
<1>5. PICK x \in M : X = After(x)
  BY <1>4
<1>6. ASSUME NEW b \in M, Published[b] > Published[x]
      PROVE  FALSE
  <2>1. After(b) \subseteq After(x) /\ b \in After(x) /\ b \notin After(b)
    BY <1>1, <1>6
  <2>2. <<After(b), After(x)>> \in R
    BY <2>1, <1>3 DEF StrictSubsetOrdering
  <2> QED
    BY <2>2, <1>4, <1>5
<1> QED
  BY <1>1, <1>6

-----------------------------------------------------------------------------
(* What writing does to a view of the tables.                              *)

LEMMA NoEventsTables ==
  /\ NoEvents \in Tables
  /\ \A e \in Event : ~Exists(NoEvents, e) /\ NoEvents.members[e] = {}
  /\ Founded(NoEvents) /\ CohesiveIn(NoEvents)
BY DEF NoEvents, Tables, Exists, Founded, CohesiveIn

\* p is es with a attached to e.
Attached(p, es, e, a) ==
  /\ p \in Tables
  /\ \A f \in Event :
       p.members[f] = IF f = e THEN es.members[e] \cup {a} ELSE es.members[f]

LEMMA JoinAt ==
  ASSUME NEW es \in Tables, NEW e \in Event, NEW a \in Article
  PROVE  /\ Attached(Join(es, e, a), es, e, a)
         /\ Join(es, e, a).founder = es.founder
<1> DEFINE ms == [es.members EXCEPT ![e] = @ \cup {a}]
<1>1. /\ es.members \in [Event -> SUBSET Article]
      /\ es.founder \in [Event -> Article \cup {None}]
  BY DEF Tables
<1>2. /\ ms \in [Event -> SUBSET Article]
      /\ \A f \in Event : ms[f] = IF f = e THEN es.members[e] \cup {a} ELSE es.members[f]
  BY <1>1
<1>3. Join(es, e, a) = [es EXCEPT !.members = ms]
  BY DEF Join
<1> HIDE DEF ms
<1>4. [es EXCEPT !.members = ms] = [founder |-> es.founder, members |-> ms]
  BY DEF Tables
<1> QED
  BY <1>1, <1>2, <1>3, <1>4 DEF Tables, Attached

\* e is founded by a, and the other events as they were.
FoundedBy(p, es, e, a) ==
  \A f \in Event : p.founder[f] = IF f = e THEN a ELSE es.founder[f]

LEMMA FoundAt ==
  ASSUME NEW es \in Tables, NEW e \in Event, NEW a \in Article
  PROVE  /\ Attached(Found(es, e, a), es, e, a)
         /\ FoundedBy(Found(es, e, a), es, e, a)
<1> DEFINE j == Join(es, e, a)
           fs == [j.founder EXCEPT ![e] = a]
<1>1. Attached(j, es, e, a) /\ j.founder = es.founder
  BY JoinAt
<1>2. Found(es, e, a) = [j EXCEPT !.founder = fs]
  BY DEF Found
<1> HIDE DEF j
<1>3. /\ j \in Tables /\ j.founder = es.founder
      /\ \A f \in Event : j.members[f] =
           IF f = e THEN es.members[e] \cup {a} ELSE es.members[f]
  BY <1>1 DEF Attached
<1>4. /\ j.members \in [Event -> SUBSET Article]
      /\ j.founder \in [Event -> Article \cup {None}]
  BY <1>3 DEF Tables
<1>5. /\ fs \in [Event -> Article \cup {None}]
      /\ \A f \in Event : fs[f] = IF f = e THEN a ELSE j.founder[f]
  BY <1>4
<1> HIDE DEF fs
<1>6. [j EXCEPT !.founder = fs] = [founder |-> fs, members |-> j.members]
  BY <1>3 DEF Tables
<1> QED
  BY <1>2, <1>3, <1>4, <1>5, <1>6 DEF Tables, Attached, FoundedBy

\* The event a choice is written to.
Target(c) == IF c = New THEN issued + 1 ELSE c

\* What an event's members become, and who founded it, after a write.
PutEffect(es, p, c, a) ==
  /\ Target(c) \in Event /\ p \in Tables
  /\ \A f \in Event : p.members[f] =
       IF f = Target(c) THEN es.members[Target(c)] \cup {a} ELSE es.members[f]
  /\ \A f \in Event : p.founder[f] = IF c = New /\ f = Target(c) THEN a ELSE es.founder[f]
  /\ InEvent(p, a)
  /\ \A b \in Article : InEvent(es, b) => InEvent(p, b)

LEMMA PutView ==
  ASSUME NEW es \in Tables, NEW a \in Article, NEW c \in Event \cup {New},
         issued \in Nat, c = New => issued + 1 \in Event
  PROVE  PutEffect(es, Put(es, c, a), c, a)
<1> DEFINE e == Target(c)
           p == Put(es, c, a)
<1>1. /\ e \in Event /\ p \in Tables
      /\ \A f \in Event : p.members[f] =
           IF f = e THEN es.members[e] \cup {a} ELSE es.members[f]
      /\ \A f \in Event : p.founder[f] = IF c = New /\ f = e THEN a ELSE es.founder[f]
  <2>1. CASE c = New
    <3>1. e \in Event /\ p = Found(es, e, a)
      BY <2>1 DEF Put, Target
    <3> HIDE DEF e, p
    <3>2. Attached(p, es, e, a) /\ FoundedBy(p, es, e, a)
      BY <3>1, FoundAt
    <3> QED
      BY <2>1, <3>1, <3>2 DEF Attached, FoundedBy
  <2>2. CASE c # New
    <3>1. e \in Event /\ p = Join(es, e, a)
      BY <2>2 DEF Put, Target
    <3> HIDE DEF e, p
    <3>2. Attached(p, es, e, a) /\ p.founder = es.founder
      BY <3>1, JoinAt
    <3> QED
      BY <2>2, <3>1, <3>2 DEF Attached
  <2> QED
    BY <2>1, <2>2
<1> HIDE DEF p, e
<1>2. InEvent(p, a) /\ \A b \in Article : InEvent(es, b) => InEvent(p, b)
  BY <1>1 DEF InEvent
<1> QED
  BY <1>1, <1>2 DEF p, e, PutEffect

\* A write into an event of the view, or into a new one.
Writable(es, c) ==
  /\ c = New => issued + 1 \in Event /\ ~Exists(es, issued + 1)
  /\ c # New => Exists(es, c)

LEMMA PutFounded ==
  ASSUME NEW es \in Tables, NEW a \in Article, NEW c \in Event \cup {New},
         issued \in Nat, Founded(es), Writable(es, c)
  PROVE  /\ Founded(Put(es, c, a))
         /\ \A e \in Event : Exists(Put(es, c, a), e) <=>
              Exists(es, e) \/ (c = New /\ e = issued + 1)
<1> DEFINE p == Put(es, c, a)
<1>1. PutEffect(es, p, c, a)
  BY PutView DEF Writable
<1> HIDE DEF p
<1>2. \A f \in Event : Exists(p, f) <=> Exists(es, f) \/ (c = New /\ f = issued + 1)
  BY <1>1, EventAssumption DEF PutEffect, Exists, Writable, Target
<1>3. Founded(p)
  BY <1>1, <1>2, EventAssumption DEF PutEffect, Founded, Exists, Writable, Target
<1> QED
  BY <1>2, <1>3 DEF p

\* An article that is put into an event it did not found overlaps with it: it
\* goes on doing so, as the event only grows.
LEMMA PutCohesive ==
  ASSUME NEW es \in Tables, NEW a \in Article, NEW c \in Event \cup {New},
         issued \in Nat, Founded(es), Writable(es, c), CohesiveIn(es),
         c # New => Overlap(es, c, a) >= 2
  PROVE  CohesiveIn(Put(es, c, a))
<1> DEFINE e == Target(c)
           p == Put(es, c, a)
<1>0. PutEffect(es, p, c, a)
  BY PutView DEF Writable
<1>1. /\ e \in Event /\ p \in Tables
      /\ \A f \in Event : p.members[f] =
           IF f = e THEN es.members[e] \cup {a} ELSE es.members[f]
      /\ \A f \in Event : p.founder[f] = IF c = New /\ f = e THEN a ELSE es.founder[f]
  BY <1>0 DEF PutEffect
<1> HIDE DEF p
<1> SUFFICES ASSUME NEW f \in Event, NEW b \in p.members[f] \ {p.founder[f]}
             PROVE  Cardinality(Names(b) \cap UNION {Raw[x] : x \in p.members[f] \ {b}}) >= 2
  BY DEF CohesiveIn, p
<1> DEFINE Shared(M) == Names(b) \cap UNION {Raw[x] : x \in M \ {b}}
<1>2. b \in Article
  BY <1>1 DEF Tables
<1>3. ASSUME NEW M, NEW N, M \subseteq N, Cardinality(Shared(M)) >= 2
      PROVE  Cardinality(Shared(N)) >= 2
  <2>1. IsFiniteSet(Names(b))
    BY <1>2, FiniteNames
  <2> DEFINE X == UNION {Raw[x] : x \in M \ {b}}
             Y == UNION {Raw[x] : x \in N \ {b}}
  <2>2. Names(b) \cap X \subseteq Names(b) \cap Y /\ Cardinality(Names(b) \cap X) >= 2
    BY <1>3
  <2> HIDE DEF X, Y
  <2>3. Cardinality(Names(b) \cap Y) >= 2
    BY <2>1, <2>2, MoreShared
  <2> QED
    BY <2>3 DEF Y
\* A member before the step keeps what it shared.
<1>4. CASE b \in es.members[f] \ {es.founder[f]}
  <2>1. Cardinality(Shared(es.members[f])) >= 2
    BY <1>4 DEF CohesiveIn
  <2>2. es.members[f] \subseteq p.members[f]
    BY <1>1
  <2> QED
    BY <2>1, <2>2, <1>3
\* A new member was chosen for what it shares.
<1>5. CASE ~(b \in es.members[f] \ {es.founder[f]})
  <2>1. f = c /\ b = a /\ c # New
    <3>1. CASE c = New
      <4>1. es.members[e] = {}
        BY <3>1, <1>1 DEF Founded, Writable, Target
      <4> QED
        BY <3>1, <4>1, <1>1, <1>5
    <3>2. CASE c # New
      BY <3>2, <1>1, <1>5 DEF Target
    <3> QED
      BY <3>1, <3>2
  <2>2. a \notin es.members[c]
    BY <2>1, <1>1, <1>5 DEF Target
  <2>3. p.members[f] \ {b} = es.members[c]
    BY <2>1, <2>2, <1>1 DEF Target
  <2>4. Shared(p.members[f]) = Names(a) \cap EventEntities(es, c)
    BY <2>1, <2>3 DEF EventEntities
  <2> QED
    BY <2>1, <2>4 DEF Overlap
<1> QED
  BY <1>4, <1>5

-----------------------------------------------------------------------------
(* An article finds its own event.                                         *)

\* With no later member, the event was last seen when its founder appeared.
LEMMA LastSeenOwn ==
  ASSUME NEW es \in Tables, NEW e \in Event, NEW a \in Article, a \in es.members[e],
         \A b \in es.members[e] : ~(Published[b] > Published[a])
  PROVE  LastSeen(es, e) = Published[a]
<1> DEFINE S == {Published[b] : b \in es.members[e]}
<1>1. es.members[e] \subseteq Article /\ Published \in [Article -> Nat]
  BY EventAssumption DEF Tables
<1>2. Published[a] \in S /\ Published[a] \in Nat /\ \A y \in S : y \in Nat /\ Published[a] >= y
  BY <1>1
<1> HIDE DEF S
<1>3. Max(S) = Published[a]
  <2>1. Max(S) \in S /\ \A y \in S : Max(S) >= y
    BY <1>2 DEF Max
  <2> QED
    BY <1>2, <2>1
<1> QED
  BY <1>3 DEF LastSeen, S

\* Half of what is named together weighs at least 300 thousandths.
LEMMA HalfShare ==
  ASSUME NEW o \in Nat, NEW u \in Nat, o >= 2, 2 * o >= u
  PROVE  (600 * o) \div Max({u, 1}) >= 300 /\ (600 * o) \div Max({u, 1}) \in Nat
<1> DEFINE m == Max({u, 1})
<1>1. m = IF u >= 1 THEN u ELSE 1
  <2>1. \E x \in {u, 1} : \A y \in {u, 1} : x >= y
    OBVIOUS
  <2>2. m \in {u, 1} /\ \A y \in {u, 1} : m >= y
    BY <2>1 DEF Max
  <2> HIDE DEF m
  <2> QED
    BY <2>2
<1> HIDE DEF m
<1>2. m \in Nat /\ m >= 1 /\ 2 * o >= m
  BY <1>1
<1>3. (600 * o) \div m >= 300 /\ (600 * o) \div m \in Nat
  <2> DEFINE q == (600 * o) \div m
  <2>1. q \in Nat /\ 600 * o < m * (q + 1)
    BY <1>2, SMTT(30)
  <2> HIDE DEF q
  <2>2. 300 * m < m * (q + 1)
    BY <1>2, <2>1
  <2>3. q + 1 > 300
    BY <1>2, <2>1, <2>2, SMTT(30)
  <2>4. q >= 300
    BY <2>1, <2>3
  <2> QED
    BY <2>1, <2>4 DEF q
<1> QED
  BY <1>3 DEF m

\* The events that were last seen after one that has no later member all have
\* an article later than its founder.
LEMMA LaterEvents ==
  ASSUME NEW es \in Tables, Founded(es), NEW e \in Event, Exists(es, e), ~Drifted(es, e),
         NEW f \in Event, Exists(es, f), LastSeen(es, f) > LastSeen(es, e)
  PROVE  \E b \in es.members[f] : Published[b] > Published[es.founder[e]]
<1>1. /\ es.founder[e] \in Article /\ es.founder[e] \in es.members[e]
      /\ es.founder[f] \in Article /\ es.founder[f] \in es.members[f]
  BY DEF Tables, Founded, Exists
<1>2. LastSeen(es, e) = Published[es.founder[e]]
  BY <1>1, LastSeenOwn DEF Drifted
<1> DEFINE a == es.founder[e]
<1>3. CASE \A b \in es.members[f] : ~(Published[b] > Published[a])
  <2>1. es.members[f] \in SUBSET Article /\ es.members[f] # {}
    BY <1>1 DEF Tables
  <2>2. PICK x \in es.members[f] : \A b \in es.members[f] : Published[b] <= Published[x]
    BY <2>1, LatestExists
  <2>3. x \in Article /\ \A b \in es.members[f] : ~(Published[b] > Published[x])
    BY <2>1, <2>2, EventAssumption
  <2>4. LastSeen(es, f) = Published[x]
    BY <2>3, LastSeenOwn
  <2> QED
    BY <2>2, <2>4, <1>2, <1>3
<1> QED
  BY <1>3

\* An article recognised by its names finds its own event as long as that has
\* neither drifted nor been crowded out.
LEMMA OwnEventEligible ==
  ASSUME NEW es \in Tables, Founded(es), NEW e \in Event, Exists(es, e),
         Recognisable(es.founder[e]), ~Drifted(es, e), ~Crowded(es, e)
  PROVE  e \in Eligible(es, es.founder[e])
<1> DEFINE a == es.founder[e]
<1>1. a \in Article /\ a \in es.members[e]
  BY DEF Tables, Founded, Exists
<1>2. EventEntities(es, e) = Raw[a]
  BY <1>1 DEF Drifted, EventEntities
<1>3. LastSeen(es, e) = Published[a] /\ Published[a] \in Nat
  BY <1>1, LastSeenOwn, EventAssumption DEF Drifted
<1> HIDE DEF a
<1>4. /\ Overlap(es, e, a) >= 2 /\ Overlap(es, e, a) \in Nat
      /\ Cardinality(Names(a) \cup EventEntities(es, e)) \in Nat
      /\ 2 * Overlap(es, e, a) >= Cardinality(Names(a) \cup EventEntities(es, e))
  <2>1. IsFiniteSet(Names(a)) /\ IsFiniteSet(Raw[a])
    BY <1>1, FiniteNames, EventAssumption
  <2>2. IsFiniteSet(Names(a) \cup Raw[a]) /\ IsFiniteSet(Names(a) \cap Raw[a])
    BY <2>1, FS_Union, FS_Subset
  <2>3. Cardinality(Names(a) \cup Raw[a]) \in Nat /\ Cardinality(Names(a) \cap Raw[a]) \in Nat
    BY <2>2, FS_CardinalityType
  <2> QED
    BY <1>2, <2>3 DEF Overlap, Recognisable, a
<1>5. Score(es, e, a) >= 600
  <2> DEFINE o == Overlap(es, e, a)
             u == Cardinality(Names(a) \cup EventEntities(es, e))
  <2>1. Score(es, e, a) = (600 * o) \div Max({u, 1}) + 150
          + TimeScore(Distance(Published[a], LastSeen(es, e))) + TextScore[a][a]
    BY DEF Score, a
  <2>2. TimeScore(Distance(Published[a], LastSeen(es, e))) = 150
    BY <1>3 DEF TimeScore, Distance
  <2>3. TextScore[a][a] \in 0..100
    BY <1>1, EventAssumption
  <2>4. o \in Nat /\ u \in Nat /\ o >= 2 /\ 2 * o >= u
    BY <1>4
  <2> HIDE DEF o, u
  <2>5. (600 * o) \div Max({u, 1}) >= 300 /\ (600 * o) \div Max({u, 1}) \in Nat
    BY <2>4, HalfShare
  <2> QED
    BY <2>1, <2>2, <2>3, <2>5
<1>6. EnoughOverlap(es, e, a)
  BY <1>4 DEF EnoughOverlap
<1>7. e \in Candidate(es, a)
  <2> DEFINE later == {f \in Queried(es, a) : LastSeen(es, f) > LastSeen(es, e)}
             newer == {f \in Event : \E b \in es.members[f] : Published[b] > Published[a]}
  <2>1. e \in Queried(es, a)
    BY DEF Queried, a
  <2>2. later \subseteq newer
    BY LaterEvents DEF Queried, a
  <2>3. IsFiniteSet(newer)
    <3>1. newer \subseteq Event
      OBVIOUS
    <3> HIDE DEF newer
    <3>2. IsFiniteSet(Event)
      <4>1. 1 \in Int /\ MaxEvents \in Int
        BY EventAssumption
      <4> QED
        BY <4>1, FS_Interval DEF Event
    <3> QED
      BY <3>1, <3>2, FS_Subset
  <2>4. Cardinality(newer) < Candidates
    <3>1. IsFiniteSet(newer) /\ ~(Cardinality(newer) >= Candidates)
      BY <2>3 DEF Crowded, a
    <3> HIDE DEF newer
    <3>2. Cardinality(newer) \in Nat
      BY <3>1, FS_CardinalityType
    <3> QED
      BY <3>1, <3>2, EventAssumption
  <2> HIDE DEF later, newer
  <2>5. /\ Cardinality(later) <= Cardinality(newer)
        /\ Cardinality(later) \in Nat /\ Cardinality(newer) \in Nat
    BY <2>2, <2>3, FS_Subset, FS_CardinalityType
  <2>6. Cardinality(later) < Candidates
    BY <2>4, <2>5, EventAssumption
  <2> QED
    BY <2>1, <2>6 DEF Candidate, later
<1>8. e \in Eligible(es, a)
  BY <1>5, <1>6, <1>7 DEF Eligible
<1> QED
  BY <1>8 DEF a

\* A new event is chosen only when no own event is to be found.
LEMMA NoneEligible ==
  ASSUME NEW es \in Tables, Founded(es), NEW a, Eligible(es, a) = {}
  PROVE  NoOwnEvent(es, a)
BY OwnEventEligible DEF NoOwnEvent

-----------------------------------------------------------------------------
(* The invariant.                                                          *)

LEMMA ChoiceKinds ==
  /\ New # Undecided /\ New \notin Event /\ Undecided \notin Event
BY EventAssumption DEF New, Undecided, Event

LEMMA BestIsEvent ==
  ASSUME NEW es, NEW a, NEW c \in Best(es, a)
  PROVE  /\ c \in Event \cup {New}
         /\ c # New => c \in Event /\ Exists(es, c) /\ Overlap(es, c, a) >= 2
         /\ c = New => Eligible(es, a) = {}
<1>1. Eligible(es, a) \subseteq {e \in Event : Exists(es, e) /\ Overlap(es, e, a) >= 2}
  BY DEF Eligible, Candidate, Queried, EnoughOverlap
<1> QED
  BY <1>1, ChoiceKinds DEF Best

\* The next id belongs to no event yet.
LEMMA IssuedId ==
  ASSUME EInv, NEW c \in Event \cup {New}, Issue(c)
  PROVE  /\ issued \in Nat /\ issued' \in 0..MaxEvents
         /\ c = New => issued' = issued + 1
         /\ c # New => issued' = issued
         /\ c = New => /\ issued + 1 \in Event
                       /\ ~Exists(events, issued + 1) /\ ~Exists(draft, issued + 1)
<1>1. issued \in 0..MaxEvents /\ MaxEvents \in Nat
  BY EventAssumption DEF EInv, TypeOK
<1>2. c = New => issued + 1 \in Event /\ issued + 1 > issued
  BY <1>1 DEF Issue, Event
<1> QED
  BY <1>1, <1>2 DEF Issue, EInv, Fresh

\* What the consumer writes to: an event of the committed tables that the
\* running request has not deleted, or a new one.
LEMMA AttachTarget ==
  ASSUME EInv, Attach
  PROVE  /\ handling \in Article /\ choice \in Event \cup {New}
         /\ Writable(events, choice)
         /\ rebuild = "running" => Writable(draft, choice)
         /\ choice # New => Overlap(events, choice, handling) >= 2
<1>1. /\ handling \in Article /\ choice \in Event \cup {New} /\ Issue(choice)
      /\ choice # New => choice \in Event /\ Exists(events, choice)
      /\ rebuild = "running" /\ choice # New => Exists(draft, choice)
  BY DEF Attach, Referenced, Waits, EInv, TypeOK, ChoiceStands
<1>2. /\ Writable(events, choice)
      /\ rebuild = "running" => Writable(draft, choice)
  BY <1>1, IssuedId DEF Writable
<1> QED
  BY <1>1, <1>2 DEF EInv, ChoiceStands

LEMMA AttachStep ==
  ASSUME EInv, Attach
  PROVE  EInv'
<1> DEFINE a == handling
           c == choice
<1>0. /\ TypeOK /\ Founded(events) /\ Founded(draft)
      /\ Fresh /\ Requests /\ Kept /\ Redone
      /\ events \in Tables /\ draft \in Tables
  BY DEF EInv, TypeOK
<1>1. /\ a \in Article /\ c \in Event \cup {New}
      /\ Writable(events, c) /\ (rebuild = "running" => Writable(draft, c))
  BY AttachTarget
<1>2. /\ issued \in Nat /\ issued' \in 0..MaxEvents
      /\ c = New => issued' = issued + 1 /\ issued + 1 \in Event
      /\ c # New => issued' = issued
  BY <1>1, IssuedId DEF Attach
<1>3. /\ events' = Put(events, c, a)
      /\ draft' = IF rebuild = "running" THEN Put(draft, c, a) ELSE draft
      /\ handling' = None /\ choice' = Undecided /\ missed' = missed \ {a}
      /\ UNCHANGED <<stored, handled, rebuild, todo, rebuilt, rebuilds, overlapped, faults>>
  BY DEF Attach
<1>4. /\ PutEffect(events, events', c, a) /\ Founded(events')
      /\ \A e \in Event :
           Exists(events', e) <=> Exists(events, e) \/ (c = New /\ e = issued + 1)
  <2> DEFINE p == Put(events, c, a)
  <2>1. PutEffect(events, p, c, a)
    BY <1>0, <1>1, <1>2, PutView
  <2>2. /\ Founded(p)
        /\ \A e \in Event : Exists(p, e) <=> Exists(events, e) \/ (c = New /\ e = issued + 1)
    BY <1>0, <1>1, <1>2, PutFounded
  <2> HIDE DEF p
  <2>3. events' = p
    BY <1>3 DEF p
  <2> QED
    BY <2>1, <2>2, <2>3
<1>5. CASE rebuild = "running"
  <2>1. /\ PutEffect(draft, draft', c, a) /\ Founded(draft')
        /\ \A e \in Event :
             Exists(draft', e) <=> Exists(draft, e) \/ (c = New /\ e = issued + 1)
    <3> DEFINE p == Put(draft, c, a)
    <3>1. PutEffect(draft, p, c, a)
      BY <1>0, <1>1, <1>2, PutView
    <3>2. /\ Founded(p)
          /\ \A e \in Event : Exists(p, e) <=> Exists(draft, e) \/ (c = New /\ e = issued + 1)
      BY <1>0, <1>1, <1>2, <1>5, PutFounded
    <3> HIDE DEF p
    <3>3. draft' = p
      BY <1>3, <1>5 DEF p
    <3> QED
      BY <3>1, <3>2, <3>3
  <2>2. TypeOK'
    BY <1>0, <1>2, <1>3, <1>4, <2>1 DEF TypeOK, PutEffect
  <2>3. Fresh'
    BY <1>0, <1>2, <1>4, <2>1 DEF Fresh, Event
  <2>4. Requests' /\ ChoiceStands'
    BY <1>3, <1>5, ChoiceKinds DEF Requests, ChoiceStands
  <2>5. Kept'
    <3> SUFFICES ASSUME NEW e \in Event, Exists(events', e), Exists(draft', e)
                 PROVE  /\ events'.founder[e] = draft'.founder[e]
                        /\ draft'.founder[e] \in overlapped
                        /\ events'.members[e] \subseteq draft'.members[e]
      BY <1>3 DEF Kept
    <3>1. CASE c = New /\ e = issued + 1
      <4>1. ~Exists(events, e) /\ events.members[e] = {}
        BY <1>0, <1>1, <3>1 DEF Writable, Founded
      <4>2. a \in overlapped
        BY <1>0, <1>1, <1>5, EventAssumption DEF Requests
      <4> QED
        BY <3>1, <4>1, <4>2, <1>4, <2>1 DEF PutEffect, Target
    <3>2. CASE ~(c = New /\ e = issued + 1)
      <4>1. Exists(events, e) /\ Exists(draft, e)
        BY <3>2, <1>4, <2>1
      <4>2. /\ events.founder[e] = draft.founder[e] /\ draft.founder[e] \in overlapped
            /\ events.members[e] \subseteq draft.members[e]
        BY <4>1, <1>0 DEF Kept
      <4>3. events'.founder[e] = events.founder[e] /\ draft'.founder[e] = draft.founder[e]
        BY <3>2, <1>4, <2>1 DEF PutEffect, Target
      <4>4. events'.members[e] \subseteq draft'.members[e]
        BY <4>2, <1>4, <2>1 DEF PutEffect
      <4> QED
        BY <4>2, <4>3, <4>4
    <3> QED
      BY <3>1, <3>2
  <2>6. Redone'
    <3>1. \A e \in Event : Own(e)' => Own(e) /\ draft'.founder[e] = draft.founder[e]
      BY <1>4, <2>1 DEF Own, PutEffect, Target
    <3> QED
      BY <3>1, <1>0, <1>3 DEF Redone
  <2> QED
    BY <1>4, <2>1, <2>2, <2>3, <2>4, <2>5, <2>6 DEF EInv
<1>6. CASE rebuild = "idle"
  <2>1. draft' = NoEvents /\ draft = NoEvents
    BY <1>0, <1>3, <1>6 DEF Requests
  <2>2. /\ \A e \in Event : ~Exists(draft', e) /\ ~Exists(draft, e)
        /\ draft' \in Tables /\ Founded(draft')
    BY <2>1, NoEventsTables
  <2>3. TypeOK'
    BY <1>0, <1>2, <1>3, <1>4, <2>2 DEF TypeOK, PutEffect
  <2>4. Fresh'
    BY <1>0, <1>2, <1>4, <2>2 DEF Fresh, Event
  <2>5. Requests' /\ ChoiceStands'
    BY <1>0, <1>3, <1>6, <2>1, ChoiceKinds DEF Requests, ChoiceStands
  <2>6. Kept' /\ Redone'
    BY <1>0, <1>3, <2>2 DEF Kept, Redone, Own
  <2> QED
    BY <1>4, <2>2, <2>3, <2>4, <2>5, <2>6 DEF EInv
<1> QED
  BY <1>0, <1>5, <1>6 DEF TypeOK

LEMMA RebuildOneTarget ==
  ASSUME EInv, RebuildOne
  PROVE  \E c \in Event \cup {New} :
           /\ Issue(c) /\ draft' = Put(draft, c, Head(todo))
           /\ Writable(draft, c)
           /\ c # New => Overlap(draft, c, Head(todo)) >= 2
<1>1. PICK c \in Best(draft, Head(todo)) : Issue(c) /\ draft' = Put(draft, c, Head(todo))
  BY DEF RebuildOne
<1>2. /\ c \in Event \cup {New}
      /\ c # New => Exists(draft, c) /\ Overlap(draft, c, Head(todo)) >= 2
  BY BestIsEvent
<1>3. Writable(draft, c)
  BY <1>1, <1>2, IssuedId DEF Writable
<1> QED
  BY <1>1, <1>2, <1>3

LEMMA RebuildOneStep ==
  ASSUME EInv, RebuildOne
  PROVE  EInv'
<1> DEFINE a == Head(todo)
<1>0. /\ TypeOK /\ Founded(events) /\ Founded(draft)
      /\ Fresh /\ Requests /\ Kept /\ Redone /\ ChoiceStands
      /\ events \in Tables /\ draft \in Tables
  BY DEF EInv, TypeOK
<1>1. /\ a \in Article /\ Tail(todo) \in Seq(Article) /\ IsInjective(Tail(todo))
      /\ a \in ToSet(todo) /\ a \notin ToSet(Tail(todo))
      /\ ToSet(Tail(todo)) \subseteq ToSet(todo)
  BY <1>0, HeadAndTail DEF RebuildOne, TypeOK, Redone
<1>2. PICK c \in Event \cup {New} :
        Issue(c) /\ draft' = Put(draft, c, a) /\ Writable(draft, c)
  BY RebuildOneTarget
<1>3. /\ issued \in Nat /\ issued' \in 0..MaxEvents
      /\ c = New => /\ issued' = issued + 1 /\ issued + 1 \in Event
                    /\ ~Exists(events, issued + 1) /\ ~Exists(draft, issued + 1)
      /\ c # New => issued' = issued
  BY <1>2, IssuedId
<1>4. /\ rebuild = "running" /\ todo' = Tail(todo) /\ rebuilt' = rebuilt \cup {a}
      /\ UNCHANGED <<stored, events, handling, choice, missed, handled, rebuild, rebuilds,
                     overlapped, faults>>
  BY DEF RebuildOne, consumerVars
<1>5. /\ PutEffect(draft, draft', c, a) /\ Founded(draft')
      /\ \A e \in Event :
           Exists(draft', e) <=> Exists(draft, e) \/ (c = New /\ e = issued + 1)
  <2> DEFINE p == Put(draft, c, a)
  <2>1. PutEffect(draft, p, c, a)
    BY <1>0, <1>1, <1>3, PutView
  <2>2. /\ Founded(p)
        /\ \A e \in Event : Exists(p, e) <=> Exists(draft, e) \/ (c = New /\ e = issued + 1)
    BY <1>0, <1>1, <1>2, <1>3, PutFounded
  <2> HIDE DEF p
  <2>3. draft' = p
    BY <1>2 DEF p
  <2> QED
    BY <2>1, <2>2, <2>3
<1> HIDE DEF a
<1>6. TypeOK'
  BY <1>0, <1>1, <1>3, <1>4, <1>5 DEF TypeOK, PutEffect
<1>7. Founded(events)' /\ Fresh' /\ Requests'
  <2>1. Fresh'
    BY <1>0, <1>3, <1>4, <1>5 DEF Fresh, Event
  <2> QED
    BY <2>1, <1>0, <1>4 DEF Requests
<1>8. Kept'
  <2> SUFFICES ASSUME NEW e \in Event, Exists(events', e), Exists(draft', e)
               PROVE  /\ events'.founder[e] = draft'.founder[e]
                      /\ draft'.founder[e] \in overlapped
                      /\ events'.members[e] \subseteq draft'.members[e]
    BY <1>4 DEF Kept
  <2>1. Exists(events, e) /\ ~(c = New /\ e = issued + 1) /\ Exists(draft, e)
    BY <1>3, <1>4, <1>5
  <2>2. /\ events.founder[e] = draft.founder[e] /\ draft.founder[e] \in overlapped
        /\ events.members[e] \subseteq draft.members[e]
    BY <2>1, <1>0 DEF Kept
  <2>3. draft'.founder[e] = draft.founder[e] /\ draft.members[e] \subseteq draft'.members[e]
    BY <2>1, <1>5 DEF PutEffect, Target
  <2> QED
    BY <2>2, <2>3, <1>4
<1>9. Redone'
  <2>1. \A e \in Event : Own(e)' =>
          \/ Own(e) /\ draft'.founder[e] = draft.founder[e]
          \/ c = New /\ e = issued + 1 /\ draft'.founder[e] = a
    BY <1>4, <1>5 DEF Own, PutEffect, Target
  <2>2. \A e \in Event : Own(e) => draft.founder[e] \notin ToSet(todo)
    BY <1>0 DEF Redone
  <2>3. \A e \in Event : Own(e)' => draft'.founder[e] \notin ToSet(Tail(todo))
    BY <2>1, <2>2, <1>1
  <2>4. \A e, f \in Event : Own(e)' /\ Own(f)' /\ e # f => draft'.founder[e] # draft'.founder[f]
    BY <2>1, <2>2, <1>0, <1>1 DEF Redone
  <2> QED
    BY <2>3, <2>4, <1>1, <1>4 DEF Redone
<1>10. ChoiceStands'
  <2>1. ASSUME choice \in Event
        PROVE  choice <= issued' /\ (Exists(draft', choice) => Exists(events, choice))
    <3>1. choice <= issued /\ choice \in Nat /\ issued \in Nat
      BY <2>1, <1>0, <1>3 DEF ChoiceStands, Event
    <3>2. choice # issued + 1 /\ choice <= issued'
      BY <3>1, <1>3
    <3> QED
      BY <2>1, <3>2, <1>0, <1>5 DEF ChoiceStands
  <2> QED
    BY <2>1, <1>0, <1>4 DEF ChoiceStands, NoOwnEvent
<1> QED
  BY <1>5, <1>6, <1>7, <1>8, <1>9, <1>10 DEF EInv

\* The request commits: what it saw is now what everyone sees.
LEMMA RebuildEndsStep ==
  ASSUME EInv, RebuildEnds
  PROVE  EInv'
<1>0. /\ TypeOK /\ Founded(draft) /\ Fresh /\ Requests /\ Kept /\ ChoiceStands
      /\ draft \in Tables
  BY DEF EInv, TypeOK
<1>1. /\ rebuild = "running" /\ todo = <<>> /\ rebuild' = "idle"
      /\ events' = draft /\ draft' = NoEvents /\ rebuilt' = {}
      /\ UNCHANGED <<stored, issued, handling, choice, missed, handled, todo, rebuilds,
                     overlapped, faults>>
  BY DEF RebuildEnds, consumerVars
<1>2. draft' \in Tables /\ Founded(draft') /\ \A e \in Event : ~Exists(draft', e)
  BY <1>1, NoEventsTables
<1>3. TypeOK'
  BY <1>0, <1>1, <1>2 DEF TypeOK
<1>4. Founded(events)' /\ Founded(draft)' /\ Fresh' /\ Requests' /\ Kept'
  BY <1>0, <1>1, <1>2 DEF Fresh, Requests, Kept
<1>5. Redone'
  BY <1>1, <1>2 DEF Redone, Own, IsInjective
<1>6. ChoiceStands'
  <2>1. ASSUME choice \in Event, Exists(draft, choice)
        PROVE  Overlap(draft, choice, handling) >= 2
    <3>1. /\ Exists(events, choice) /\ Overlap(events, choice, handling) >= 2
          /\ handling \in Article
      BY <2>1, <1>0, ChoiceKinds DEF ChoiceStands, TypeOK
    <3>2. events.members[choice] \subseteq draft.members[choice]
      BY <2>1, <3>1, <1>0 DEF Kept
    <3> QED
      BY <3>1, <3>2, OverlapGrows
  <2>2. choice = New => handling \in overlapped
    BY <1>0, <1>1, ChoiceKinds DEF ChoiceStands, Requests
  <2> QED
    BY <2>1, <2>2, <1>0, <1>1, <1>2 DEF ChoiceStands
<1> QED
  BY <1>3, <1>4, <1>5, <1>6 DEF EInv

LEMMA EventsInductive == Spec => []EInv
<1>1. Init => EInv
  <2> SUFFICES ASSUME Init PROVE EInv
    OBVIOUS
  <2>1. TypeOK
    BY NoEventsTables, EventAssumption DEF Init, TypeOK, IsInjective
  <2>2. Founded(events) /\ Founded(draft) /\ Fresh /\ Kept
    BY NoEventsTables DEF Init, Fresh, Kept
  <2>3. Requests /\ Redone
    BY NoEventsTables DEF Init, Requests, Redone, Own, IsInjective
  <2>4. ChoiceStands
    BY ChoiceKinds DEF Init, ChoiceStands
  <2> QED
    BY <2>1, <2>2, <2>3, <2>4 DEF EInv
<1>2. EInv /\ [Next]_vars => EInv'
  <2> SUFFICES ASSUME EInv, [Next]_vars PROVE EInv'
    OBVIOUS
  <2>0. /\ TypeOK /\ Founded(events) /\ Founded(draft)
        /\ Fresh /\ Requests /\ Kept /\ Redone /\ ChoiceStands
    BY DEF EInv
\* The tables, the issued ids and what is to do stay, and no article leaves
\* the history.
  <2>a. ASSUME UNCHANGED <<events, draft, issued, todo>>, overlapped \subseteq overlapped',
               TypeOK', Requests', ChoiceStands'
        PROVE  EInv'
    <3>1. Kept' /\ Redone' /\ Fresh'
      BY <2>0, <2>a DEF Kept, Redone, Own, Fresh
    <3> QED
      BY <2>0, <2>a, <3>1 DEF EInv
  <2>1. ASSUME NEW a \in Article, Handle(a)
        PROVE  EInv'
    <3>1. stored' \in Seq(Article) /\ IsInjective(stored')
      BY <2>0, <2>1, UpsertedStored DEF Handle, TypeOK
    <3>2. handled' \in Nat /\ overlapped' \subseteq Article /\ overlapped \subseteq overlapped'
      BY <2>0, <2>1 DEF Handle, TypeOK
    <3>3. choice = Undecided
      BY <2>0, <2>1 DEF Handle, ChoiceStands
    <3>4. TypeOK'
      BY <2>0, <2>1, <3>1, <3>2 DEF Handle, TypeOK, rebuildVars
    <3>5. ChoiceStands'
      BY <2>1, <3>3, ChoiceKinds DEF Handle, ChoiceStands
    <3>6. Requests'
      BY <2>0, <2>1 DEF Handle, Requests, rebuildVars
    <3> QED
      BY <2>1, <2>a, <3>2, <3>4, <3>5, <3>6 DEF Handle, rebuildVars
  <2>2. CASE Choose
    <3>1. /\ choice' \in Best(events, handling) /\ handling \in Article
          /\ UNCHANGED <<stored, events, issued, handling, missed, handled, rebuild, todo,
                         rebuilt, draft, rebuilds, overlapped, faults>>
      BY <2>0, <2>2 DEF Choose, rebuildVars, TypeOK
    <3>2. /\ choice' \in Event \cup {New}
          /\ choice' # New => Exists(events, choice') /\ Overlap(events, choice', handling) >= 2
          /\ choice' = New => Eligible(events, handling) = {}
      BY <3>1, BestIsEvent
    <3>3. TypeOK' /\ Requests'
      BY <2>0, <3>1, <3>2 DEF TypeOK, Requests
    <3>4. ASSUME choice' \in Event
          PROVE  choice' <= issued
      BY <2>0, <3>2, <3>4, ChoiceKinds DEF Fresh, TypeOK, Event
    <3>5. choice' = New => NoOwnEvent(events, handling)
      BY <2>0, <3>1, <3>2, NoneEligible DEF TypeOK
    <3>6. ChoiceStands'
      BY <3>1, <3>2, <3>4, <3>5, ChoiceKinds, EventAssumption DEF ChoiceStands, NoOwnEvent
    <3> QED
      BY <2>a, <3>1, <3>3, <3>6
  <2>3. CASE Attach
    BY <2>3, AttachStep
  <2>4. CASE AttachFails
    <3>1. /\ faults' \in Nat /\ missed' \subseteq Article
          /\ handling' = None /\ choice' = Undecided
          /\ UNCHANGED <<stored, events, issued, handled, rebuild, todo, rebuilt, draft,
                         rebuilds, overlapped>>
      BY <2>0, <2>4 DEF AttachFails, Fault, TypeOK, rebuildVars
    <3>2. TypeOK' /\ Requests' /\ ChoiceStands'
      BY <2>0, <3>1, ChoiceKinds DEF TypeOK, Requests, ChoiceStands
    <3> QED
      BY <2>a, <3>1, <3>2
  <2>5. CASE Wipe
    <3>1. /\ draft' = NoEvents /\ rebuilds' \in Nat /\ todo' = stored /\ rebuild' = "running"
          /\ rebuilt' = {} /\ overlapped' = overlapped \cup ({handling} \ {None})
          /\ UNCHANGED <<stored, events, issued, handling, choice, missed, handled, faults>>
      BY <2>0, <2>5 DEF Wipe, TypeOK, consumerVars
    <3>2. draft' \in Tables /\ Founded(draft') /\ \A e \in Event : ~Exists(draft', e)
      BY <3>1, NoEventsTables
    <3>3. TypeOK'
      BY <2>0, <3>1, <3>2 DEF TypeOK
    <3>4. Fresh' /\ Requests' /\ Kept'
      BY <2>0, <3>1, <3>2 DEF Fresh, Requests, Kept
    <3>5. Redone'
      BY <2>0, <3>1, <3>2 DEF Redone, Own, TypeOK
    <3>6. ChoiceStands'
      BY <2>0, <3>1, <3>2 DEF ChoiceStands, NoOwnEvent
    <3> QED
      BY <2>0, <3>1, <3>2, <3>3, <3>4, <3>5, <3>6 DEF EInv
  <2>6. CASE RebuildOne
    BY <2>6, RebuildOneStep
  <2>7. CASE RebuildEnds
    BY <2>7, RebuildEndsStep
  <2>8. CASE RebuildFails
    <3>1. /\ events' = events /\ draft' = NoEvents /\ rebuild' = "idle" /\ rebuilt' = {}
          /\ faults' \in Nat /\ todo' = <<>>
          /\ UNCHANGED <<stored, issued, handling, choice, missed, handled, rebuilds, overlapped>>
      BY <2>0, <2>8 DEF RebuildFails, RolledBack, Fault, TypeOK, consumerVars
    <3>2. draft' \in Tables /\ Founded(draft') /\ \A e \in Event : ~Exists(draft', e)
      BY <3>1, NoEventsTables
    <3>3. TypeOK'
      BY <2>0, <3>1, <3>2 DEF TypeOK
    <3>4. Fresh' /\ Requests' /\ Kept'
      BY <2>0, <3>1, <3>2 DEF Fresh, Requests, Kept
    <3>5. Redone'
      BY <3>1, <3>2 DEF Redone, Own, IsInjective
    <3>6. ChoiceStands'
      BY <2>0, <3>1, <3>2 DEF ChoiceStands, NoOwnEvent
    <3> QED
      BY <2>0, <3>1, <3>2, <3>3, <3>4, <3>5, <3>6 DEF EInv
  <2>9. CASE UNCHANGED vars
    <3>1. TypeOK' /\ ChoiceStands' /\ Requests'
      BY <2>0, <2>9 DEF vars, consumerVars, rebuildVars, TypeOK, ChoiceStands, NoOwnEvent, Requests
    <3> QED
      BY <2>0, <2>9, <2>a, <3>1 DEF vars, consumerVars, rebuildVars
  <2> QED
    BY <2>1, <2>2, <2>3, <2>4, <2>5, <2>6, <2>7, <2>8, <2>9 DEF Next
<1> QED
  BY <1>1, <1>2, PTL DEF Spec

\* For any articles, names, scores, candidate limit and interleaving of the
\* two writers, with any faults: an event has the article it was created from,
\* and nothing is attached to an event that is gone.
THEOREM EventsAlwaysWellFounded == Spec => []EventsWellFounded
<1>1. EInv => EventsWellFounded
  BY DEF EInv, EventsWellFounded, Founded
<1> QED
  BY <1>1, EventsInductive, PTL

-----------------------------------------------------------------------------
(* No article is left behind.                                              *)

LEMMA AccountedStep ==
  ASSUME EInv, ClusteredOrMissed, AccountedFor, [Next]_vars
  PROVE  ClusteredOrMissed' /\ AccountedFor'
<1>0. TypeOK /\ events \in Tables /\ draft \in Tables /\ ToSet(stored) \subseteq Article
  BY DEF EInv, TypeOK, ToSet
<1>1. ASSUME NEW a \in Article, Handle(a)
      PROVE  ClusteredOrMissed' /\ AccountedFor'
  <2>1. /\ ToSet(stored') = ToSet(stored) \cup {a} /\ handling = None /\ handling' = a
        /\ UNCHANGED <<events, missed, rebuild, draft, todo>>
    BY <1>0, <1>1, UpsertedStored DEF Handle, rebuildVars, TypeOK
  <2>2. \A b \in ToSet(stored) : b # handling
    BY <1>0, <2>1, EventAssumption
  <2> QED
    BY <2>1, <2>2 DEF ClusteredOrMissed, AccountedFor, InEvent
<1>2. CASE Attach
  <2>1. /\ handling \in Article /\ choice \in Event \cup {New}
        /\ Writable(events, choice) /\ (rebuild = "running" => Writable(draft, choice))
    BY <1>2, AttachTarget
  <2>2. issued \in Nat /\ (choice = New => issued + 1 \in Event)
    BY <1>2, <2>1, IssuedId DEF Attach
  <2>3. /\ PutEffect(events, events', choice, handling)
        /\ rebuild = "running" => PutEffect(draft, draft', choice, handling)
    <3>1. PutEffect(events, Put(events, choice, handling), choice, handling)
      BY <1>0, <2>1, <2>2, PutView
    <3>2. PutEffect(draft, Put(draft, choice, handling), choice, handling)
      BY <1>0, <2>1, <2>2, PutView
    <3> QED
      BY <1>2, <3>1, <3>2 DEF Attach
  <2>4. /\ stored' = stored /\ todo' = todo /\ rebuild' = rebuild
        /\ missed' = missed \ {handling}
    BY <1>2 DEF Attach
  <2>5. /\ InEvent(events', handling) /\ \A b \in Article : InEvent(events, b) => InEvent(events', b)
        /\ rebuild = "running" =>
             InEvent(draft', handling) /\ \A b \in Article : InEvent(draft, b) => InEvent(draft', b)
    BY <2>3 DEF PutEffect
  <2>6. ClusteredOrMissed'
    BY <1>0, <2>4, <2>5 DEF ClusteredOrMissed, InEvent
  <2>7. AccountedFor'
    BY <1>0, <2>4, <2>5 DEF AccountedFor, InEvent
  <2> QED
    BY <2>6, <2>7
<1>3. CASE Choose \/ UNCHANGED vars
  BY <1>3 DEF Choose, vars, consumerVars, rebuildVars, ClusteredOrMissed, AccountedFor, InEvent
<1>4. CASE AttachFails
  BY <1>4 DEF AttachFails, rebuildVars, ClusteredOrMissed, AccountedFor, InEvent
<1>5. CASE Wipe
  BY <1>5 DEF Wipe, consumerVars, ClusteredOrMissed, AccountedFor, InEvent
<1>6. CASE RebuildOne
  <2>1. PICK c \in Event \cup {New} :
          Issue(c) /\ draft' = Put(draft, c, Head(todo)) /\ Writable(draft, c)
    BY <1>6, RebuildOneTarget
  <2>2. issued \in Nat /\ (c = New => issued + 1 \in Event)
    BY <2>1, IssuedId
  <2>3. Head(todo) \in Article /\ ToSet(todo) = {Head(todo)} \cup ToSet(Tail(todo))
    BY <1>0, <1>6, HeadAndTail DEF RebuildOne, TypeOK, EInv, Redone
  <2>4. /\ InEvent(draft', Head(todo))
        /\ \A b \in Article : InEvent(draft, b) => InEvent(draft', b)
    <3>1. PutEffect(draft, Put(draft, c, Head(todo)), c, Head(todo))
      BY <1>0, <2>2, <2>3, PutView
    <3> QED
      BY <2>1, <3>1 DEF PutEffect
  <2>5. /\ todo' = Tail(todo) /\ rebuild = "running"
        /\ UNCHANGED <<stored, events, handling, missed, rebuild>>
    BY <1>6 DEF RebuildOne, consumerVars
  <2>6. ClusteredOrMissed'
    BY <2>5 DEF ClusteredOrMissed, InEvent
  <2>7. AccountedFor'
    BY <1>0, <2>3, <2>4, <2>5 DEF AccountedFor
  <2> QED
    BY <2>6, <2>7
<1>7. CASE RebuildEnds
  <2>1. /\ events' = draft /\ rebuild = "running" /\ rebuild' = "idle" /\ ToSet(todo) = {}
        /\ UNCHANGED <<stored, handling, missed>>
    BY <1>7 DEF RebuildEnds, consumerVars, ToSet
  <2> QED
    BY <2>1 DEF ClusteredOrMissed, AccountedFor, InEvent
<1>8. CASE RebuildFails
  BY <1>8 DEF RebuildFails, RolledBack, consumerVars, ClusteredOrMissed, AccountedFor, InEvent
<1> QED
  BY <1>1, <1>2, <1>3, <1>4, <1>5, <1>6, <1>7, <1>8 DEF Next

\* For any articles, scores and interleaving, with any faults and rebuilds: a
\* stored article is in an event unless it is in the handler or its last
\* handling failed.
THEOREM RebuildLeavesNoneBehind == Spec => []ClusteredOrMissed
<1>1. Init => ClusteredOrMissed /\ AccountedFor
  BY DEF Init, ClusteredOrMissed, AccountedFor, ToSet
<1>2. EInv /\ (ClusteredOrMissed /\ AccountedFor) /\ [Next]_vars
        => (ClusteredOrMissed /\ AccountedFor)'
  BY AccountedStep
<1> QED
  BY <1>1, <1>2, EventsInductive, PTL DEF Spec

-----------------------------------------------------------------------------
(* What the clusters are made of.                                          *)

LEMMA CohesiveStep ==
  ASSUME EInv, CohesiveIn(events), CohesiveIn(draft), [Next]_vars
  PROVE  CohesiveIn(events)' /\ CohesiveIn(draft)'
<1>0. /\ TypeOK /\ events \in Tables /\ draft \in Tables
      /\ Founded(events) /\ Founded(draft) /\ Requests
  BY DEF EInv, TypeOK
<1>1. CASE UNCHANGED <<events, draft>>
  BY <1>1
<1>2. CASE Attach
  <2>1. /\ handling \in Article /\ choice \in Event \cup {New}
        /\ Writable(events, choice) /\ (rebuild = "running" => Writable(draft, choice))
        /\ choice # New => Overlap(events, choice, handling) >= 2
    BY <1>2, AttachTarget
  <2>2. issued \in Nat
    BY <1>2, <2>1, IssuedId DEF Attach
  <2>3. CohesiveIn(Put(events, choice, handling))
    BY <1>0, <2>1, <2>2, PutCohesive
  <2>4. ASSUME rebuild = "running"
        PROVE  CohesiveIn(Put(draft, choice, handling))
    <3>1. ASSUME choice # New
          PROVE  Overlap(draft, choice, handling) >= 2
      <4>1. events.members[choice] \subseteq draft.members[choice]
        BY <2>1, <2>4, <3>1 DEF EInv, Kept, Writable
      <4> QED
        BY <2>1, <3>1, <4>1, OverlapGrows
    <3> QED
      BY <1>0, <2>1, <2>2, <2>4, <3>1, PutCohesive
  <2> QED
    BY <1>2, <2>3, <2>4 DEF Attach
<1>3. CASE RebuildOne
  <2>1. PICK c \in Event \cup {New} :
          /\ Issue(c) /\ draft' = Put(draft, c, Head(todo)) /\ Writable(draft, c)
          /\ c # New => Overlap(draft, c, Head(todo)) >= 2
    BY <1>3, RebuildOneTarget
  <2>2. issued \in Nat /\ Head(todo) \in Article
    BY <1>0, <1>3, <2>1, IssuedId, HeadAndTail DEF RebuildOne, TypeOK, EInv, Redone
  <2>3. CohesiveIn(Put(draft, c, Head(todo)))
    BY <1>0, <2>1, <2>2, PutCohesive
  <2> QED
    BY <1>3, <2>1, <2>3 DEF RebuildOne
<1>4. CASE Wipe
  BY <1>4, NoEventsTables DEF Wipe
<1>5. CASE RebuildEnds
  BY <1>5, NoEventsTables DEF RebuildEnds
<1>6. CASE RebuildFails
  BY <1>6, NoEventsTables DEF RebuildFails, RolledBack
<1> QED
  BY <1>1, <1>2, <1>3, <1>4, <1>5, <1>6
  DEF Next, Handle, Choose, AttachFails, rebuildVars, vars

\* For any articles, names, scores and interleaving: an article joins an event
\* of others only on two names that stand among the others' entities, and goes
\* on sharing them.
THEOREM ClustersAlwaysCohesive == Spec => []ClusterCohesive
<1>1. Init => CohesiveIn(events) /\ CohesiveIn(draft)
  BY NoEventsTables DEF Init
<1>2. EInv /\ (CohesiveIn(events) /\ CohesiveIn(draft)) /\ [Next]_vars
        => (CohesiveIn(events) /\ CohesiveIn(draft))'
  BY CohesiveStep
<1>3. CohesiveIn(events) => ClusterCohesive
  BY DEF CohesiveIn, ClusterCohesive
<1> QED
  BY <1>1, <1>2, <1>3, EventsInductive, PTL DEF Spec

-----------------------------------------------------------------------------
(* Twins.                                                                  *)

\* An event that has drifted or is crowded out stays so as the tables grow.
LEMMA ReasonsStay ==
  ASSUME NEW es, NEW fs, NEW e \in Event, es.founder[e] = fs.founder[e],
         \A f \in Event : es.members[f] \subseteq fs.members[f],
         Drifted(es, e) \/ Crowded(es, e)
  PROVE  Drifted(fs, e) \/ Crowded(fs, e)
<1>1. CASE Drifted(es, e)
  BY <1>1 DEF Drifted
<1>2. CASE Crowded(es, e)
  <2> DEFINE Newer(ts) == {f \in Event :
               \E b \in ts.members[f] : Published[b] > Published[es.founder[e]]}
  <2>1. Newer(es) \subseteq Newer(fs) /\ Newer(fs) \subseteq Event
    OBVIOUS
  <2>2. Cardinality(Newer(es)) >= Candidates
    BY <1>2 DEF Crowded
  <2> HIDE DEF Newer
  <2>3. IsFiniteSet(Newer(fs))
    <3>1. IsFiniteSet(Event)
      BY EventAssumption, FS_Interval DEF Event
    <3> QED
      BY <2>1, <3>1, FS_Subset
  <2>4. Cardinality(Newer(es)) <= Cardinality(Newer(fs)) /\ IsFiniteSet(Newer(es))
    BY <2>1, <2>3, FS_Subset
  <2>5. Cardinality(Newer(es)) \in Nat /\ Cardinality(Newer(fs)) \in Nat
    BY <2>3, <2>4, FS_CardinalityType
  <2>6. Cardinality(Newer(fs)) >= Candidates
    BY <2>2, <2>4, <2>5, EventAssumption
  <2> QED
    BY <2>6 DEF Crowded, Newer
<1> QED
  BY <1>1, <1>2

LEMMA TwinsStep ==
  ASSUME EInv, TwinsExplained, [Next]_vars
  PROVE  TwinsExplained'
<1>0. /\ TypeOK /\ events \in Tables /\ Founded(events) /\ overlapped \subseteq overlapped'
  <2>1. overlapped \subseteq overlapped'
    BY DEF Next, Handle, Choose, Attach, AttachFails, Wipe, RebuildOne, RebuildEnds,
           RebuildFails, vars
  <2> QED
    BY <2>1 DEF EInv, TypeOK
<1>1. CASE events' = events
  BY <1>0, <1>1 DEF TwinsExplained, Exists, Drifted, Crowded
<1>2. CASE Attach
  <2> DEFINE a == handling
             n == issued + 1
  <2>1. /\ a \in Article /\ choice \in Event \cup {New} /\ Writable(events, choice)
    BY <1>2, AttachTarget
  <2>2. issued \in Nat /\ (choice = New => n \in Event)
    BY <1>2, <2>1, IssuedId DEF Attach
  <2>3. PutEffect(events, events', choice, a)
    <3>1. PutEffect(events, Put(events, choice, a), choice, a)
      BY <1>0, <2>1, <2>2, PutView
    <3> QED
      BY <1>2, <3>1 DEF Attach
  <2>4. /\ \A f \in Event : events.members[f] \subseteq events'.members[f]
        /\ \A f \in Event : events'.founder[f] =
             IF choice = New /\ f = n THEN a ELSE events.founder[f]
    BY <2>3 DEF PutEffect, Target
  <2> SUFFICES ASSUME NEW e \in Event, NEW f \in Event, e < f, Exists(events', e),
                      events'.founder[e] = events'.founder[f],
                      Recognisable(events'.founder[e]), events'.founder[e] \notin overlapped
               PROVE  Drifted(events', e) \/ Crowded(events', e)
    BY <1>0 DEF TwinsExplained
\* The new event is the later of the two: its founder did not find the earlier.
  <2>5. CASE choice = New /\ f = n
    <3>1. /\ e # n /\ events.founder[e] = a /\ events'.founder[e] = a /\ Exists(events, e)
      BY <2>2, <2>4, <2>5 DEF Exists, Event
    <3>2. NoOwnEvent(events, a)
      BY <2>5, <3>1 DEF EInv, ChoiceStands
    <3>3. Drifted(events, e) \/ Crowded(events, e)
      BY <3>1, <3>2 DEF NoOwnEvent
    <3> QED
      BY <2>4, <3>1, <3>3, ReasonsStay
\* It cannot be the earlier one, as later ids are not issued.
  <2>6. CASE choice = New /\ e = n
    <3>1. f \in Event /\ f > issued /\ f # n
      BY <2>2, <2>6 DEF Event
    <3>2. events.founder[f] = None
      BY <3>1 DEF EInv, Fresh, Exists
    <3>3. events'.founder[f] = None /\ events'.founder[e] = a
      BY <2>4, <2>6, <3>1, <3>2
    <3> QED
      BY <3>3, <2>1, EventAssumption
\* Otherwise both were there.
  <2>7. CASE ~(choice = New /\ f = n) /\ ~(choice = New /\ e = n)
    <3>1. /\ events'.founder[e] = events.founder[e] /\ events'.founder[f] = events.founder[f]
          /\ Exists(events, e)
      BY <2>4, <2>7 DEF Exists
    <3>2. Drifted(events, e) \/ Crowded(events, e)
      BY <3>1 DEF TwinsExplained
    <3> QED
      BY <2>4, <3>1, <3>2, ReasonsStay
  <2> QED
    BY <2>5, <2>6, <2>7
\* A committed rebuild founded one event per article, beside those the consumer
\* founded meanwhile.
<1>3. CASE RebuildEnds
  <2>1. events' = draft /\ overlapped' = overlapped /\ Kept /\ Redone
    BY <1>3 DEF RebuildEnds, EInv
  <2> SUFFICES ASSUME NEW e \in Event, NEW f \in Event, e < f, Exists(draft, e),
                      draft.founder[e] = draft.founder[f], draft.founder[e] \notin overlapped
               PROVE  FALSE
    BY <2>1 DEF TwinsExplained
  <2>2. Own(e) /\ Own(f)
    BY <2>1 DEF Own, Kept, Exists
  <2>3. e # f
    BY EventAssumption DEF Event
  <2> QED
    BY <2>1, <2>2, <2>3 DEF Redone
<1> QED
  BY <1>1, <1>2, <1>3
  DEF Next, Handle, Choose, AttachFails, Wipe, RebuildOne, RebuildFails, RolledBack, vars

\* For any articles, names, scores, candidate limit and interleaving: an
\* article that is recognised by its names founds a second event only when its
\* first has drifted, is crowded out of the query, or a rebuild overlapped it.
THEOREM TwinsAlwaysExplained == Spec => []TwinsExplained
<1>1. Init => TwinsExplained
  BY NoEventsTables DEF Init, TwinsExplained
<1>2. EInv /\ TwinsExplained /\ [Next]_vars => TwinsExplained'
  BY TwinsStep
<1> QED
  BY <1>1, <1>2, EventsInductive, PTL DEF Spec
=============================================================================
