--------------------------- MODULE ConsumerRunner ---------------------------
(***************************************************************************)
(* The shared Kafka consume loop, backend/shared/kafka/consumer.py, and    *)
(* the loop of the same shape in services/embedding-service/consumer.py,   *)
(* one process per consumer group, over a partitioned append-only log.     *)
(*                                                                         *)
(*   while self._running:                                                  *)
(*       msg = poll(1.0)          -> Poll, or EmptyPoll (None or an error) *)
(*       try: on_message(msg)                                              *)
(*       except Exception: log                                             *)
(*       finally: commit()        -> Return                                *)
(*   finally: close()             -> the stopping half of Return/EmptyPoll *)
(*                                                                         *)
(* commit() without arguments is asynchronous and asks the broker to store *)
(* the position of every assigned partition; the broker applies it later   *)
(* (CommitLands) or never does, if the process has been replaced by then.  *)
(* A process can be killed at any moment (Crash) and is restarted by its   *)
(* supervisor (Start) from the committed offsets.                          *)
(*                                                                         *)
(* Offsets count from 1, so position[g][p] is the number of messages of p  *)
(* that have been polled and committed[g][p] the number committed.         *)
(***************************************************************************)
EXTENDS Naturals, Sequences, FiniteSets

CONSTANTS
  Group,        \* consumer groups, one process each
  Topic,        \* topic names
  Partition,    \* partition numbers of every topic
  Subscribes,   \* Subscribes[g]: the topic group g consumes
  Message,      \* message values
  MaxCrashes,   \* bound: kills of consumer processes
  MaxStops,     \* bound: SIGINT/SIGTERM deliveries
  MaxLog        \* bound: messages per partition

ASSUME RunnerAssumption ==
  /\ Subscribes \in [Group -> Topic]
  /\ MaxCrashes \in Nat /\ MaxStops \in Nat /\ MaxLog \in Nat

Idle == <<>>    \* no message is being handled

VARIABLES
  log,         \* log[t][p]: the messages of partition p of topic t
  position,    \* position[g][p]: next-offset cursor of the running process
  current,     \* current[g]: Idle or <<p, o>>, the message in the handler
  requested,   \* requested[g]: positions of the last commit() call
  committed,   \* committed[g]: the group's offsets on the broker
  alive,       \* alive[g]: the process runs
  running,     \* running[g]: self._running
  finished,    \* history: <<g, p, o>> whose handler returned or raised
  crashes, stops

brokerVars == <<log, committed>>
runnerVars == <<position, current, requested, alive, running>>
boundVars  == <<crashes, stops>>
vars == <<log, position, current, requested, committed, alive, running,
          finished, crashes, stops>>

Zero == [p \in Partition |-> 0]
TopicLog(g) == log[Subscribes[g]]

Init ==
  /\ log = [t \in Topic |-> [p \in Partition |-> <<>>]]
  /\ position = [g \in Group |-> Zero]
  /\ current = [g \in Group |-> Idle]
  /\ requested = [g \in Group |-> Zero]
  /\ committed = [g \in Group |-> Zero]
  /\ alive = [g \in Group |-> TRUE]
  /\ running = [g \in Group |-> TRUE]
  /\ finished = {}
  /\ crashes = 0
  /\ stops = 0

-----------------------------------------------------------------------------
\* A producer's message reaches the broker.  Messages are produced without a
\* key, so any partition may receive them.
Append1(t, p, m) == log' = [log EXCEPT ![t][p] = Append(@, m)]

Produce(t, p, m) ==
  /\ Len(log[t][p]) < MaxLog
  /\ Append1(t, p, m)
  /\ UNCHANGED <<runnerVars, committed, finished, boundVars>>

\* poll() hands out the next message of some partition and moves the cursor.
Poll(g, p) ==
  /\ alive[g]
  /\ current[g] = Idle
  /\ position[g][p] < Len(TopicLog(g)[p])
  /\ position' = [position EXCEPT ![g][p] = @ + 1]
  /\ current' = [current EXCEPT ![g] = <<p, position[g][p] + 1>>]
  /\ UNCHANGED <<brokerVars, requested, alive, running, finished, boundVars>>

\* poll() returns None or an error: the loop goes on, and when _running has
\* been cleared it ends and the consumer is closed.  Only the second outcome
\* changes the state.
EmptyPoll(g) ==
  /\ alive[g]
  /\ current[g] = Idle
  /\ ~running[g]
  /\ alive' = [alive EXCEPT ![g] = FALSE]
  /\ UNCHANGED <<brokerVars, position, current, requested, running, finished,
                 boundVars>>

\* What commit() asks the broker to store: the position of every partition.
\* Faulty variants, for checking the properties: the end of the log, the
\* offset of the last message instead of the next.
CommitHighWatermark(g) == [p \in Partition |-> Len(TopicLog(g)[p])]
CommitLastOffset(g) == [p \in Partition |-> IF position[g][p] = 0 THEN 0
                                             ELSE position[g][p] - 1]
CommitTarget(g) == position[g]

\* The handler returns or raises; either way the finally clause commits the
\* positions of all partitions, and the loop condition is tested.
Return(g) ==
  /\ alive[g]
  /\ current[g] # Idle
  /\ finished' = finished \cup {<<g, current[g][1], current[g][2]>>}
  /\ requested' = [requested EXCEPT ![g] = CommitTarget(g)]
  /\ current' = [current EXCEPT ![g] = Idle]
  /\ alive' = [alive EXCEPT ![g] = running[g]]
  /\ UNCHANGED <<brokerVars, position, running, boundVars>>

\* The broker applies the outstanding commit; one sent before the process
\* died may still arrive while no successor has joined the group.
CommitLands(g) ==
  /\ committed[g] # requested[g]
  /\ committed' = [committed EXCEPT ![g] = requested[g]]
  /\ UNCHANGED <<log, runnerVars, finished, boundVars>>

\* The signal handler calls stop().
Stop(g) ==
  /\ alive[g] /\ running[g]
  /\ stops < MaxStops
  /\ stops' = stops + 1
  /\ running' = [running EXCEPT ![g] = FALSE]
  /\ UNCHANGED <<brokerVars, position, current, requested, alive, finished,
                 crashes>>

\* The process is killed, in the middle of a handler or between two.
Crash(g) ==
  /\ alive[g]
  /\ crashes < MaxCrashes
  /\ crashes' = crashes + 1
  /\ alive' = [alive EXCEPT ![g] = FALSE]
  /\ current' = [current EXCEPT ![g] = Idle]
  /\ UNCHANGED <<brokerVars, position, requested, running, finished, stops>>

\* Where a new process starts reading.  Faulty variants: at the cursor its
\* predecessor had reached, at the start of the log whatever is committed,
\* at the end of the log ("latest").
ResumeInMemory(g) == position[g]
ResumeEarliest(g) == Zero
ResumeLatest(g) == [p \in Partition |-> Len(TopicLog(g)[p])]
ResumeAt(g) == committed[g]

\* A new process joins the group, fetches from the committed offsets
\* ("earliest" when there are none) and fences what its predecessor sent.
Start(g) ==
  /\ ~alive[g]
  /\ alive' = [alive EXCEPT ![g] = TRUE]
  /\ running' = [running EXCEPT ![g] = TRUE]
  /\ position' = [position EXCEPT ![g] = ResumeAt(g)]
  /\ requested' = [requested EXCEPT ![g] = ResumeAt(g)]
  /\ UNCHANGED <<brokerVars, current, finished, boundVars>>

Next ==
  \/ \E t \in Topic, p \in Partition, m \in Message : Produce(t, p, m)
  \/ \E g \in Group, p \in Partition : Poll(g, p)
  \/ \E g \in Group :
       \/ EmptyPoll(g)
       \/ Return(g)
       \/ CommitLands(g)
       \/ Stop(g)
       \/ Crash(g)
       \/ Start(g)

\* A live loop polls every partition it has messages for, handlers return,
\* the broker answers, and the supervisor restarts what has stopped
\* (restart: always).  Nothing obliges producers, signals or crashes.
Fairness ==
  \A g \in Group :
    /\ \A p \in Partition : SF_vars(Poll(g, p))
    /\ WF_vars(Return(g)) /\ WF_vars(CommitLands(g))
    /\ WF_vars(EmptyPoll(g)) /\ WF_vars(Start(g))

Spec == Init /\ [][Next]_vars
FairSpec == Spec /\ Fairness

-----------------------------------------------------------------------------
TypeOK ==
  /\ log \in [Topic -> [Partition -> Seq(Message)]]
  /\ position \in [Group -> [Partition -> Nat]]
  /\ current \in [Group -> {Idle} \cup (Partition \X Nat)]
  /\ requested \in [Group -> [Partition -> Nat]]
  /\ committed \in [Group -> [Partition -> Nat]]
  /\ alive \in [Group -> BOOLEAN]
  /\ running \in [Group -> BOOLEAN]
  /\ finished \subseteq Group \X Partition \X Nat
  /\ crashes \in 0..MaxCrashes
  /\ stops \in 0..MaxStops

\* A commit never covers a message whose handler has not returned: whatever
\* the broker stores, and whatever a commit still in flight asks it to store,
\* a restarted group cannot skip an unhandled message.  (commit() takes no
\* argument and commits every partition, also those not being handled.)
CommitCoversHandled ==
  \A g \in Group, p \in Partition :
    \A o \in 1..committed[g][p] : <<g, p, o>> \in finished

\* Messages of one partition are first handled in the order of the log: no
\* offset has been handled while an earlier one of its partition never was,
\* through any number of crashes and replays.
HandledInOrder ==
  \A h \in finished :
    /\ h[3] \in 1..Len(TopicLog(h[1])[h[2]])
    /\ \A e \in 1..(h[3] - 1) : <<h[1], h[2], e>> \in finished

\* The inductive form of the two, in three parts.  The four cursors of a
\* partition are ordered: committed, asked to commit, polled, produced.
CursorsOrdered ==
  \A g \in Group, p \in Partition :
    /\ committed[g][p] <= requested[g][p]
    /\ requested[g][p] <= position[g][p]
    /\ position[g][p] <= Len(TopicLog(g)[p])

\* Below the cursor of a live process every message has been handled but the
\* one in the handler, and a commit never asks for more than what has been.
Accounted ==
  \A g \in Group, p \in Partition :
    /\ \A o \in 1..requested[g][p] : <<g, p, o>> \in finished
    /\ \A o \in 1..position[g][p] :
         <<g, p, o>> \in finished \/ current[g] = <<p, o>> \/ ~alive[g]

\* The message in the handler is the last one polled from its partition.
CurrentAtCursor ==
  \A g \in Group :
    current[g] # Idle =>
      /\ alive[g]
      /\ current[g][2] = position[g][current[g][1]]
      /\ current[g][2] > 0

CursorInv == CursorsOrdered /\ Accounted /\ CurrentAtCursor

\* The broker's offsets of a group never move back, so a message whose commit
\* has landed is never handed out again.
CommittedMonotone ==
  [][\A g \in Group, p \in Partition : committed'[g][p] >= committed[g][p]]_vars

\* Every message is eventually committed, through crashes and restarts.
EveryMessageCommitted ==
  \A g \in Group, p \in Partition, o \in 1..MaxLog :
    [](Len(TopicLog(g)[p]) >= o => <>(committed[g][p] >= o))

\* The runner implements the promise of AtLeastOnceLog.
Promise == INSTANCE AtLeastOnceLog WITH
  produced <- [g \in Group |-> [p \in Partition |-> Len(TopicLog(g)[p])]],
  done <- finished,
  acked <- committed

ImplementsAtLeastOnce == Promise!ASpec
=============================================================================
