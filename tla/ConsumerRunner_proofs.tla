------------------------ MODULE ConsumerRunner_proofs ------------------------
(***************************************************************************)
(* What ConsumerRunner guarantees for every set of groups, topics and      *)
(* partitions and every bound: the commit discipline of the consume loop   *)
(* never loses a message, and the loop implements AtLeastOnceLog.          *)
(***************************************************************************)
EXTENDS ConsumerRunner, TLAPS

\* The inductive invariant.
IInv == TypeOK /\ CursorInv /\ HandledInOrder

\* Every variable of the loop keeps its type.
THEOREM TypeCorrect == Spec => []TypeOK
<1>1. Init => TypeOK
  BY RunnerAssumption DEF Init, TypeOK, Zero, Idle
<1>2. TypeOK /\ [Next]_vars => TypeOK'
  <2> SUFFICES ASSUME TypeOK, [Next]_vars PROVE TypeOK'
    OBVIOUS
  <2> USE RunnerAssumption DEF TypeOK
  <2>1. ASSUME NEW t \in Topic, NEW p \in Partition, NEW m \in Message,
               Produce(t, p, m)
        PROVE  TypeOK'
    <3>1. Append(log[t][p], m) \in Seq(Message)
      OBVIOUS
    <3>2. log' \in [Topic -> [Partition -> Seq(Message)]]
      BY <2>1, <3>1 DEF Produce, Append1
    <3> QED
      BY <2>1, <3>2 DEF Produce, runnerVars, boundVars
  <2>2. ASSUME NEW g \in Group, NEW p \in Partition, Poll(g, p)
        PROVE  TypeOK'
    <3>1. position[g][p] + 1 \in Nat
      OBVIOUS
    <3>2. /\ position' \in [Group -> [Partition -> Nat]]
          /\ current' \in [Group -> {Idle} \cup (Partition \X Nat)]
      BY <2>2, <3>1 DEF Poll
    <3> QED
      BY <2>2, <3>2 DEF Poll, brokerVars, boundVars
  <2>3. ASSUME NEW g \in Group, EmptyPoll(g) PROVE TypeOK'
    BY <2>3 DEF EmptyPoll, brokerVars, boundVars
  <2>4. ASSUME NEW g \in Group, Return(g) PROVE TypeOK'
    <3>1. current[g] \in Partition \X Nat
      BY <2>4 DEF Return
    <3>2. <<g, current[g][1], current[g][2]>> \in Group \X Partition \X Nat
      BY <3>1
    <3> QED
      BY <2>4, <3>2 DEF Return, CommitTarget, brokerVars, boundVars
  <2>5. ASSUME NEW g \in Group, CommitLands(g) PROVE TypeOK'
    BY <2>5 DEF CommitLands, runnerVars, boundVars
  <2>6. ASSUME NEW g \in Group, Stop(g) PROVE TypeOK'
    BY <2>6 DEF Stop, brokerVars
  <2>7. ASSUME NEW g \in Group, Crash(g) PROVE TypeOK'
    <3>1. current' \in [Group -> {Idle} \cup (Partition \X Nat)]
      BY <2>7 DEF Crash
    <3>2. crashes' \in 0..MaxCrashes
      BY <2>7 DEF Crash
    <3>3. alive' \in [Group -> BOOLEAN]
      BY <2>7 DEF Crash
    <3> QED
      BY <2>7, <3>1, <3>2, <3>3 DEF Crash, brokerVars
  <2>8. ASSUME NEW g \in Group, Start(g) PROVE TypeOK'
    BY <2>8 DEF Start, ResumeAt, brokerVars, boundVars
  <2>9. CASE UNCHANGED vars
    BY <2>9 DEF vars
  <2> QED
    BY <2>1, <2>2, <2>3, <2>4, <2>5, <2>6, <2>7, <2>8, <2>9 DEF Next
<1> QED
  BY <1>1, <1>2, PTL DEF Spec

\* Log lengths are numbers and a log never shrinks.
LEMMA LogLengths ==
  ASSUME TypeOK, TypeOK'
  PROVE  \A g \in Group, p \in Partition :
           Len(TopicLog(g)[p]) \in Nat /\ Len(TopicLog(g)[p])' \in Nat
BY RunnerAssumption DEF TopicLog, TypeOK

LEMMA LogGrows ==
  ASSUME TypeOK, NEW t \in Topic, NEW q \in Partition, NEW m \in Message,
         Produce(t, q, m)
  PROVE  \A g \in Group, p \in Partition :
           Len(TopicLog(g)[p])' >= Len(TopicLog(g)[p])
<1> SUFFICES ASSUME NEW g \in Group, NEW p \in Partition
             PROVE  Len(TopicLog(g)[p])' >= Len(TopicLog(g)[p])
  OBVIOUS
<1> DEFINE s == log[Subscribes[g]][p]
<1>1. s \in Seq(Message) /\ Subscribes[g] \in Topic
  BY RunnerAssumption DEF TypeOK
<1>2. log'[Subscribes[g]][p] \in {s, Append(s, m)}
  BY <1>1 DEF Produce, Append1, TypeOK
<1>3. Len(Append(s, m)) = Len(s) + 1 /\ Len(s) \in Nat
  BY <1>1
<1> QED
  BY <1>2, <1>3 DEF TopicLog

\* What is in the handler is a message of the log, and every earlier message
\* of its partition has been handled.
LEMMA CurrentInLog ==
  ASSUME IInv, NEW g \in Group, alive[g], current[g] # Idle
  PROVE  /\ current[g][1] \in Partition
         /\ current[g] = <<current[g][1], current[g][2]>>
         /\ current[g][2] \in 1..Len(TopicLog(g)[current[g][1]])
         /\ current[g][2] = position[g][current[g][1]]
         /\ \A e \in 1..(current[g][2] - 1) : <<g, current[g][1], e>> \in finished
<1>1. /\ current[g] \in Partition \X Nat
      /\ current[g] = <<current[g][1], current[g][2]>>
      /\ current[g][1] \in Partition /\ current[g][2] \in Nat
  BY DEF IInv, TypeOK
<1> DEFINE q == current[g][1]
           o == current[g][2]
<1>2. o = position[g][q] /\ o > 0
  BY DEF IInv, CursorInv, CurrentAtCursor
<1>3. position[g][q] <= Len(TopicLog(g)[q]) /\ Len(TopicLog(g)[q]) \in Nat
  BY <1>1, RunnerAssumption DEF IInv, CursorInv, CursorsOrdered, TypeOK, TopicLog
<1>4. ASSUME NEW e \in 1..(o - 1)
      PROVE  <<g, q, e>> \in finished
  <2>1. e \in 1..position[g][q] /\ e # o
    BY <1>1, <1>2
  <2>2. current[g] # <<q, e>>
    BY <1>1, <2>1
  <2> QED
    BY <1>1, <2>1, <2>2 DEF IInv, CursorInv, Accounted
<1> QED
  BY <1>1, <1>2, <1>3, <1>4

\* The cursors, the commit requests and the handled messages stay in step
\* (CursorInv), and messages are first handled in log order.
LEMMA Inductive == Spec => []IInv
<1>1. Init => CursorInv /\ HandledInOrder
  BY RunnerAssumption
  DEF Init, CursorInv, CursorsOrdered, Accounted, CurrentAtCursor,
      HandledInOrder, Zero, Idle, TopicLog
<1>2. IInv /\ TypeOK' /\ [Next]_vars => IInv'
  <2> SUFFICES ASSUME IInv, TypeOK', [Next]_vars
               PROVE  /\ CursorsOrdered' /\ Accounted' /\ CurrentAtCursor'
                      /\ HandledInOrder'
    BY DEF IInv, CursorInv
  <2> DEFINE Goal == /\ CursorsOrdered' /\ Accounted' /\ CurrentAtCursor'
                     /\ HandledInOrder'
  <2>0. /\ TypeOK /\ CursorsOrdered /\ Accounted /\ CurrentAtCursor
        /\ HandledInOrder
    BY DEF IInv, CursorInv
  <2>1. ASSUME NEW t \in Topic, NEW p \in Partition, NEW m \in Message,
               Produce(t, p, m)
        PROVE  Goal
    <3>1. UNCHANGED <<position, current, requested, alive, committed, finished>>
      BY <2>1 DEF Produce, runnerVars
    <3>2. CursorsOrdered'
      <4> SUFFICES ASSUME NEW g \in Group, NEW q \in Partition
                   PROVE  /\ committed[g][q] <= requested[g][q]
                          /\ requested[g][q] <= position[g][q]
                          /\ position[g][q] <= Len(TopicLog(g)[q])'
        BY <3>1 DEF CursorsOrdered
      <4>1. position[g][q] \in Nat
        BY <2>0 DEF TypeOK
      <4> QED
        BY <4>1, <2>0, <2>1, LogGrows, LogLengths DEF CursorsOrdered
    <3>3. Accounted' /\ CurrentAtCursor'
      BY <2>0, <3>1 DEF Accounted, CurrentAtCursor
    <3>4. HandledInOrder'
      <4> SUFFICES ASSUME NEW h \in finished
                   PROVE  h[3] \in 1..Len(TopicLog(h[1])[h[2]])'
        BY <2>0, <3>1 DEF HandledInOrder
      <4>1. h[1] \in Group /\ h[2] \in Partition /\ h[3] \in Nat
        BY <2>0 DEF TypeOK
      <4>2. h[3] \in 1..Len(TopicLog(h[1])[h[2]])
        BY <2>0 DEF HandledInOrder
      <4> QED
        BY <4>1, <4>2, <2>0, <2>1, LogGrows, LogLengths
    <3> QED
      BY <3>2, <3>3, <3>4
  <2>2. ASSUME NEW g \in Group, NEW p \in Partition, Poll(g, p)
        PROVE  Goal
    <3>1. UNCHANGED <<log, committed, requested, finished, alive>>
      BY <2>2 DEF Poll, brokerVars
    <3>2. /\ position' = [position EXCEPT ![g][p] = @ + 1]
          /\ current' = [current EXCEPT ![g] = <<p, position[g][p] + 1>>]
          /\ position[g][p] < Len(TopicLog(g)[p])
          /\ alive[g] /\ current[g] = Idle
      BY <2>2 DEF Poll
    <3>3. CursorsOrdered'
      <4> SUFFICES ASSUME NEW h \in Group, NEW q \in Partition
                   PROVE  /\ committed[h][q] <= requested[h][q]
                          /\ requested[h][q] <= position'[h][q]
                          /\ position'[h][q] <= Len(TopicLog(h)[q])
        BY <3>1 DEF CursorsOrdered, TopicLog
      <4>1. position[h][q] \in Nat /\ requested[h][q] \in Nat
        BY <2>0 DEF TypeOK
      <4>2. Len(TopicLog(h)[q]) \in Nat
        BY <2>0, LogLengths
      <4>3. \/ position'[h][q] = position[h][q]
            \/ h = g /\ q = p /\ position'[h][q] = position[h][q] + 1
        BY <2>0, <3>2 DEF TypeOK
      <4> QED
        BY <4>1, <4>2, <4>3, <2>0, <3>2 DEF CursorsOrdered
    <3>4. Accounted'
      <4> SUFFICES ASSUME NEW h \in Group, NEW q \in Partition,
                          NEW o \in 1..position'[h][q]
                   PROVE  \/ <<h, q, o>> \in finished
                          \/ current'[h] = <<q, o>> \/ ~alive[h]
        BY <2>0, <3>1 DEF Accounted
      <4>1. CASE h = g /\ q = p /\ o = position[g][p] + 1
        BY <4>1, <2>0, <3>2 DEF TypeOK
      <4>2. CASE o \in 1..position[h][q]
        <5>1. current[h] = current'[h] \/ current[h] = Idle
          BY <2>0, <3>2 DEF TypeOK
        <5>2. <<q, o>> # Idle
          BY DEF Idle
        <5> QED
          BY <5>1, <5>2, <4>2, <2>0 DEF Accounted
      <4>3. position[h][q] \in Nat
        BY <2>0 DEF TypeOK
      <4>4. \/ position'[h][q] = position[h][q]
            \/ h = g /\ q = p /\ position'[h][q] = position[h][q] + 1
        BY <2>0, <3>2 DEF TypeOK
      <4> QED
        BY <4>1, <4>2, <4>3, <4>4
    <3>5. CurrentAtCursor'
      BY <2>0, <3>1, <3>2 DEF CurrentAtCursor, TypeOK
    <3>6. HandledInOrder'
      BY <2>0, <3>1 DEF HandledInOrder, TopicLog
    <3> QED
      BY <3>3, <3>4, <3>5, <3>6
  <2>3. ASSUME NEW g \in Group, EmptyPoll(g)
        PROVE  Goal
    BY <2>0, <2>3
    DEF CursorsOrdered, Accounted, CurrentAtCursor, HandledInOrder, EmptyPoll,
        TopicLog, brokerVars, TypeOK
  <2>4. ASSUME NEW g \in Group, Return(g)
        PROVE  Goal
    <3> DEFINE q == current[g][1]
               o == current[g][2]
    <3>1. /\ q \in Partition
          /\ current[g] = <<q, o>>
          /\ o \in 1..Len(TopicLog(g)[q])
          /\ o = position[g][q]
          /\ \A e \in 1..(o - 1) : <<g, q, e>> \in finished
      BY <2>4, CurrentInLog DEF Return
    <3>2. /\ finished' = finished \cup {<<g, q, o>>}
          /\ UNCHANGED <<log, committed, position>>
          /\ requested' = [requested EXCEPT ![g] = position[g]]
          /\ current' = [current EXCEPT ![g] = Idle]
          /\ alive' = [alive EXCEPT ![g] = running[g]]
          /\ alive[g]
      BY <2>4 DEF Return, CommitTarget, brokerVars
    <3> HIDE DEF q, o
    <3>3. HandledInOrder'
      BY <2>0, <3>1, <3>2 DEF HandledInOrder, TopicLog, TypeOK
    <3>4. CursorsOrdered'
      <4> SUFFICES ASSUME NEW h \in Group, NEW r \in Partition
                   PROVE  /\ committed[h][r] <= requested'[h][r]
                          /\ requested'[h][r] <= position[h][r]
                          /\ position[h][r] <= Len(TopicLog(h)[r])
        BY <3>2 DEF CursorsOrdered, TopicLog
      <4>1. /\ position[h][r] \in Nat /\ requested[h][r] \in Nat
            /\ committed[h][r] \in Nat
        BY <2>0 DEF TypeOK
      <4>2. requested'[h][r] = position[h][r] \/ requested'[h][r] = requested[h][r]
        BY <2>0, <3>2 DEF TypeOK
      <4> QED
        BY <4>1, <4>2, <2>0 DEF CursorsOrdered
    <3>5. Accounted'
      <4>1. ASSUME NEW h \in Group, NEW r \in Partition,
                   NEW e \in 1..requested'[h][r]
            PROVE  <<h, r, e>> \in finished'
        <5>1. CASE h = g
          <6>1. e \in 1..position[g][r]
            BY <5>1, <2>0, <3>2 DEF TypeOK
          <6>2. <<g, r, e>> \in finished \/ current[g] = <<r, e>>
            BY <6>1, <2>0, <3>2 DEF Accounted
          <6> QED
            BY <5>1, <6>2, <3>1, <3>2
        <5>2. CASE h # g
          <6>1. e \in 1..requested[h][r]
            BY <5>2, <2>0, <3>2 DEF TypeOK
          <6> QED
            BY <6>1, <2>0, <3>2 DEF Accounted
        <5> QED
          BY <5>1, <5>2
      <4>2. ASSUME NEW h \in Group, NEW r \in Partition,
                   NEW e \in 1..position'[h][r]
            PROVE  \/ <<h, r, e>> \in finished'
                   \/ current'[h] = <<r, e>> \/ ~alive'[h]
        <5>1. CASE h = g
          <6>1. <<g, r, e>> \in finished \/ current[g] = <<r, e>>
            BY <5>1, <2>0, <3>2 DEF Accounted
          <6> QED
            BY <5>1, <6>1, <3>1, <3>2
        <5>2. CASE h # g
          BY <5>2, <2>0, <3>2 DEF Accounted, TypeOK
        <5> QED
          BY <5>1, <5>2
      <4> QED
        BY <4>1, <4>2 DEF Accounted
    <3>6. CurrentAtCursor'
      BY <2>0, <3>2 DEF CurrentAtCursor, TypeOK
    <3> QED
      BY <3>3, <3>4, <3>5, <3>6
  <2>5. ASSUME NEW g \in Group, CommitLands(g)
        PROVE  Goal
    <3>1. CursorsOrdered'
      <4> SUFFICES ASSUME NEW h \in Group, NEW r \in Partition
                   PROVE  /\ committed'[h][r] <= requested[h][r]
                          /\ requested[h][r] <= position[h][r]
                          /\ position[h][r] <= Len(TopicLog(h)[r])
        BY <2>5 DEF CursorsOrdered, CommitLands, TopicLog, runnerVars
      <4>1. \/ committed'[h][r] = committed[h][r]
            \/ committed'[h][r] = requested[h][r]
        BY <2>0, <2>5 DEF CommitLands, TypeOK
      <4> QED
        BY <4>1, <2>0 DEF CursorsOrdered, TypeOK
    <3> QED
      BY <2>0, <2>5, <3>1
      DEF Accounted, CurrentAtCursor, HandledInOrder, CommitLands, TopicLog, runnerVars
  <2>6. ASSUME NEW g \in Group, Stop(g)
        PROVE  Goal
    BY <2>0, <2>6
    DEF CursorsOrdered, Accounted, CurrentAtCursor, HandledInOrder, Stop, TopicLog,
        brokerVars
  <2>7. ASSUME NEW g \in Group, Crash(g)
        PROVE  Goal
    <3>1. CursorsOrdered' /\ HandledInOrder'
      BY <2>0, <2>7 DEF CursorsOrdered, HandledInOrder, Crash, TopicLog, brokerVars
    <3>2. Accounted' /\ CurrentAtCursor'
      BY <2>0, <2>7 DEF Accounted, CurrentAtCursor, Crash, brokerVars, TypeOK
    <3> QED
      BY <3>1, <3>2
  <2>8. ASSUME NEW g \in Group, Start(g)
        PROVE  Goal
    <3>1. /\ UNCHANGED <<log, committed, current, finished>>
          /\ position' = [position EXCEPT ![g] = committed[g]]
          /\ requested' = [requested EXCEPT ![g] = committed[g]]
          /\ alive' = [alive EXCEPT ![g] = TRUE]
          /\ ~alive[g]
      BY <2>8 DEF Start, ResumeAt, brokerVars
    <3>2. CursorsOrdered'
      <4> SUFFICES ASSUME NEW h \in Group, NEW r \in Partition
                   PROVE  /\ committed[h][r] <= requested'[h][r]
                          /\ requested'[h][r] <= position'[h][r]
                          /\ position'[h][r] <= Len(TopicLog(h)[r])
        BY <3>1 DEF CursorsOrdered, TopicLog
      <4>1. /\ position[h][r] \in Nat /\ requested[h][r] \in Nat
            /\ committed[h][r] \in Nat /\ Len(TopicLog(h)[r]) \in Nat
        BY <2>0, LogLengths DEF TypeOK
      <4>2. \/ /\ requested'[h][r] = committed[h][r]
               /\ position'[h][r] = committed[h][r]
            \/ /\ requested'[h][r] = requested[h][r]
               /\ position'[h][r] = position[h][r]
        BY <2>0, <3>1 DEF TypeOK
      <4> QED
        BY <4>1, <4>2, <2>0 DEF CursorsOrdered
    <3>3. Accounted'
      <4> SUFFICES ASSUME NEW h \in Group, NEW r \in Partition
                   PROVE  /\ \A e \in 1..requested'[h][r] : <<h, r, e>> \in finished
                          /\ \A e \in 1..position'[h][r] :
                                \/ <<h, r, e>> \in finished
                                \/ current[h] = <<r, e>> \/ ~alive'[h]
        BY <3>1 DEF Accounted
      <4>1. CASE h = g
        <5>1. requested'[h][r] = committed[g][r] /\ position'[h][r] = committed[g][r]
          BY <4>1, <2>0, <3>1 DEF TypeOK
        <5>2. \A e \in 1..committed[g][r] : e \in 1..requested[g][r]
          BY <2>0 DEF CursorsOrdered, TypeOK
        <5> QED
          BY <4>1, <5>1, <5>2, <2>0 DEF Accounted
      <4>2. CASE h # g
        BY <4>2, <2>0, <3>1 DEF Accounted, TypeOK
      <4> QED
        BY <4>1, <4>2
    <3>4. CurrentAtCursor' /\ HandledInOrder'
      BY <2>0, <3>1 DEF CurrentAtCursor, HandledInOrder, TopicLog, TypeOK
    <3> QED
      BY <3>2, <3>3, <3>4
  <2>9. CASE UNCHANGED vars
    BY <2>0, <2>9
    DEF CursorsOrdered, Accounted, CurrentAtCursor, HandledInOrder, TopicLog, vars
  <2> QED
    BY <2>1, <2>2, <2>3, <2>4, <2>5, <2>6, <2>7, <2>8, <2>9 DEF Next
<1> QED
  <2>1. Init => HandledInOrder /\ CursorInv
    BY <1>1
  <2> QED
    BY <2>1, <1>2, TypeCorrect, PTL DEF Spec, IInv

\* No commit ever covers an unhandled message, so a restart never skips one.
THEOREM CommitIsSafe == Spec => []CommitCoversHandled
<1>1. IInv => CommitCoversHandled
  <2> SUFFICES ASSUME IInv, NEW g \in Group, NEW p \in Partition,
                      NEW o \in 1..committed[g][p]
               PROVE  <<g, p, o>> \in finished
    BY DEF CommitCoversHandled
  <2>1. o \in 1..requested[g][p]
    BY DEF IInv, TypeOK, CursorInv, CursorsOrdered
  <2> QED
    BY <2>1 DEF IInv, CursorInv, Accounted
<1> QED
  BY <1>1, Inductive, PTL

\* The messages of a partition are first handled in the order of the log.
THEOREM OrderIsKept == Spec => []HandledInOrder
<1>1. IInv => HandledInOrder
  BY DEF IInv
<1> QED
  BY <1>1, Inductive, PTL

\* The committed offsets of a group never move back.
THEOREM OffsetsAdvance == Spec => CommittedMonotone
<1>1. IInv /\ [Next]_vars =>
        [\A g \in Group, p \in Partition : committed'[g][p] >= committed[g][p]]_vars
  <2> SUFFICES ASSUME IInv, [Next]_vars, vars' # vars,
                      NEW g \in Group, NEW p \in Partition
               PROVE  committed'[g][p] >= committed[g][p]
    OBVIOUS
  <2> USE DEF IInv, TypeOK
  <2>1. ASSUME NEW h \in Group, CommitLands(h)
        PROVE  committed'[g][p] >= committed[g][p]
    <3>1. committed'[g][p] = committed[g][p] \/ committed'[g][p] = requested[g][p]
      BY <2>1 DEF CommitLands
    <3> QED
      BY <3>1 DEF CursorInv, CursorsOrdered
  <2>2. CASE UNCHANGED committed
    BY <2>2
  <2> QED
    BY <2>1, <2>2 DEF Next, Produce, Poll, EmptyPoll, Return, Stop, Crash, Start,
                      brokerVars, vars
<1> QED
  BY <1>1, Inductive, PTL DEF Spec, CommittedMonotone

\* The consume loop implements the at-least-once log: every step of the loop
\* is a step of AtLeastOnceLog or leaves its variables unchanged.
THEOREM RunnerImplementsAtLeastOnce == Spec => ImplementsAtLeastOnce
<1> DEFINE made == [g \in Group |-> [p \in Partition |-> Len(TopicLog(g)[p])]]
<1>1. Init => Promise!AInit
  BY RunnerAssumption DEF Init, Promise!AInit, Zero, TopicLog
<1>2. IInv /\ TypeOK' /\ [Next]_vars => [Promise!ANext]_(Promise!aloVars)
  <2> SUFFICES ASSUME IInv, TypeOK', [Next]_vars
               PROVE  Promise!ANext \/ UNCHANGED Promise!aloVars
    OBVIOUS
  <2> USE RunnerAssumption DEF IInv
  <2>1. ASSUME NEW t \in Topic, NEW p \in Partition, NEW m \in Message,
               Produce(t, p, m)
        PROVE  Promise!Produce
    <3>1. \A g \in Group, q \in Partition :
            /\ Len(TopicLog(g)[q])' >= Len(TopicLog(g)[q])
            /\ Len(TopicLog(g)[q])' \in Nat
      BY <2>1, LogGrows, LogLengths
    <3> QED
      BY <2>1, <3>1 DEF Produce, Promise!Produce
  <2>2. ASSUME NEW g \in Group, Return(g)
        PROVE  \E p \in Partition :
                 \E o \in 1..Len(TopicLog(g)[p]) : Promise!Handle(g, p, o)
    <3> DEFINE q == current[g][1]
               o == current[g][2]
    <3>1. /\ q \in Partition /\ o \in 1..Len(TopicLog(g)[q])
          /\ \A e \in 1..(o - 1) : <<g, q, e>> \in finished
      BY <2>2, CurrentInLog DEF Return
    <3>2. Promise!Handle(g, q, o)
      BY <2>2, <3>1 DEF Return, Promise!Handle, brokerVars, TopicLog
    <3> QED
      BY <3>1, <3>2
  <2>3. ASSUME NEW g \in Group, CommitLands(g)
        PROVE  Promise!Acknowledge(g)
    <3>1. /\ committed' = [committed EXCEPT ![g] = requested[g]]
          /\ UNCHANGED <<log, finished, requested>>
      BY <2>3 DEF CommitLands, runnerVars
    <3>2. committed'[g] = requested[g] /\ requested[g] \in [Partition -> Nat]
      BY <3>1 DEF TypeOK
    <3>3. ASSUME NEW p \in Partition
          PROVE  /\ committed'[g][p] >= committed[g][p]
                 /\ \A o \in 1..committed'[g][p] : <<g, p, o>> \in finished
      BY <3>2 DEF CursorInv, CursorsOrdered, Accounted, TypeOK
    <3> QED
      BY <3>1, <3>2, <3>3 DEF Promise!Acknowledge, TopicLog
  <2>4. CASE UNCHANGED <<log, finished, committed>>
    BY <2>4 DEF Promise!aloVars, TopicLog
  <2> QED
    <3>1. (\E g \in Group : Return(g)) => Promise!ANext
      BY <2>2 DEF Promise!ANext
    <3>2. (\E g \in Group : CommitLands(g)) => Promise!ANext
      BY <2>3 DEF Promise!ANext
    <3>3. (\E t \in Topic, p \in Partition, m \in Message : Produce(t, p, m))
             => Promise!ANext
      BY <2>1 DEF Promise!ANext
    <3> QED
      BY <3>1, <3>2, <3>3, <2>4
      DEF Next, Poll, EmptyPoll, Stop, Crash, Start, brokerVars, vars
<1> QED
  BY <1>1, <1>2, Inductive, TypeCorrect, PTL
  DEF Spec, ImplementsAtLeastOnce, Promise!ASpec
=============================================================================
