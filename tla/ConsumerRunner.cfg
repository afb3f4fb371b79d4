SPECIFICATION FairSpec
CONSTANTS
  db = db
  p1 = p1
  p2 = p2
  m1 = m1
  Group <- MCGroup
  Topic <- MCTopic
  Partition = {p1, p2}
  Subscribes <- MCSubscribes
  Message = {m1}
  MaxCrashes = 2
  MaxStops = 1
  MaxLog = 3
INVARIANTS CommitCoversHandled HandledInOrder
PROPERTIES CommittedMonotone ImplementsAtLeastOnce EveryMessageCommitted
CHECK_DEADLOCK FALSE
