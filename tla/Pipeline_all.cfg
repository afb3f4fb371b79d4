SPECIFICATION PFairSpec
CONSTANTS
  a1 = a1
  a2 = a2
  a3 = a3
  k1 = k1
  k2 = k2
  p1 = p1
  p2 = p2
  None = None
  Group <- AllGroups
  Topic <- MCTopic
  Subscribes <- MCSubscribes
  Partition = {p1}
  Article = {a1}
  Message = {a1}
  Key <- OneKey
  KeyOf <- MCKeyOf
  MaxLog = 2
  MaxFetch = 1
  MaxCrashes = 1
  MaxStops = 0
  MaxHandlerFaults = 1
  MaxDeliveryFaults = 0
INVARIANTS DerivedInOrder
PROPERTIES EveryArticleStored
CHECK_DEADLOCK FALSE
