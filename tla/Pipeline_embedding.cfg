SPECIFICATION PFairSpec
CONSTANTS
  a1 = a1
  a2 = a2
  a3 = a3
  k1 = k1
  k2 = k2
  p1 = p1
  p2 = p2
  None = None
  Group <- AllGroups
  Topic <- MCTopic
  Subscribes <- MCSubscribes
  Partition = {p1}
  Article <- Syndicated
  Message <- Syndicated
  Key <- OneKey
  KeyOf <- MCKeyOf
  MaxLog = 1
  MaxFetch = 1
  MaxCrashes = 0
  MaxStops = 0
  MaxHandlerFaults = 0
  MaxDeliveryFaults = 0
PROPERTIES EveryArticleEmbedded
CHECK_DEADLOCK FALSE
