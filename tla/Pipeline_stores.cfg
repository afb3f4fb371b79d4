SPECIFICATION PSpec
CONSTANTS
  a1 = a1
  a2 = a2
  a3 = a3
  k1 = k1
  k2 = k2
  p1 = p1
  p2 = p2
  None = None
  Group <- WithoutEmbedding
  Topic <- MCTopic
  Subscribes <- MCSubscribes
  Partition = {p1}
  Article <- Syndicated
  Message <- Syndicated
  Key <- OneKey
  KeyOf <- MCKeyOf
  MaxLog = 2
  MaxFetch = 2
  MaxCrashes = 1
  MaxStops = 1
  MaxHandlerFaults = 1
  MaxDeliveryFaults = 1
INVARIANTS StoresAgreeOnceCommitted EnrichmentAccounted
CHECK_DEADLOCK FALSE
