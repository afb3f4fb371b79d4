SPECIFICATION Spec
CONSTANTS
  s1 = s1
  s2 = s2
  u1 = u1
  p1 = p1
  Propagated = Propagated
  Article = {1, 2}
  Asset = {1, 2, 3}
  Scan = {s1, s2}
  Visit = {u1}
  Propagation = {p1}
  Loop = s1
  Cap = 2
  ScanLimit = 1
  MaxMappings = 2
  MaxRequests = 1
  MaxFaults = 1
INVARIANTS OneSignalPerPair ScoreIsCurrent
PROPERTIES EveryArticleSignalled
CHECK_DEADLOCK FALSE
