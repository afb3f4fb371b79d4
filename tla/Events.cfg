SPECIFICATION Spec
CONSTANTS
  a1 = a1
  a2 = a2
  a3 = a3
  a4 = a4
  a5 = a5
  None = None
  Article = {a1, a2, a3, a4, a5}
  Raw <- MCRaw
  Normal <- MCNormal
  Blacklist <- MCBlacklist
  Topic <- MCTopic
  Published <- MCPublished
  TextScore <- MCTextScore
  Candidates = 2
  MaxEvents = 5
  MaxHandled = 4
  MaxRebuilds = 1
  MaxFaults = 1
INVARIANTS EventsWellFounded ClusteredOrMissed ClusterCohesive 
CHECK_DEADLOCK FALSE
