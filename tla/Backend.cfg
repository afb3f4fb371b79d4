SPECIFICATION MCSpec
CONSTANTS
  c1 = c1
  c2 = c2
  c3 = c3
  c4 = c4
  c5 = c5
  Call = {c1, c2, c3}
  FailureThreshold = 2
  HalfOpenMaxCalls = 2
  MaxFailures = 4
  MaxCancels = 3
  Caller = {c1, c2, c3, c4, c5}
  MaxConcurrent = 2
  MaxQueue = 3
  MaxAbandoned = 2
  Plans <- MCPlans
  Agents = {"research", "executive"}
  MaxRetries = 1
  MaxRounds = 3
  MaxGaps = 1
  MaxSteps = 4
INVARIANTS CountMatchesState SlotsAccounted PermitsConserved QueueAccounted NoLostWakeup DispatchRunsPlan TraceNests
PROPERTIES EventuallyDecides EveryCallerServed EveryQueryEnds
CHECK_DEADLOCK FALSE
