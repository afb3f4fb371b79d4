SPECIFICATION MCSpec
CONSTANTS
  r1 = r1
  r2 = r2
  live = live
  abqaiq = abqaiq
  redSea = redSea
  Request = {r1, r2}
  LiveSignal = {live}
  ReplaySignal = {abqaiq, redSea}
  Severity <- MCSeverity
  NoSignal = NoSignal
  MaxFaults = 1
  MaxApprovals = 2
  Facility <- MCFacility
  Gaps = {0, 20, 50, 90, 170}
  Horizons = {5, 90}
  Thresholds = {0, 20}
  MaxSites = 3
  Node <- MCNode
  Edge <- MCEdge
  Kind <- MCKind
  Throughput <- MCThroughput
  Source <- MCSource
  Target <- MCTarget
  Capacity <- MCCapacity
  NoCapacity = NoCapacity
  Stocks <- MCStocks
  NationalDemand = 6000
  Scenarios <- MCScenarios
  MaxTicks = 4
INVARIANTS RecordsChained ReplaysOwnSignal AbandonedAccounted ReserveKept ReportedGapIsWorst OnlyUnstoppableShipAgain
PROPERTIES RequestsEnd
CHECK_DEADLOCK FALSE
