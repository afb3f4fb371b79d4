INIT MCInit
NEXT MCNext
CONSTANTS
  d1 = d1
  d2 = d2
  e1 = e1
  e2 = e2
  f1 = f1
  f2 = f2
  None = None
  Download = {d1, d2}
  Size <- MCSize
  MaxRetries = 1
  MaxRuns = 3
  MaxFaults = 2
  Torn = Torn
  Missing = Missing
  WholeFrame = WholeFrame
  Engine = {e1, e2}
  Raw = {"x"}
  Frames = {f1, f2}
  Definitions <- MCDefinitions
  Capacity = 2
  MaxExecutions = 3
  MaxKills = 1
INVARIANTS FileIsPrefix CompletedIsIntact RetriesSuffice RunsAreFresh
SYMMETRY Symmetry
CHECK_DEADLOCK FALSE
