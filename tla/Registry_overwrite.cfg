SPECIFICATION Spec
CONSTANTS
  j1 = j1
  j2 = j2
  o1 = o1
  o2 = o2
  None = None
  Job = {j1, j2}
  Score <- MCScore
  Client = {o1}
  MaxVersion = 2
  MaxRequests = 0
  MaxAsks = 1
  MaxFaults = 0
INVARIANTS ServedModelIsVersion
CHECK_DEADLOCK FALSE
