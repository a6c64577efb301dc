SPECIFICATION ReopenedSpec
CONSTANTS
  Run = {1}
  Stream = {s1}
  Limit = 1
  PageSize = 2
  Lifetime = 1
  Lease = 2
  MaxLog = 7
  MaxDeaths = 0
  MaxLoads = 2
  MaxOvertakes = 0
  MaxErrors = 1
  MaxReloads = 0
  None = None
INVARIANTS
  RefreshResumesDelivery
CHECK_DEADLOCK FALSE
