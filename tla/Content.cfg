SPECIFICATION MCSpec
CONSTANTS
  Source0 <- MCSource0
  Source1 <- MCSource1
  Concurrency = 2
  Retries = 1
  MaxFaults = 2
  MaxMishaps = 1
  MaxPulls = 2
  Requests <- MCRequests
  Wants <- MCWants
  None = "none"
  DagChunks <- MCChunks
  Catalogs = {"cat"}
  DagRoots = {"root"}
  BatchSize = 1
  MaxInflight = 2
  EventCap = 1
PROPERTIES PushImplements  FetchImplements FetchSettles
CHECK_DEADLOCK FALSE
