SPECIFICATION Spec
CONSTANTS
  Clients = {1, 2, 3}
  RoomIds = {"r", "s"}
  Outside = "out"
  MaxRooms = 1
  MaxClients = 2
  QueueCap = 1
  Script <- MCScript
  Ids = {0, 1, 2, 7}
  Bits = 3
  Seeker = 0
  Target = 7
  Alpha = 2
  KClosest = 2
  MaxHops = 3
  BucketSize = 1
  StoreMax = 2
  MaxAnnounces = 4
  MaxAging = 1
  Topics = {t1, t2}
  Contents = {c1, c2}
  Neighbours = {p1, p2}
  CacheSize = 3
  MeshHigh = 1
  MaxMessages = 4
  CheckWindow = FALSE
  Files = {f1, f2}
  Workers = {w1, w2}
  MaxFiles = 2
  MaxDepth = 2
  MaxBlocks = 3
  SameFile = FALSE
  Ops = {o1, o2, o3}
  MaxTurns = 1
  Concurrent = FALSE
  Starters = {a1, a2}
  Stoppers = {b1, b2}
  Procs = {q1, q2, q3}
  NoProc = noproc
  Overlap = FALSE
  Resolvers = {u1, u2}
  Names = {"n"}
  Servers = {"s"}
  Zones = {{}, {"a", "lo"}}
  Restricted = {"lo"}
  Providers = 2
  Ttl = 2
  TurnTtl = 1
  MaxTime = 4
  MaxCalls = 3
INVARIANTS RoomKept LookupSound RecentSuppressed CatalogCoherent RouteHonest 
PROPERTY MeshKept
CHECK_DEADLOCK FALSE
