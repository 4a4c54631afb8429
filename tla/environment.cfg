SPECIFICATION Spec
CONSTANTS
  Runs = {"r1", "r2"}
  Nodes = {"os_engineer"}
  Described = {"os_engineer"}
  Identities = {"host", "tenant"}
  Host = "host"
  Probes = 1
  CACHE_TTL_SECONDS = 2
  ttl = 3
  Buffer = 2
  Latency = 1
  MaxTime = 3
INVARIANTS TypeOK ServedFresh OwnContext GoodForTheBuffer
CHECK_DEADLOCK FALSE
