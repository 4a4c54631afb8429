SPECIFICATION FairSpec
CONSTANTS
  Jobs = {"hourly", "daily"}
  Tenants = {"t1", "t2"}
INVARIANTS
  TypeOK
  EveryTenantTried
  UnsettledIsExplained
PROPERTY CycleEnds
