SPECIFICATION FairSpec
CONSTANTS
  Execs = {1, 2}
  Tenants = {"t1", "t2"}
  TenantOf <- MCTenantOf
  Commands <- MCCommands
  Validated <- MCValidated
  Injects <- MCInjects
  MaxCrashes = 1
INVARIANT TypeOK
INVARIANT PauseCodeIsExact
INVARIANT KeyFilesAreHeld
INVARIANT AnsweredIsOver
INVARIANT AuditInventsNothing
PROPERTY KeepsPromise
PROPERTY EveryCallReturns
CHECK_DEADLOCK FALSE
