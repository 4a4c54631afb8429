SPECIFICATION Spec
CONSTANTS
  Execs = {1, 2}
  Tenants = {"t1", "t2"}
  TenantOf <- MCTenantOf
  Commands <- MCCommands
  Validated <- MCValidated
  Injects <- MCInjects
  MaxCrashes = 0
INVARIANT RunsAsItself
CHECK_DEADLOCK FALSE
