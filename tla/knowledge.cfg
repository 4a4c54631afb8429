SPECIFICATION FairSpec
CONSTANTS
  Documents = {"runbook"}
  Credentials = {"gcp"}
  MaxChunks = 2
  SweepLength = 2
  Faults = {"embedding", "vector", "credential"}
  Overlap = FALSE
  MaxOps = 3
INVARIANTS
  TypeOK
  AnsweredIsStored
  OneVersion
PROPERTIES LocksEnd KeepsLibrary
