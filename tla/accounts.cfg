SPECIFICATION FairSpec
CONSTANTS
  Ids = {"i1", "i2"}
  Names = {"admin", "ann"}
  Passwords = {"default", "own"}
  admin_password = "default"
  Requests = {"r1", "r2"}
INVARIANTS TypeOK AdminRemains AuthorityHolds
PROPERTIES RowsAreKept EveryRequestEnds
