SPECIFICATION Spec
CONSTANTS
  Names = {"n1", "n2"}
  Providers = {"gcp", "aws"}
  Values = {"key", "object"}
  Kind <- MCKind
  CLIs = {"gcloud", "aws", "kubectl"}
  Secrets = {"s1", "s2"}
  Calls = {"c1", "c2"}
  MaxStores = 2
  MaxRestarts = 1
INVARIANTS NoStandingAccess
CHECK_DEADLOCK FALSE
