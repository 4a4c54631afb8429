SPECIFICATION Spec
CONSTANTS
  Sessions = {s1}
  Agents = {"cloud_engineer"}
  Commands = {"read", "delete"}
  Validated <- MCValidated
  Intents = {"NEW_TOPIC"}
  router_max_iterations = 3
  cmd_enabled = TRUE
  cmd_max_iterations = 2
  cmd_max_per_session = 2
  Decisions = {FALSE}
  Faults = {}
  Overlap = FALSE
  MaxCalls = 2
  MaxTickets = 1
  MaxCrashes = 0
INVARIANT RejectAborts
CHECK_DEADLOCK FALSE
