SPECIFICATION FairSpec
CONSTANTS
  Sessions = {s1}
  Agents = {"os_engineer", "cloud_engineer"}
  Commands = {"delete"}
  Validated <- MCValidated
  Intents = {"NEW_TOPIC"}
  router_max_iterations = 3
  cmd_enabled = TRUE
  cmd_max_iterations = 2
  cmd_max_per_session = 2
  Decisions = {TRUE}
  Faults = {"embedding", "empty_query", "intent_llm", "router_parse", "agent_llm", "review_llm", "raise"}
  Overlap = FALSE
  MaxCalls = 3
  MaxTickets = 2
  MaxCrashes = 1
INVARIANTS
  TypeOK
  LimitHolds
  AskedInItsTurn
  CompletedIsDone
PROPERTIES
  EveryCallEnds
  KeepsApprovals
CHECK_DEADLOCK FALSE
