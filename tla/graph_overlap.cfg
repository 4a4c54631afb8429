SPECIFICATION Spec
CONSTANTS
  Sessions = {s1}
  Agents = {"finops_agent"}
  Commands = {"edit"}
  Validated <- MCValidated
  Intents = {"CONTINUATION"}
  router_max_iterations = 2
  cmd_enabled = TRUE
  cmd_max_iterations = 1
  cmd_max_per_session = 1
  Decisions = {TRUE}
  Faults = {"empty_query", "agent_llm", "raise", "sigquit"}
  Overlap = TRUE
  MaxCalls = 3
  MaxTickets = 1
  MaxCrashes = 1
INVARIANTS
  NoBleed
  ReviewedAtTheEnd
  PauseIsAQuestion
CHECK_DEADLOCK FALSE
