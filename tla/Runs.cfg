SPECIFICATION OrchestrationSpec
CONSTANTS
  NumIssues = 1
  Handled = {1}
  MaxAttempts = 0
  MaxDispatches = 2
  MaxEvents = 8
  MaxSetbacks = 3
PROPERTIES
  RunsEnd
CHECK_DEADLOCK FALSE
