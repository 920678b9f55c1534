SPECIFICATION Spec
CONSTANTS
  MaxCommands = 4
INVARIANTS ReportsFollow
PROPERTIES ImplementsSession
CHECK_DEADLOCK FALSE
