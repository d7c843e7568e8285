SPECIFICATION Spec
CONSTANTS
  Attempts = 3
  MaxTries = 2
  MaxSessions = 2
INVARIANT IniDescribesTheStack
CHECK_DEADLOCK FALSE
