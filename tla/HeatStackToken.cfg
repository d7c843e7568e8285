SPECIFICATION Spec
CONSTANTS
  Attempts = 3
  MaxTries = 2
  MaxSessions = 2
INVARIANT TokenIsRefreshed
CHECK_DEADLOCK FALSE
