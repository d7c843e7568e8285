SPECIFICATION MCSpec
CONSTANTS
  Attempts = 3
  MaxTries = 2
  MaxSessions = 2
  Nodes <- MCNodes
  Order <- MCOrder
  CloudNodes = {"cfg01"}
  Need = 2
  MaxPolls = 3
  MaxReboots = 2
  Templates <- MCTemplates
  MaxFiles = 2
INVARIANTS CreatedStackIsWhole OneStackPerAttempt
           ReadyNodesWereSteady ReadyNodesAnswered
           RequiredStepsWorked
PROPERTIES OnlyOwnStacksAreDeleted SessionSettles
           StartEnds
           NoTryTooMany TimedTemplatesEnd
CHECK_DEADLOCK FALSE
