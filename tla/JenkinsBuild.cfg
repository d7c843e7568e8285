SPECIFICATION FairSpec
CONSTANTS
  Clients <- MCClients
  Other = "other"
  Results <- MCResults
  MaxPolls = 2
  MaxOthers = 2
  MaxNested = 2
INVARIANTS ZeroMeansSuccess AnswersAreFinal
PROPERTY EveryClientEnds
CHECK_DEADLOCK FALSE
