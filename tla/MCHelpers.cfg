SPECIFICATION MCSpec
CONSTANTS
  Minions = {"ctl01", "ctl02"}
  Instances = {"vip1", "vip2"}
  Addresses = {"a1", "a2"}
  RouterIds = {1, 2}
  Passwords = {"p", "q"}
  NoMinion = "none"
  Keys = {"a", "b"}
  Indexes = {0, 1}
  Index <- MCIndex
  Templates <- MCTemplates
  MaxSegments = 2
  MaxNesting = 2
  MaxSets = 2
  MarkedRuns <- MCMarkedRuns
  PlanRuns <- MCPlanRuns
  NameOf <- MCNameOf
  Titles = {"t"}
  Outcomes <- MCOutcomes
  MaxResults = 3
  NumFixtures = 3
  SnapshotNames = {"s1", "s2"}
  NoMark = "no mark"
  NoName = "no name"
  Fallback = "hardware"
  RetryCount = 3
  SampleNames = {"dep1", "dep2"}
  MaxIndex = 3
  MaxClusters = 3
  Editors = {"e1", "e2"}
  Bodies = {"a", "b", "hollow", "null"}
  Null = "null"
  Hollow = {"hollow", "{}"}
  EmptyDict = "{}"
  GivenFiles <- MCGivenFiles
  MaxEdits = 4
INVARIANTS
  VerdictIgnoresTheOrder
  SetsAllOrNothing
  DefectsAreKept
  NearestSnapshotIsTaken
  PassedIsEnforced
  SamplesAreWholeOrGone
  JobsStayOnTheCluster
PROPERTIES
  OtherDocumentsAreKept
CHECK_DEADLOCK FALSE
