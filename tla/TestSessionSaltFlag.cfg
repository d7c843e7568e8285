SPECIFICATION Spec
CONSTANTS
  Stages <- MCStages
  Underlay = "underlay"
  Hardware = "hardware"
  Tests <- MCPairTests
  Fixtures <- MCPairFixtures
  Marks <- MCPairMarks
  FlagFirst = {"salt"}
  Collects = {"salt", "openstack"}
  SshStages = {"underlay", "salt"}
  EnvFlags = {}
  KeepPassed = {}
  KeepFailed = {}
  SnapshotModes = {FALSE}
  ShutdownEnv = TRUE
  Killable <- AllPoints
  Failing <- AllPoints
  MaxSessions = 1
  MaxKills = 0
  MaxErases = 0
  Missing = Missing
  NoTest = NoTest
CHECK_DEADLOCK FALSE
INVARIANT SetMeansDeployed
