SPECIFICATION FairSpec
CONSTANTS
  Stages <- MCStages
  Underlay = "underlay"
  Hardware = "hardware"
  Tests <- MCTests
  Fixtures <- MCFixtures
  Marks <- MCMarks
  FlagFirst = {"salt"}
  Collects = {"salt", "openstack"}
  SshStages = {"underlay", "salt"}
  EnvFlags = {}
  KeepPassed = {}
  KeepFailed = {"test_sl"}
  SnapshotModes = {TRUE}
  ShutdownEnv = TRUE
  Killable <- OutsideTheWindow
  Failing <- OutsideTheWindow
  MaxSessions = 2
  MaxKills = 1
  MaxErases = 1
  Missing = Missing
  NoTest = NoTest
CHECK_DEADLOCK FALSE
PROPERTIES KeepsThePromise EveryTestEnds
