SPECIFICATION Spec
CONSTANTS
  Stages <- MCStages
  Underlay = "underlay"
  Hardware = "hardware"
  Tests <- MCTests
  Fixtures <- MCFixtures
  Marks <- MCMarks
  FlagFirst = {"salt"}
  Collects = {"salt", "openstack"}
  SshStages = {"underlay", "salt"}
  EnvFlags = {}
  KeepPassed = {}
  KeepFailed = {"test_sl"}
  SnapshotModes = {TRUE, FALSE}
  ShutdownEnv = TRUE
  Killable <- AllPoints
  Failing <- AllPoints
  MaxSessions = 2
  MaxKills = 1
  MaxErases = 1
  Missing = Missing
  NoTest = NoTest
INVARIANTS ConfigMatchesDisk BodyHasItsStages CleanSlate BodyFindsNodesUp
           SetAfterInstallIsTrue
PROPERTIES HardwareStaysBlank
CHECK_DEADLOCK FALSE
