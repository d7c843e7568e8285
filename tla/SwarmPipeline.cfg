SPECIFICATION Spec
CONSTANTS
  Drivetrain <- MCDrivetrain
  Platform <- MCPlatform
  Params <- MCParams
  MaxBuilds = 2
INVARIANTS ReportIsTrue TestsRunOnWhole NotLeftSuspended PairedSnapshots GreenIsTested
CHECK_DEADLOCK FALSE
