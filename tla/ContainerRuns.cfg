SPECIFICATION Spec
CONSTANTS
  Suites = {"tempest", "rally", "conformance", "cncf", "docker"}
  Nodes = {"ctl01", "ctl02"}
  Controller = "ctl01"
  NoNode = "none"
  MaxRuns = 3
  MaxPolls = 2
INVARIANTS
  VerdictStands
PROPERTY EveryWaitEnds
CHECK_DEADLOCK FALSE
