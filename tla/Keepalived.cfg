SPECIFICATION KeepalivedSpec
CONSTANTS
  Minions = {"ctl01", "ctl02"}
  Instances = {"vip1", "vip2"}
  Addresses = {"a1", "a2"}
  RouterIds = {1, 2}
  Passwords = {"p", "q"}
  NoMinion = "none"
INVARIANT NoDoublesOnANode
CHECK_DEADLOCK FALSE
