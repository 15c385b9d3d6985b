CONSTANTS
  NPROC = 3
  CPUs = {c1, c2}
  MaxPid = 4
  KillPids = {}
  Statuses = {0}
  ForkCounts = {1, 2}
  WaitCounts = {1, 2}
SPECIFICATION AllSpec
INVARIANTS StackSafe StatusesFit
PROPERTIES OnlyParentReaps ProcTreeSpec
CHECK_DEADLOCK FALSE
