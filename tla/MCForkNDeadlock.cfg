CONSTANTS
  NPROC = 4
  CPUs = {c1, c2}
  MaxPid = 4
  KillPids = {}
  Statuses = {0}
  ForkCounts = {1}
  WaitCounts = {}
SPECIFICATION AllSpec
INVARIANTS NoLockCycle
CHECK_DEADLOCK FALSE
