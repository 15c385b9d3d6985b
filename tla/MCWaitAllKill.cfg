CONSTANTS
  NPROC = 4
  CPUs = {c1, c2}
  MaxPid = 5
  KillPids = {3}
  Statuses = {0}
  ForkCounts = {}
  WaitCounts = {2}
SPECIFICATION AllSpec
INVARIANTS KilledWasNamed
CONSTRAINT OnlyVictimExits
