CONSTANTS
  NPROC = 2
  CPUs = {c1, c2}
  MaxPid = 2
  KillPids = {}
  Statuses = {0, 1}
SPECIFICATION Spec
PROPERTIES WaitReportsStatus
