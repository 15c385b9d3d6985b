CONSTANTS
  NPROC = 3
  CPUs = {c1, c2}
  MaxPid = 3
  KillPids = {2}
  Statuses = {0}
SPECIFICATION Spec
PROPERTIES OrphansReaped
