CONSTANTS
  Procs = {1}
  NINODES = 3
  NINODE = 3
  NBLOCKS = 4
  NDIRECT = 1
  NINDIRECT = 1
  Names = {"d", "f"}
  NoProc = 0
  Files <- MCFiles
  DPB = 4
  MaxLink = 3
  Calls <- MCDotDot
SPECIFICATION Spec
INVARIANT NoPanic
