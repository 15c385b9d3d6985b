CONSTANTS
  Procs = {1, 2}
  NINODES = 3
  NINODE = 3
  NBLOCKS = 4
  NDIRECT = 1
  NINDIRECT = 1
  Names = {"d"}
  NoProc = 0
  Files <- NoFiles
  DPB = 4
  MaxLink = 3
  Calls <- MCMkdir
SPECIFICATION Spec
INVARIANT InodesFreed
