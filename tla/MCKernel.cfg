CONSTANTS
  Procs = {p0, p1}
  NoProc = p9
  First = p0
  NFILE = 2
  NOFILE = 2
  Pages = {1}
  PIPESIZE = 2
  Wrap = 4
  Bytes = {0, 1, 2, 3}
  Counts = {3}
  Threads = {t1, t2}
  NoThread = t9
  Blknos = {n1, n2, n3, n4}
  NoBlkno = n9
  Watched = n1
  Vals = {0, 1}
  NBUF = 3
  NUMs = {5, 6}
  MaxPins = 1
  Over <- MCOver
  Slots = {1, 2}
  NPAGES = 26
  MaxSz = 8
  MaxQuota = 12
  Deltas <- MCDeltas
  Programs <- MCPrograms
  Readers = {r1}
  Writers = {w1}
  Nobody = r9
  Targets = {2}
  INPUT_BUF_SIZE = 2
  UART_TX_BUF_SIZE = 1
  Turn = 4
  UPages = 4
  UPGSIZE = 2
  UWORD = 2
  UWrap = 16
  UAddrs = {0, 1, 2, 3, 4, 5, 6, 7, 15}
  MaxLen = 5
  Sources <- MCSources
SPECIFICATION Spec
INVARIANTS KernelTypeOK PipeLives NoSleeperForgotten BuffersCounted ChainsOwned PagesOwnedOnce TtyMoves
PROPERTIES StreamSpec BlockStoreSpec FailureChangesNothing CopiesAsAsked LineBufferSpec
CONSTRAINT Bounded
VIEW View
CHECK_DEADLOCK FALSE
