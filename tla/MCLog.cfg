CONSTANTS
  Procs = {p1, p2}
  Blocks = {b1, b2}
  Vals = {v0, v1}
  InitVal = v0
  NoBlock = NoBlock
  NoBuf = NoBuf
  LOGSIZE = 8
  NLOG = 8
  MAXOPBLOCKS = 4
  OPBLOCKS = 2
SPECIFICATION Spec
INVARIANTS TypeOK LogSpaceReserved NoPanic DirtyIsPinned
PROPERTIES AtomicDiskSpec SleepersWake
