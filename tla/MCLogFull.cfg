\* param.h's proportions, LOGSIZE = 3 * MAXOPBLOCKS and mkfs's nlog = LOGSIZE,
\* with calls that use all they reserve.
CONSTANTS
  Procs = {p1, p2, p3}
  Blocks = {b1, b2, b3}
  Vals = {v0}
  InitVal = v0
  NoBlock = NoBlock
  NoBuf = NoBuf
  LOGSIZE = 3
  NLOG = 3
  MAXOPBLOCKS = 1
  OPBLOCKS = 1
SPECIFICATION Spec
INVARIANT NoPanic
