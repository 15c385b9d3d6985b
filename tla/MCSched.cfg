CONSTANTS
  NPROC = 3
  CPUs = {c1, c2}
  MaxPid = 4
  KillPids = {2, 3}
  Statuses = {0}
  NTASK = 2
  Cpus = {c1, c2}
  NoCpu = c9
  BootCpu = c1
  Typed <- MCTyped
  MaxLines = 1
  MaxProcs = 6
  MAXARGS = 2
  Fds = {0, 1, 2, 3, 4}
  MOREUNITS = 3
  Requests = {1, 3}
  MaxBrk = 11
  GrepBuf = 5
  WcBuf = 2
  MaxInput = 5
  Patterns <- MCPatterns
SPECIFICATION PartsSpec
INVARIANTS TypeOK StackSafe NoLostWakeup KilledWasNamed NoTrapPanic InterruptsRestored ShellWired HeapTiled InputRead
PROPERTIES WaitFailsHonestly ProcTreeSpec
VIEW View
