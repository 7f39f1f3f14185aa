SPECIFICATION Both
CONSTANTS
  p1 = p1
  p2 = p2
  p3 = p3
  Proc = {p1, p2, p3}
  NoProc = NoProc
  Inum = {1, 2, 3, 4, 5, 6}
  File = {"dd", "ff", "ffff", "xx", "README"}
  Long <- MCLong
  NOFILE = 2
  SYMMAX = 3
  Workloads <- MCWorkloads
  Starts <- Pairs
  NInode = 4
  MaxCrash = 1
SYMMETRY Symmetric
INVARIANTS TestsPass  RefExact CommittedLinks NoLockCycle
