SPECIFICATION Workload
CONSTANTS
  p1 = p1
  p2 = p2
  p3 = p3
  Proc = {p1, p2, p3}
  NoProc = NoProc
  Inum = {1, 2, 3, 4}
  File = {"dd", "ff", "ffff", "xx", "README"}
  Long <- MCLong
  NOFILE = 1
  SYMMAX = 3
  Workloads <- Looped
  Starts <- Pairs
  NInode = 4
  MaxCrash = 0
INVARIANT Unlocked
