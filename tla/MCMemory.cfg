SPECIFICATION Memory
CONSTANTS
  p1 = p1
  p2 = p2
  g1 = g1
  g2 = g2
  none = none
  Proc = {p1, p2}
  NCPU = 3
  PGSIZE = 4
  PHYSTOP = 24
  Ends = {0, 1, 3, 6, 9}
  NPROC = 3
  Lab = {"syscalls", "traps", "filesystem", "mmap", "pagetables"}
  Argument = {{}, {1, 3, 22}}
  PLAIN = {"connect", "sigreturn", "munmap", "symlink"}
  c_PGSIZE = 2
  c_NPAGE = 3
  c_WORD = 2
  c_MAXLEN = 4
SYMMETRY Symmetric
INVARIANTS ListsExact HeapExact PagesExact AsSized HoldersExact  CopyExact NprocBetween
 
