SPECIFICATION Storage
CONSTANTS
  p1 = p1
  p2 = p2
  b1 = b1
  b2 = b2
  v1 = v1
  v2 = v2
  NoProc = NoProc
  NoBuf = NoBuf
  NoBlock = NoBlock
  Proc = {p1, p2}
  Buf = {b1, b2}
  Block <- BlockSmall
  NBUCKET = 2
  Value = {v1, v2}
  MaxTicks = 1
  Ino = {1, 2}
  NDIRECT = 1
  NINDIRECT = 2
  NBLOCK = 9
  Lengths = {1, 4}
  MaxOps = 3
SYMMETRY Symmetric
INVARIANTS OneBufferPerBlock RefcntExact LockOrder BlocksExact
PROPERTIES ImplementsBlockStore ImplementsFiles
