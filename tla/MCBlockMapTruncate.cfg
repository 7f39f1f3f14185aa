SPECIFICATION MapSpec
CONSTANTS
  Ino = {1, 2}
  NDIRECT = 1
  NINDIRECT = 2
  NBLOCK = 9
  Lengths = {1, 4}
  MaxOps = 3
INVARIANT TruncateWorks
