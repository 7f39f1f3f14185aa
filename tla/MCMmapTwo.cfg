SPECIFICATION Spec
CONSTANTS
  p1 = p1
  p2 = p2
  g1 = g1
  g2 = g2
  Proc = {p1, p2}
  NFILE = 2
  NOFILE = 2
  VMASIZE = 2
  NInode = 2
  Name = {"a"}
  Present = "a"
  Frame = {g1, g2}
  NoFrame = none
  MAXVA = 2
  MAXFILE = 1
  MaxMaps = 2
  Workloads <- Programs
  MaxOps = 7
INVARIANT NoPanic
