SPECIFICATION Processes
CONSTANTS
  c1 = c1
  c2 = c2
  NPROC = 3
  CPU = {c1, c2}
  MaxPid = 3
  KillPids = {0, 1, 2}
  p1 = p1
  p2 = p2
  p3 = p3
  g1 = g1
  g2 = g2
  g3 = g3
  v0 = v0
  v1 = v1
  Proc = {p1, p2, p3}
  first = p1
  Page = {g1, g2, g3}
  NVA = 2
  REFMOD = 4
  Value = {v0, v1}
  Zero = v0
  Junk = junk
  NoPage = none
  NoPte = none
  NoValue = none
SYMMETRY Symmetric
INVARIANTS OneCpu NoLostWakeup NoOrphans RefsExact WritableIsPrivate
PROPERTY ImplementsAddressSpaces
