SPECIFICATION FairSpec
CONSTANTS
  c1 = c1
  c2 = c2
  NPROC = 3
  CPU = {c1}
  MaxPid = 3
  KillPids = {2}
PROPERTY OrphansReaped
 
