SPECIFICATION Programs
CONSTANTS
  Thread = {h1, h2, h3, h4}
  Rounds = 3
  Spurious = FALSE
  MAX_THREAD = 4
  N = 100
  NBUCKET = 2
  NKEYS = 4
  PutThreads = 2
  KeyValues = {0, 1, 2}
  LAST = 35
  MaxOpen = 4
  MaxInput = 5
  Sleeper = {s1, s2}
  Free = nobody
  Clock = clock
  TICKMOD = 5
  Times = {0, 2}
  LAG = 2
INVARIANTS AssertHolds InTurn PutOnce 
PROPERTIES AllFinish NeverEarly SleepersWake
