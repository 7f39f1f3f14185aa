\* The stack is less than a ring ahead of the card.  The driver may stop for want of an mbuf.
\* Programs arm alarms in time, outside handlers.
SPECIFICATION Machines
CONSTANTS
  TX_RING_SIZE = 2
  RX_RING_SIZE = 4
  WORD = 16
  m1 = m1
  m2 = m2
  m3 = m3
  m4 = m4
  m5 = m5
  m6 = m6
  m7 = m7
  Mbuf = {m1, m2, m3, m4, m5, m6, m7}
  Null = Null
  MaxTx = 4
  MaxRx = 5
  Backlog = 1
  Trapframe = {1, 2}
  MaxAlarm = 2
  MaxTicks = 3
  MaxNest = 2
  Allowed = {"stray_return"}
INVARIANTS InOrder OneOwner
PROPERTIES AllDelivered Restored 
CHECK_DEADLOCK FALSE
