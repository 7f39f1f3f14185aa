\* The stack may be ahead of the card by more packets than the ring has.
SPECIFICATION Spec
CONSTANTS
  TX_RING_SIZE = 2
  RX_RING_SIZE = 2
  WORD = 16
  m1 = m1
  m2 = m2
  m3 = m3
  m4 = m4
  m5 = m5
  m6 = m6
  m7 = m7
  Mbuf = {m1, m2, m3, m4, m5, m6}
  Null = Null
  MaxTx = 3
  MaxRx = 5
  Backlog = 3
INVARIANT FreedAfterSending
CHECK_DEADLOCK FALSE
