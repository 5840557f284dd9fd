\* No timeout and no fault: a retry that succeeds.
CONSTANTS
  s1 = s1
  s2 = s2
  w1 = w1
  w2 = w2
  w3 = w3
  m1 = m1
  m2 = m2
  Servers = {s1, s2}
  Workers = {w1, w2, w3}
  Worlds <- MCWorldOfThree
  Messages = {m1, m2}
  Timeout = FALSE
  MaxAsk = 1
  MaxFaults = 0
  None = None
SPECIFICATION Spec
INVARIANTS
  DeliveredToOne
CHECK_DEADLOCK FALSE
