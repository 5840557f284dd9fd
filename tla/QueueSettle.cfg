\* Two workers of one server with two messages, and one each of two servers with
\* two messages of which one is undecodable; a crash or a lost channel.
CONSTANTS
  s1 = s1
  s2 = s2
  w1 = w1
  w2 = w2
  w3 = w3
  m1 = m1
  m2 = m2
  Servers = {s1, s2}
  Workers = {w1, w2}
  Worlds <- MCWorldsOfTwo
  Messages = {m1, m2}
  Timeout = TRUE
  MaxAsk = 1
  MaxFaults = 1
  None = None
SPECIFICATION FairSpec
INVARIANTS
  TypeOK
  AckedMeansProcessed
  DroppedMeansExhausted
  UnsettledIsHeld
  HolderOwns
PROPERTIES
  EverySettled
  ImplementsWorkQueue
CHECK_DEADLOCK FALSE
