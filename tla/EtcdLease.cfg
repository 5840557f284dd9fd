\* Ticks of 20 s: a request takes up to 20 s, a heartbeat 60 s, a key 120 s.
CONSTANTS
  Nodes = {n1, n2}
  TTL = 6
  Beat = 3
  MaxDelay = 1
  MaxLost = 1
SPECIFICATION Spec
INVARIANTS
  LiveListed
  EndedExpires
