\* Two requests over two contexts; a handler may call Next twice.
CONSTANTS
  Requests = {r1, r2}
  Contexts = {c1, c2}
  plain = plain
  guarded = guarded
  PlainLen = 0
  GuardedLen = 2
  Routes <- MCRoutes
  ChainLen <- MCChainLen
  Headers = {h}
  Keys = {k}
  Snappy = TRUE
  MaxNextCalls = 2
  None = None
SPECIFICATION Spec
SYMMETRY MCSymmetry
INVARIANTS
  ContextExclusive
  ContextIsTheRequests
  NoCrossTalk
  ChainOrder
  FreshContextRunsAll
  OneAnswer
  RefusalIsAnswered
CHECK_DEADLOCK FALSE
