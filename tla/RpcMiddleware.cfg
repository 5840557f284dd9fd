\* Two requests one after the other on the only context.
CONSTANTS
  Requests = {r1, r2}
  Contexts = {c1}
  plain = plain
  guarded = guarded
  PlainLen = 0
  GuardedLen = 2
  Routes <- MCRoutes
  ChainLen <- MCChainLen
  Headers = {}
  Keys = {k}
  Snappy = FALSE
  MaxNextCalls = 1
  None = None
SPECIFICATION Spec
SYMMETRY MCSymmetry
INVARIANTS
  EveryHandlerRuns
CHECK_DEADLOCK FALSE
