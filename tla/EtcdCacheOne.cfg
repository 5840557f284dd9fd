\* One client that also lists the services, two services, two nodes.
CONSTANTS
  Clients = {c1}
  Names = {a, b}
  Nodes = {u1, u2}
  MaxChanges = 3
  MaxGets = 1
  MaxLists = 1
  Blank = Blank
  None = None
SPECIFICATION FairSpec
INVARIANTS
  AnswersAreOwn
  CacheGuarded
PROPERTIES
  GetServiceReturns
CHECK_DEADLOCK FALSE
