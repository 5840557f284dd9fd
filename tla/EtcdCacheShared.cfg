\* Two clients that share the registry.
CONSTANTS
  Clients = {c1, c2}
  Names = {a}
  Nodes = {u1}
  MaxChanges = 2
  MaxGets = 1
  MaxLists = 0
  Blank = Blank
  None = None
SPECIFICATION FairSpec
PROPERTIES
  LookupReturns
CHECK_DEADLOCK FALSE
