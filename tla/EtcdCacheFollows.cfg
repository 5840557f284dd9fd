\* One client, one change after its watch.
CONSTANTS
  Clients = {c1}
  Names = {a}
  Nodes = {u1}
  MaxChanges = 2
  MaxGets = 0
  MaxLists = 0
  Blank = Blank
  None = None
SPECIFICATION Spec
PROPERTIES
  EventsApplied
CHECK_DEADLOCK FALSE
