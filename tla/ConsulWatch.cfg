\* Two services, one of which two nodes may come, go and come again.
CONSTANTS
  Names = {a, b}
  Nodes = {u1, u2}
  MaxChanges = 3
  MaxLists = 1
  Blank = Blank
  None = None
SPECIFICATION FairSpec
INVARIANTS
  AnswersAreOwn
PROPERTIES
  CacheFollows
CHECK_DEADLOCK FALSE
