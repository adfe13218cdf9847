SPECIFICATION FairSpec
CONSTANTS
  None = None
  Coly = p1
  Pids = {p1, p2, p3}
  MaxListed = 3
INVARIANT CInv
PROPERTY KillsOwned
PROPERTY SelfSurvives
PROPERTY KillsNoStranger
PROPERTY ChildrenReaped
CHECK_DEADLOCK FALSE
