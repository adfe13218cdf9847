SPECIFICATION Spec
CONSTANTS
  None = None
  Coly = p1
  Pids = {p1, p2, p3}
  MaxListed = 1
PROPERTY KillsAll
CHECK_DEADLOCK FALSE
