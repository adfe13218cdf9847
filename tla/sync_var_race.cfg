SPECIFICATION Spec
CONSTANTS
  None = None
  Clients = {c1, c2}
  Pids = {p1}
  Subs = {s1}
  VarIds = {v1}
  Values = {a}
  Times <- MCSmallTimes
  IntMod = 4
  Ops <- SyncVarOps
  VarInputs <- MCVarInputs
  ProcessInputs <- NoInputs
SYMMETRY Symmetry
PROPERTY SyncVarNeverOlder
