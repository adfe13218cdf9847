SPECIFICATION Spec
CONSTANTS
  None = None
  Clients = {c1, c2}
  Pids = {p1, p2}
  Subs = {s1}
  VarIds = {v1}
  Values = {a}
  Times <- MCSmallTimes
  IntMod = 4
  Ops <- AllOps
  VarInputs <- MCVarInputs
  ProcessInputs <- MCProcessInputs
SYMMETRY Symmetry
INVARIANT IInv
PROPERTY WritesByMembers
PROPERTY KeptWhileInUse
PROPERTY AccessSpec
