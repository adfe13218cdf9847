SPECIFICATION WFairSpec
CONSTANTS
  None = None
  Clients = {c1, c2}
  Pids = {p1, p2}
  Subs = {s1}
  VarIds = {v1}
  Values = {a}
  Times <- MCTimeZero
  IntMod = 4
  Ops <- DeleteOps
  VarInputs <- NoInputs
  ProcessInputs <- NoInputs
PROPERTY WaitEnds
