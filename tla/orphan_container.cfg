SPECIFICATION Spec
CONSTANTS
  None = None
  Clients = {c1, c2}
  Pids = {p1}
  Subs = {s1}
  VarIds = {v1}
  Values = {a}
  Times <- MCTimeZero
  IntMod = 4
  Ops <- FamilyOps
  VarInputs <- NoInputs
  ProcessInputs <- NoInputs
PROPERTY LastOutCleansUp
