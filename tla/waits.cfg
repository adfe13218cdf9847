SPECIFICATION WFairSpec
CONSTANTS
  None = None
  Clients = {c1, c2}
  Pids = {p1}
  Subs = {s1}
  VarIds = {v1, v2}
  Values = {a}
  Times <- MCTimes
  IntMod = 4
  Ops <- LiveOps
  VarInputs <- MCVarInputs
  ProcessInputs <- NoInputs
INVARIANT NoMissedSignal
INVARIANT WInv
PROPERTY CommandsAnswered
PROPERTY SignalArrives
