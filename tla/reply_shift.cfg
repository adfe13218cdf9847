SPECIFICATION Spec
CONSTANTS
  None = None
  py = py
  cc = cc
  it = it
  ad = ad
  bc = bc
  cb = cb
  oc = oc
  sub = sub
  e = e
  t = t
  l = l
  h = h
  Programs = {cc}
  Names = {ad, oc}
  Values = {e, t, l}
  WordMod = 32768
  IntMod = 4
  OnlyCompile = oc
  TrueValue = t
  Empty = e
  VarIds = {ad, oc}
  Times <- MCTimes
  Lang <- MCLang
  Bytes <- MCBytes
  Spelling <- MCSpelling
  Length <- MCLength
  Buffer <- MCBuffer
  ServerBuffer = 2
  Writes <- OneName
  Reads <- OneName
  Assigned <- LongValue
  MaxCalls <- FiveCalls
  RawOps = {}
PROPERTY EchoReceived
CHECK_DEADLOCK FALSE
