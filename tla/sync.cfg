SPECIFICATION FairSpec
CONSTANTS
  None = None
  py = py
  cc = cc
  it = it
  ad = ad
  bc = bc
  cb = cb
  oc = oc
  sub = sub
  e = e
  t = t
  l = l
  h = h
  Programs = {py, cc, it}
  Names = {ad, bc, cb, oc, sub}
  Values = {e, t, l, h}
  WordMod = 32768
  IntMod = 4
  OnlyCompile = oc
  TrueValue = t
  Empty = e
  VarIds = {ad, bc, cb, oc, sub}
  Times <- MCTimes
  Lang <- MCLang
  Bytes <- MCBytes
  Spelling <- MCSpelling
  Length <- MCLength
  Buffer <- MCBuffer
  ServerBuffer = 2
  Writes <- MCWrites
  Reads <- MCReads
  Assigned <- MCAssigned
  MaxCalls <- MCMaxCalls
  RawOps <- AllRaw
INVARIANT DispatchRight
INVARIANT Synchronised
INVARIANT SInv
INVARIANT StoreInv
PROPERTY EchoBelongs
PROPERTY NamesApart
PROPERTY CallReturns
CHECK_DEADLOCK FALSE
