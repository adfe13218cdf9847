SPECIFICATION Spec
CONSTANTS
  x = x
  y = y
  s = s
  t = t
  py = py
  cc = cc
  main = main
  lib = lib
  None = None
  Names = {x, y}
  Texts = {s, t}
  Interpreted = {py}
  Compiled = {cc}
  ScriptFiles = {main, lib}
  Main = main
  Scripts <- MCScripts
  ChildTexts = {t}
INVARIANT ScriptInv
INVARIANT PrivateRunsCurrent
INVARIANT PrivateStays
PROPERTY JumpLands
CHECK_DEADLOCK FALSE
