CONSTANTS
  va = va
  vb = vb
  vc = vc
  vs = vs
  vt = vt
  fn = fn
  main = main
  L1 = L1
  L2 = L2
  NoVar = NoVar
  NoLabel = NoLabel
  NumRegisters = 2
  FloatVars = {}
  Vars <- MCVars
  Labels <- MCLabels
  Programs <- MCPrograms
SPECIFICATION Spec
INVARIANTS
  QueriesExact
  NoClobber
  LiveRangesExact
  AbortsOnlyUninitialised
PROPERTIES
  Terminates
CHECK_DEADLOCK FALSE
