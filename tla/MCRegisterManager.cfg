CONSTANTS
  va = va
  vb = vb
  vc = vc
  vs = vs
  vt = vt
  fn = fn
  main = main
  L1 = L1
  L2 = L2
  NoVar = NoVar
  NoLabel = NoLabel
  NumRegisters = 1
  FloatVars = {vt}
  Vars <- MCVars
  Labels <- MCLabels
  Analysed <- MCAnalysed
SPECIFICATION Spec
INVARIANTS
  TypeOK
  ProperColoring
  RegistersSeparate
  SpilledUnderPressure
CHECK_DEADLOCK FALSE
