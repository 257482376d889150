SPECIFICATION Spec
CONSTANTS
  f = f
  g = g
  x = x
  nowhere = nowhere
  nothing = nothing
  Funs <- MCFuns
  Vars <- MCVars
  Labels <- MCLabels
  NoVar = nothing
  NoLabel = nowhere
  MaxLines = 7
SYMMETRY Symmetry
INVARIANTS
  TypeOK
  BlocksNumbered
  DeliversWellFormed
  CallsReachDefinition
  ReturnsBooked
  FunctionsReturn
CHECK_DEADLOCK FALSE
