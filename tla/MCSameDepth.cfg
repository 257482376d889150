CONSTANTS
  x = x
  y = y
  Names <- MCNames
  Initializers = {"leaf"}
  MaxScopes = 6
  MaxVariables = 3
  MaxTable = 5
SYMMETRY Symmetry
SPECIFICATION Spec
INVARIANT
  TypesAgree
CHECK_DEADLOCK FALSE
