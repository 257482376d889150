CONSTANTS
  x = x
  y = y
  Names <- MCNames
  Initializers = {"leaf", "computed", "assigned"}
  MaxScopes = 5
  MaxVariables = 3
  MaxTable = 5
SYMMETRY Symmetry
SPECIFICATION Spec
INVARIANTS
  SameScopeAsParser
  StoreAgrees
  CrashesOnlyAfterLoss
  MisresolvedOnlyByCollision
CHECK_DEADLOCK FALSE
