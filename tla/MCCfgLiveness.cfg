CONSTANTS
  x = x
  MCSize = 3
  Vars <- MCVars
  Graphs <- MCGraphs
SPECIFICATION Spec
INVARIANTS
  TypeOK
  SolvedWhenReturned
  BelowEverySolution
  ExactWhenReturned
PROPERTIES
  RecomputationIsStable
  CallsReturn
  ImplementsLiveness
