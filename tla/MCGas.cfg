CONSTANTS
  NoVar = NoVar
  NoLabel = NoLabel
  Vars <- MCVars
  Functions <- MCFunctions
  Arrays <- MCArrays
  TypeOf <- MCTypeOf
  Programs <- MCPrograms
  Colorings <- MCColorings
  NumRegisters = 4
  StackBottom <- MCStackBottom
  MaxSteps = 60
  Main = "main"
SPECIFICATION Spec
CHECK_DEADLOCK FALSE
INVARIANTS
  SlotsDisjoint
  SlotsReserved
  ParametersWherePushed
  ResultsRight
  RestoresMatchSaves
  CallsInGraph
