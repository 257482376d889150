CONSTANTS
  x = x
  NoVar = NoVar
  NoLabel = NoLabel
  MCLength = 5
  Vars <- MCVars
  Labels <- MCLabels
  Programs <- MCPrograms
SPECIFICATION Spec
INVARIANTS
  DominatorsExact
  DescriptorsMatch
  EdgesComplete
  EdgesSound
  ExposedExact
CHECK_DEADLOCK FALSE
