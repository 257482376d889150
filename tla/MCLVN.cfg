CONSTANTS
  x = x
  NumLines = 5
  StartValues = {0, 1, 2}
  UserVars <- MCUserVars
  Sources <- AllCodes
SPECIFICATION Spec
INVARIANTS
  RebuildHarmless
  SingleCopyInPlace
  MeaningKept
CHECK_DEADLOCK FALSE
