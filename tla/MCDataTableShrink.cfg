\* One run; B takes two characters, A takes one.
CONSTANTS
  K = K
  L = L
  Energy = Energy
  Group = Group
  A = A
  B = B
  Summary = Summary
  Other = Other
  WidthOfB = 2
  KeyColumn = KeyColumn
  NoValue = NoValue
  NoFile = NoFile
  NoWriter = NoWriter
  NoText = NoText
  Keys <- MCKeys
  Cols <- MCCols
  Values <- MCValues
  Files <- MCFiles
  Width <- MCWidth
  WriteDelay = 1
  SizeRange = 65536
  ClearOnFinish = TRUE
  MaxRuns = 1
SPECIFICATION Spec
INVARIANT
  FinalFileIsTable
CHECK_DEADLOCK FALSE
