\* Two rows, two columns, values of one and of two characters, of which none
\* replaces a longer one, and every run on another file.
CONSTANTS
  K = K
  L = L
  Energy = Energy
  Group = Group
  A = A
  B = B
  Summary = Summary
  Other = Other
  WidthOfB = 2
  KeyColumn = KeyColumn
  NoValue = NoValue
  NoFile = NoFile
  NoWriter = NoWriter
  NoText = NoText
  Keys <- MCKeys
  Cols <- MCCols
  Values <- MCValues
  Files <- MCFiles
  Width <- MCWidth
  WriteDelay = 1
  SizeRange = 65536
  ClearOnFinish = TRUE
  MaxRuns = 2
SPECIFICATION SteadySpec
INVARIANTS
  FileIsWrittenPart
  FinalFileIsTable
SYMMETRY Symmetry
CHECK_DEADLOCK FALSE
