\* Every outcome of generating, optimising and writing, for six input files.
CONSTANTS
  Unset = Unset
  Tags <- MCTags
  Refused <- MCRefused
  QueueTag = "tag"
  BuiltIn <- MCBuiltIn
  Ranges <- MCRanges
  MaxAtoms = 1
  Settings <- MCSettings
SPECIFICATION Spec
INVARIANTS
  TypeOK
  MarkedAsUsed
  RowsTellTheTruth
  SweepIsComplete
  SavedIsSentOnce
PROPERTY QueueIsRun
CHECK_DEADLOCK FALSE
