\* The sweep in the current directory, without a directory for each row.
CONSTANTS
  Unset = Unset
  Tags <- MCTags
  Refused <- MCRefused
  QueueTag = "tag"
  BuiltIn <- MCBuiltIn
  Ranges <- MCRanges
  MaxAtoms = 1
  Settings <- MCSettingsHere
SPECIFICATION Spec
INVARIANT KeysAreNotEmpty
CHECK_DEADLOCK FALSE
