\* Every order of arrival, releases at any time.
CONSTANTS
  NoProperty = NoProperty
  UsePerAtom = TRUE
  KeepN = 2
  Structure <- MCStructure
  Formula <- MCFormula
  Property <- MCProperty
SPECIFICATION TopNSpec
INVARIANTS
  EachGoesOneWay
  HeldIsTopN
PROPERTY
  HeldIsReleased
CHECK_DEADLOCK FALSE
