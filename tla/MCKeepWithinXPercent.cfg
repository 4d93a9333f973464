\* Every order of arrival, releases at any time.
CONSTANTS
  NoProperty = NoProperty
  UsePerAtom = TRUE
  Percent = 50
  Hundred = 100
  Structure <- MCStructure
  Formula <- MCFormula
  Property <- MCProperty
SPECIFICATION WithinSpec
INVARIANTS
  EachGoesOneWay
  HeldIsWithinCutoff
  UndefinedOnlyAboveZero
CHECK_DEADLOCK FALSE
