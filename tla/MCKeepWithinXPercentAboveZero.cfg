\* Values above zero, which an enthalpy under pressure may have.
CONSTANTS
  NoProperty = NoProperty
  UsePerAtom = TRUE
  Percent = 50
  Hundred = 100
  Structure <- MCStructure
  Formula <- MCFormula
  Property <- MCProperty
SPECIFICATION WithinSpec
INVARIANT
  EvictionEnds
CHECK_DEADLOCK FALSE
