\* Every order of arrival, releases and ends of a run at any time.
CONSTANTS
  Structure <- MCStructure
  Similar <- MCSimilar
  FoundBefore <- MCFoundBefore
SPECIFICATION Spec
INVARIANTS
  TypeOK
  KeepsOneOfEach
  CountsAddUp
CHECK_DEADLOCK FALSE
