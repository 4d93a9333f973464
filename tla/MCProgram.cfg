\* Every document, every failure on the way, every order of structures.
CONSTANTS
  Unset = Unset
  Garbage = Garbage
  WithHull = TRUE
  WithThreads = TRUE
  Tags <- MCTags
  Refused = {}
  Document <- MCDocument
  Inputs <- MCInputs
  Home <- MCHome
  Loadable <- MCLoadable
  Fragment <- MCFragment
  BuiltIn <- MCBuiltIn
  Known <- MCKnown
  GarbageTimes = {0, 2}
  SweepYield = 2
  Writers <- MCWriters
  Multi = TRUE
  MaxStructures = 4
SPECIFICATION Spec
INVARIANTS
  BarriersKeepBooks
  SavedIsThere
  UntouchedStay
  DatabaseIsReady
  RunsWhatIsWritten
PROPERTIES
  FlatForWantOfAtoms
  EachEndsOnce
