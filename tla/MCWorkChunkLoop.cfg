\* The first chunk is larger than any target needs.
CONSTANTS
  Means <- MCMeans
  Targets <- MCTargets
  FirstChunk = 9
SPECIFICATION LoopSpec
INVARIANTS
  LoopIsNextChunk
  ChunkFillsTarget
PROPERTY
  EveryCallReturns
