\* Two processes that may die and start again between any two write() calls: in the
\* middle of a rewrite of the queue file, or with half a line in the done file.
CONSTANTS
  P = P
  Q = Q
  NoWorker = NoWorker
  NoParams = NoParams
  Garbled = Garbled
  Joined = Joined
  Worker <- MCWorker
  Params <- MCParams
  InitialQueues <- MCInitialQueues
  InitialChunk = 2
  TargetTime = 3
  Durations <- MCDurations
  FlushLines = 1
  MaxCrashes = 2
SPECIFICATION FairSpec
INVARIANTS
  TypeOK
  OneOwner
  FileKeepsEveryLine
  ClaimedInOrder
  DoneFileIsExact
  NothingLost
PROPERTIES
  ImplementsWorkPool
  RunIsRecorded
  AllFinish
  SurvivorsDrainQueue
CHECK_DEADLOCK FALSE
