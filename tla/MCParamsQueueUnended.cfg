\* No crash, and queue files whose last line may have no end.
CONSTANTS
  P = P
  Q = Q
  NoWorker = NoWorker
  NoParams = NoParams
  Garbled = Garbled
  Joined = Joined
  Worker <- MCWorker
  Params <- MCParams
  InitialQueues <- MCInitialQueues
  InitialChunk = 2
  TargetTime = 3
  Durations <- MCDurations
  FlushLines = 1
  MaxCrashes = 0
SPECIFICATION Spec
INVARIANT
  RestIsWrittenOut
CHECK_DEADLOCK FALSE
