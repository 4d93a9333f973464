---------------------------- MODULE WorkChunkLoop ----------------------------
(***************************************************************************)
(* updateWorkChunkSize of RunPotentialParamsQueue step by step: durations  *)
(* cannot be divided by one another, so the function multiplies the mean   *)
(* up until it reaches the target.  A process calls it after every chunk,  *)
(* with the mean as it then is.                                            *)
(***************************************************************************)
EXTENDS WorkChunk

CONSTANTS
  Means,      \* mean durations of a run
  Targets,    \* Settings::targetChunkTime
  FirstChunk  \* INITIAL_NUM_WORK_ITEMS

ASSUME LoopAssumption ==
  Means \subseteq Nat \ {0} /\ Targets \subseteq Nat /\ FirstChunk \in Nat \ {0}

VARIABLES
  targetChunkTime,    \* mySettings.targetChunkTime
  meanDuration,       \* meanDuration
  numWorkItemsChunk,  \* myNumWorkItemsChunk
  counter,            \* i, the loop's counter
  at,                 \* "call", "loop" or "return"
  chunkBefore         \* history: the chunk size when the function was called

loopVars == <<targetChunkTime, meanDuration, numWorkItemsChunk, counter, at, chunkBefore>>

LoopInit ==
  /\ targetChunkTime \in Targets
  /\ meanDuration \in Means
  /\ numWorkItemsChunk = FirstChunk
  /\ chunkBefore = FirstChunk
  /\ counter = 0
  /\ at = "call"

(* One item takes longer than the target: one at a time. *)
TooLong ==
  /\ at = "call"
  /\ meanDuration > targetChunkTime
  /\ numWorkItemsChunk' = 1
  /\ at' = "return"
  /\ UNCHANGED <<targetChunkTime, meanDuration, counter, chunkBefore>>

EnterLoop ==
  /\ at = "call"
  /\ meanDuration <= targetChunkTime
  /\ counter' = SearchStart(meanDuration, numWorkItemsChunk, targetChunkTime)
  /\ at' = "loop"
  /\ UNCHANGED <<targetChunkTime, meanDuration, numWorkItemsChunk, chunkBefore>>

(* Mutant of Multiply: the test is <=. *)
MultiplyPast ==
  /\ at = "loop"
  /\ meanDuration * counter <= targetChunkTime
  /\ counter' = counter + 1
  /\ UNCHANGED <<targetChunkTime, meanDuration, numWorkItemsChunk, at, chunkBefore>>

(* Mutant of Multiply: the counter is not advanced. *)
MultiplyStuck ==
  /\ at = "loop"
  /\ meanDuration * counter < targetChunkTime
  /\ counter' = counter
  /\ UNCHANGED <<targetChunkTime, meanDuration, numWorkItemsChunk, at, chunkBefore>>

Multiply ==
  /\ at = "loop"
  /\ meanDuration * counter < targetChunkTime
  /\ counter' = counter + 1
  /\ UNCHANGED <<targetChunkTime, meanDuration, numWorkItemsChunk, at, chunkBefore>>

(* Mutant of LeaveLoop: the counter is not stored. *)
LeaveLoopUnset ==
  /\ at = "loop"
  /\ meanDuration * counter >= targetChunkTime
  /\ at' = "return"
  /\ UNCHANGED <<targetChunkTime, meanDuration, numWorkItemsChunk, counter, chunkBefore>>

LeaveLoop ==
  /\ at = "loop"
  /\ meanDuration * counter >= targetChunkTime
  /\ numWorkItemsChunk' = counter
  /\ at' = "return"
  /\ UNCHANGED <<targetChunkTime, meanDuration, counter, chunkBefore>>

(* The next chunk has been run: the mean has moved. *)
NextCall ==
  /\ at = "return"
  /\ meanDuration' \in Means
  /\ chunkBefore' = numWorkItemsChunk
  /\ at' = "call"
  /\ UNCHANGED <<targetChunkTime, numWorkItemsChunk, counter>>

Return == TooLong \/ LeaveLoop

LoopNext == TooLong \/ EnterLoop \/ Multiply \/ LeaveLoop \/ NextCall

LoopSpec == LoopInit /\ [][LoopNext]_loopVars /\ WF_loopVars(EnterLoop \/ Multiply \/ Return)

------------------------------------------------------------------------------
(* The variables have their types; the chunk size is never zero, so getWork
   never takes an empty chunk for the end of the queue. *)
LoopTypeOK ==
  /\ targetChunkTime \in Targets
  /\ meanDuration \in Means
  /\ numWorkItemsChunk \in Nat \ {0}
  /\ chunkBefore \in Nat \ {0}
  /\ counter \in Nat
  /\ at \in {"call", "loop", "return"}

(* The loop computes the closed form the model of the queue uses. *)
LoopIsNextChunk ==
  at = "return" => numWorkItemsChunk = NextChunk(meanDuration, chunkBefore, targetChunkTime)

(* However the mean has moved from call to call, a chunk is expected to fill
   the target time, and to do so only with its last item.  The one exception is
   where the search starts: a chunk that fills the target exactly is followed by
   one that is an item longer than it need be. *)
ChunkFillsTarget ==
  (at = "return" /\ meanDuration <= targetChunkTime) =>
    /\ meanDuration * numWorkItemsChunk >= targetChunkTime
    /\ \/ meanDuration * (numWorkItemsChunk - 1) < targetChunkTime
       \/ numWorkItemsChunk = chunkBefore + 1 /\ meanDuration * chunkBefore = targetChunkTime

(* Every call returns. *)
EveryCallReturns == (at = "call") ~> (at = "return")
==============================================================================
