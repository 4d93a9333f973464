------------------------------ MODULE WorkChunk ------------------------------
(***************************************************************************)
(* How many parameter sets RunPotentialParamsQueue takes from the queue    *)
(* file at a time, as a function of the mean time a set has taken so far.  *)
(* Times are in ticks of posix_time::time_duration, which are integers.    *)
(***************************************************************************)
EXTENDS Integers

LargerOf(i, j) == IF i >= j THEN i ELSE j

(* The least k with mean * k >= target, for mean > 0. *)
ItemsToFill(mean, target) == (target + mean - 1) \div mean

(* Where the search of updateWorkChunkSize starts: over the target, from one
   again; within it, from one more than the last chunk. *)
SearchStart(mean, chunk, target) ==
  IF mean * chunk > target THEN 1 ELSE chunk + 1

(* The chunk size the function leaves: the loop that multiplies up from i stops
   at the larger of i and ItemsToFill. *)
NextChunk(mean, chunk, target) ==
  IF mean > target
  THEN 1
  ELSE LargerOf(SearchStart(mean, chunk, target), ItemsToFill(mean, target))

(* posix_time durations divided by a count: integer division. *)
MeanDuration(busy, items) == busy \div items
==============================================================================
