---------------------------- MODULE MCParamsQueue ----------------------------
(***************************************************************************)
(* Instances of ParamsQueue for TLC.                                       *)
(***************************************************************************)
EXTENDS ParamsQueue

CONSTANTS P, Q

MCWorker == {P, Q}
MCParams == 1..3

Work(p) == [params |-> p, by |-> NoWorker]
Comment == [params |-> NoParams, by |-> NoWorker]

(* A line that is no work, and that rewrites move ahead of the lines claimed. *)
LongQueue == <<Work(1), Comment, Work(2), Work(3)>>
MCInitialQueues == {LongQueue}

MCDurations == {1, 4}
==============================================================================
