---------------------------- MODULE StructureFlow ----------------------------
(***************************************************************************)
(* What a pipeline promises for structures: each is made once, and ends    *)
(* once, finished at the end of the pipe, dropped by a block, or freed     *)
(* with the run if a barrier kept it; and every one that is made ends.     *)
(***************************************************************************)
CONSTANTS Structure

VARIABLES
  unmade,   \* structures not made yet
  live,     \* structures in the pipe
  finished, \* structures that went through
  dropped,  \* structures given up by a block
  freed     \* structures freed by the engine at the end of its run

vars == <<unmade, live, finished, dropped, freed>>

Init == unmade = Structure /\ live = {} /\ finished = {} /\ dropped = {} /\ freed = {}

(* Some structures come into the pipe. *)
Make ==
  /\ unmade' \subseteq unmade
  /\ live' = live \cup (unmade \ unmade')
  /\ UNCHANGED <<finished, dropped, freed>>

(* A block gives some structures up. *)
Drop ==
  /\ live' \subseteq live
  /\ dropped' = dropped \cup (live \ live')
  /\ UNCHANGED <<unmade, finished, freed>>

(* One comes to the end of the pipe. *)
Finish ==
  /\ \E s \in live : live' = live \ {s} /\ finished' = finished \cup {s}
  /\ UNCHANGED <<unmade, dropped, freed>>

(* The end of the run. *)
Free ==
  /\ live' = {}
  /\ freed' = freed \cup live
  /\ UNCHANGED <<unmade, finished, dropped>>

Next == Make \/ Drop \/ Finish \/ Free

Spec == Init /\ [][Next]_vars /\ \A s \in Structure : (s \in live) ~> (s \notin live)
=============================================================================
