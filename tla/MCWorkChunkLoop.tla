--------------------------- MODULE MCWorkChunkLoop ---------------------------
(***************************************************************************)
(* Instance of WorkChunkLoop for TLC: every mean around every target, below*)
(* it, equal to it and above it.                                           *)
(***************************************************************************)
EXTENDS WorkChunkLoop

MCMeans == 1..7
MCTargets == 0..6
==============================================================================
