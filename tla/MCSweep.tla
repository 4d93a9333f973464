------------------------------- MODULE MCSweep -------------------------------
(***************************************************************************)
(* Instances of Sweep for TLC.  Two species with up to one atom each and   *)
(* at most one atom in all: two stoichiometries run, two are skipped.      *)
(***************************************************************************)
EXTENDS Sweep

Tried == <<"tried">>
Bad == <<"bad">>
MCRefused == {Bad}
MCTags == {"tag"}
MCBuiltIn == <<"built in">>
MCRanges == [p \in {"A", "B"} |-> <<0, 1>>]

QueueSetting ==
  [queued |-> TRUE, queue |-> <<Tried, Bad>>, num |-> 1, separate |-> TRUE, multi |-> TRUE,
   tag |-> "tag", fits |-> TRUE, failAction |-> "drop"]

(* A set taken and one refused, in either order; a potential with parameters of
   its own, and one with none; several structures in a run. *)
MCSettings ==
  {QueueSetting,
   [QueueSetting EXCEPT !.queue = <<Bad, Tried>>, !.multi = FALSE],
   [QueueSetting EXCEPT !.separate = FALSE, !.failAction = "continue", !.tag = Unset],
   [QueueSetting EXCEPT !.fits = FALSE, !.failAction = "continue"],
   [QueueSetting EXCEPT !.queue = <<Tried>>, !.num = 2],
   [QueueSetting EXCEPT !.queued = FALSE, !.queue = <<>>, !.num = 2]}

(* The sweep on its own in the program's directory, as its options default. *)
MCSettingsHere == {[QueueSetting EXCEPT !.queued = FALSE, !.queue = <<>>, !.separate = FALSE]}
==============================================================================
