------------------------ MODULE MCKeepWithinXPercent ------------------------
(***************************************************************************)
(* Instances of KeepWithinXPercent for TLC: the cutoff is half the lowest  *)
(* value; per atom the values are -4, -2 (on its cutoff), -3 and -1 in one *)
(* composition, 2, 0 and 1 in another, and one structure has no value.     *)
(***************************************************************************)
EXTENDS KeepWithinXPercent

MCStructure == 1..8
MCFormula ==
  <<<<1, 1>>, <<1, 1>>, <<2, 2>>, <<2, 2>>, <<1, 0>>, <<2, 0>>, <<1, 0>>, <<1, 1>>>>
MCProperty == <<-8, -4, -12, -4, 2, 0, 1, NoProperty>>
==============================================================================
