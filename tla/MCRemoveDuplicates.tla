------------------------- MODULE MCRemoveDuplicates -------------------------
(***************************************************************************)
(* Instances of RemoveDuplicates for TLC: 1, 2, 3 and 4 in a chain, each   *)
(* similar to its neighbours only, and 5 and 6 a pair.                     *)
(***************************************************************************)
EXTENDS RemoveDuplicates

MCStructure == 1..6
MCSimilar ==
  LET pairs == {<<1, 2>>, <<2, 3>>, <<3, 4>>, <<5, 6>>}
  IN pairs \cup {<<p[2], p[1]>> : p \in pairs}
MCFoundBefore == [s \in MCStructure |-> IF s = 1 THEN 2 ELSE 0]
==============================================================================
