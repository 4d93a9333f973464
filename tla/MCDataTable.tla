----------------------------- MODULE MCDataTable -----------------------------
(***************************************************************************)
(* Instances of DataTableSupport for TLC.                                  *)
(***************************************************************************)
EXTENDS DataTableSupport, TLC

CONSTANTS K, L, Energy, Group, A, B, Summary, Other, WidthOfB

MCKeys == {K, L}
MCCols == {Energy, Group}
MCValues == {A, B}
MCFiles == {Summary, Other}

MCWidth ==
  [word \in {K, L, Energy, Group, A, B, KeyColumn, NoValue} |->
     CASE word = NoValue -> 0 [] word = B -> WidthOfB [] OTHER -> 1]

(* Rows, columns and files are interchangeable, values of different widths are
   not. *)
Symmetry ==
  Permutations({K, L}) \cup Permutations({Energy, Group})
    \cup Permutations({Summary, Other})
==============================================================================
