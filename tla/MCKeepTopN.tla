----------------------------- MODULE MCKeepTopN -----------------------------
(***************************************************************************)
(* Instances of KeepTopN for TLC: five structures of one composition, two  *)
(* of them in a cell twice as large and two equal per atom, one of another *)
(* composition and one without the property.                               *)
(***************************************************************************)
EXTENDS KeepTopN

MCStructure == 1..7
MCFormula == <<<<1, 1>>, <<2, 2>>, <<1, 1>>, <<2, 2>>, <<1, 1>>, <<2, 1>>, <<1, 1>>>>
MCProperty == <<-4, -8, -6, -4, 2, -1, NoProperty>>
==============================================================================
