------------------------------ MODULE KeepTopN ------------------------------
(***************************************************************************)
(* KeepTopN: a barrier that keeps, of each composition, the N structures   *)
(* with the lowest value, and drops a structure as soon as N others beat   *)
(* it.                                                                     *)
(***************************************************************************)
EXTENDS KeepBarrier

CONSTANT KeepN   \* myKeepTopN; the schema takes zero as well

ASSUME KeepAssumption == KeepN \in Nat

(* Mutant of Keep: the order may grow to one more than N. *)
KeepOneMore(s) ==
  LET order == Inserted(OrderOf(structures, Composition(s)), s)
      over == Len(order) > KeepN + 1
  IN /\ s \notin Arrived
     /\ HasProperty(s)
     /\ structures' = WithOrder(structures, Composition(s),
                                IF over THEN Front(order) ELSE order)
     /\ dropped' = IF over THEN dropped \cup {Last(order)} ELSE dropped
     /\ batch' = Append(batch, s)
     /\ UNCHANGED sent

(* Mutant of Keep: the structure given to drop is not the one erased. *)
KeepDropsArrival(s) ==
  LET order == Inserted(OrderOf(structures, Composition(s)), s)
      over == Len(order) > KeepN
  IN /\ s \notin Arrived
     /\ HasProperty(s)
     /\ structures' = WithOrder(structures, Composition(s),
                                IF over THEN Front(order) ELSE order)
     /\ dropped' = IF over THEN dropped \cup {s} ELSE dropped
     /\ batch' = Append(batch, s)
     /\ UNCHANGED sent

(* in and keep: insert, and drop the last when there is one too many. *)
Keep(s) ==
  LET order == Inserted(OrderOf(structures, Composition(s)), s)
      over == Len(order) > KeepN
  IN /\ s \notin Arrived
     /\ HasProperty(s)
     /\ structures' = WithOrder(structures, Composition(s),
                                IF over THEN Front(order) ELSE order)
     /\ dropped' = IF over THEN dropped \cup {Last(order)} ELSE dropped
     /\ batch' = Append(batch, s)
     /\ UNCHANGED sent

TopNInit == BarrierInit

TopNNext == (\E s \in Structure : LetThrough(s) \/ Keep(s)) \/ Release

(* The engine releases a barrier that has data when nothing else can move. *)
TopNSpec == TopNInit /\ [][TopNNext]_barrierVars /\ WF_barrierVars(Release)

------------------------------------------------------------------------------
(* The variables have their types; an order is empty, and hasData promises a
   structure that there is not, if and only if N is zero. *)
TopNTypeOK ==
  /\ DOMAIN structures \subseteq Compositions
  /\ \A c \in DOMAIN structures :
       /\ structures[c] \in Seq(Structure)
       /\ structures[c] = <<>> <=> KeepN = 0
  /\ sent \subseteq Structure
  /\ dropped \subseteq Structure
  /\ batch \in Seq(Structure)

(* The structures of the batch that s loses against: lower ones of its
   composition, and equal ones that came before it. *)
Rivals(s) ==
  {t \in ToSet(batch) \ {s} :
     /\ Composition(t) = Composition(s)
     /\ Lower(t, s) \/ (~Lower(s, t) /\ CameBefore(batch, t, s))}

(* In whatever order structures arrive, the block holds exactly the best N of
   each composition so far: no early drop loses one that belongs there. *)
HeldIsTopN ==
  \A s \in ToSet(batch) : s \in Held <=> Cardinality(Rivals(s)) < KeepN

(* What is held does not stay in the block. *)
HeldIsReleased ==
  \A s \in Structure : (s \in Held) ~> (s \in sent \cup dropped)
==============================================================================
