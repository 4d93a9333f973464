----------------------- MODULE KeepStableCompositions -----------------------
(***************************************************************************)
(* KeepStableCompositions: a barrier that releases the structures on the   *)
(* convex hull of what it holds.  hasData, a const call, makes the hull    *)
(* and keeps it for release; a structure that comes in takes it away.      *)
(* The barrier is a record and each call an operator on it.  The hull is   *)
(* external: it may find any of the structures with an energy stable.      *)
(***************************************************************************)
EXTENDS Naturals, FiniteSets

NoHull == <<>>   \* a null myConvexHullStructures

NewBarrier == [store |-> {}, hull |-> NoHull]

(* Mutant of In: the hull is left. *)
InKeepsHull(barrier, s) == [barrier EXCEPT !.store = @ \cup {s}]

In(barrier, s) == [store |-> barrier.store \cup {s}, hull |-> NoHull]

PipelineFinishing(barrier) == NewBarrier

(* A hull takes two endpoints, the elements of what is held. *)
CanJudge(endpoints) == Cardinality(endpoints) >= 2

(* What hasData may answer and leave, where withEnergy are the structures held
   that have an energy.  Without a hull everything will be released. *)
HasData(barrier, withEnergy, endpoints) ==
  IF barrier.store = {} THEN {[answer |-> FALSE, barrier |-> barrier]}
  ELSE IF ~CanJudge(endpoints) THEN {[answer |-> TRUE, barrier |-> barrier]}
  ELSE {[answer |-> stable # {},
         barrier |-> [store |-> barrier.store,
                      hull |-> [of |-> barrier.store, stable |-> stable]]] :
          stable \in SUBSET (barrier.store \cap withEnergy)}

(* Mutant of Release: what is released stays in the store. *)
ReleaseKeepsStore(barrier) ==
  IF barrier.hull = NoHull THEN [out |-> barrier.store, drop |-> {}, barrier |-> barrier]
  ELSE [out |-> barrier.store \cap barrier.hull.stable,
        drop |-> barrier.store \ barrier.hull.stable, barrier |-> barrier]

(* release: all, or none if nothing is stable, or those the hull calls stable
   with the rest dropped.  The hull stays. *)
Release(barrier) ==
  IF barrier.hull = NoHull
  THEN [out |-> barrier.store, drop |-> {}, barrier |-> [store |-> {}, hull |-> barrier.hull]]
  ELSE IF barrier.hull.stable = {} THEN [out |-> {}, drop |-> {}, barrier |-> barrier]
  ELSE [out |-> barrier.store \cap barrier.hull.stable,
        drop |-> barrier.store \ barrier.hull.stable,
        barrier |-> [store |-> {}, hull |-> barrier.hull]]
==============================================================================
