------------------------- MODULE KeepWithinXPercent -------------------------
(***************************************************************************)
(* KeepWithinXPercent: a barrier that keeps, of each composition, the      *)
(* structures whose value is within a fraction of the lowest one; a new    *)
(* lowest one evicts those that are no longer.  As in KeepTopN a call of   *)
(* in is one step.  With a lowest value above zero the cutoff lies below   *)
(* it; the loop that evicts then runs past the start of the order, where   *)
(* the code's behaviour is undefined: "undefined" stands for any outcome.  *)
(***************************************************************************)
EXTENDS KeepBarrier

CONSTANTS Percent, Hundred   \* myKeepPercent is Percent / Hundred: a fraction
                             \* in the examples, 5 where none is given

ASSUME PercentAssumption == Percent \in Nat /\ Hundred \in Nat \ {0}

VARIABLE state   \* "running", or "undefined"

withinVars == <<barrierVars, state>>

(* The value of s against the cutoff of getCutoff when the lowest is low. *)
BelowCutoff(s, low) ==
  Property[s] * Weight(low) * Hundred < Property[low] * Weight(s) * (Hundred - Percent)
AboveCutoff(s, low) ==
  Property[s] * Weight(low) * Hundred > Property[low] * Weight(s) * (Hundred - Percent)

WithinInit == BarrierInit /\ state = "running"

LetThroughWithin(s) == state = "running" /\ LetThrough(s) /\ UNCHANGED state

(* What every call of keep does. *)
Offer(s) ==
  /\ state = "running"
  /\ s \notin Arrived
  /\ HasProperty(s)
  /\ batch' = Append(batch, s)
  /\ UNCHANGED sent

Order(s) == OrderOf(structures, Composition(s))

KeepFirst(s) ==
  /\ Offer(s)
  /\ Order(s) = <<>>
  /\ structures' = WithOrder(structures, Composition(s), <<s>>)
  /\ UNCHANGED <<dropped, state>>

(* Mutant of NewLowest: nothing is evicted. *)
NewLowestOnly(s) ==
  /\ Offer(s)
  /\ Order(s) # <<>>
  /\ Lower(s, Order(s)[1])
  /\ structures' = WithOrder(structures, Composition(s), <<s>> \o Order(s))
  /\ UNCHANGED <<dropped, state>>

(* Mutant of NewLowest: what is on the cutoff is evicted as well. *)
NewLowestInclusive(s) ==
  LET order == <<s>> \o Order(s)
      left == Cardinality({k \in DOMAIN order : BelowCutoff(order[k], s)})
  IN /\ Offer(s)
     /\ Order(s) # <<>>
     /\ Lower(s, Order(s)[1])
     /\ structures' = WithOrder(structures, Composition(s), SubSeq(order, 1, left))
     /\ dropped' = dropped \cup {order[k] : k \in (left + 1)..Len(order)}
     /\ state' = IF left = 0 THEN "undefined" ELSE state

(* newLowest: insert at the front and evict from the end until the last one is
   not above the new cutoff.  The order is sorted, so that the ones not above
   it are the first; when there is none the loop reads past the start. *)
NewLowest(s) ==
  LET order == <<s>> \o Order(s)
      left == Cardinality({k \in DOMAIN order : ~AboveCutoff(order[k], s)})
  IN /\ Offer(s)
     /\ Order(s) # <<>>
     /\ Lower(s, Order(s)[1])
     /\ structures' = WithOrder(structures, Composition(s), SubSeq(order, 1, left))
     /\ dropped' = dropped \cup {order[k] : k \in (left + 1)..Len(order)}
     /\ state' = IF left = 0 THEN "undefined" ELSE state

KeepWithin(s) ==
  /\ Offer(s)
  /\ Order(s) # <<>>
  /\ ~Lower(s, Order(s)[1])
  /\ BelowCutoff(s, Order(s)[1])
  /\ structures' = WithOrder(structures, Composition(s), Inserted(Order(s), s))
  /\ UNCHANGED <<dropped, state>>

(* Mutant of DropOutside: one on the cutoff is neither kept nor dropped. *)
DropOutsideOnly(s) ==
  /\ Offer(s)
  /\ Order(s) # <<>>
  /\ ~Lower(s, Order(s)[1])
  /\ ~BelowCutoff(s, Order(s)[1])
  /\ dropped' = IF AboveCutoff(s, Order(s)[1]) THEN dropped \cup {s} ELSE dropped
  /\ UNCHANGED <<structures, state>>

DropOutside(s) ==
  /\ Offer(s)
  /\ Order(s) # <<>>
  /\ ~Lower(s, Order(s)[1])
  /\ ~BelowCutoff(s, Order(s)[1])
  /\ dropped' = dropped \cup {s}
  /\ UNCHANGED <<structures, state>>

KeepByCutoff(s) == KeepFirst(s) \/ NewLowest(s) \/ KeepWithin(s) \/ DropOutside(s)

ReleaseWithin == state = "running" /\ Release /\ UNCHANGED state

WithinNext ==
  (\E s \in Structure : LetThroughWithin(s) \/ KeepByCutoff(s)) \/ ReleaseWithin

WithinSpec == WithinInit /\ [][WithinNext]_withinVars

------------------------------------------------------------------------------
(* The variables have their types; no order is empty, each is sorted. *)
WithinTypeOK ==
  /\ DOMAIN structures \subseteq Compositions
  /\ \A c \in DOMAIN structures :
       /\ structures[c] \in Seq(Structure)
       /\ state = "running" => structures[c] # <<>>
       /\ \A j, k \in DOMAIN structures[c] :
            j < k => ~Lower(structures[c][k], structures[c][j])
  /\ sent \subseteq Structure
  /\ dropped \subseteq Structure
  /\ batch \in Seq(Structure)
  /\ state \in {"running", "undefined"}

(* The first structure of the batch with the lowest value of a composition. *)
Lowest(c) ==
  CHOOSE s \in ToSet(batch) :
    /\ Composition(s) = c
    /\ \A t \in ToSet(batch) \ {s} :
         Composition(t) = c =>
           Lower(s, t) \/ (~Lower(t, s) /\ CameBefore(batch, s, t))

(* In whatever order structures arrive, the block holds the lowest so far, and
   nothing that is not within its cutoff; of a fraction below one, all that is.
   On the cutoff itself the order decides: another structure there is held if and
   only if it came before the lowest one.  Of one and more nothing is promised for
   what was dropped: the cutoff of a lowest value below zero then rises as the
   value falls, and what came too early may lie within it later. *)
HeldIsWithinCutoff ==
  state = "running" =>
    \A s \in ToSet(batch) :
      LET low == Lowest(Composition(s))
          within == \/ s = low
                    \/ BelowCutoff(s, low)
                    \/ ~AboveCutoff(s, low) /\ CameBefore(batch, s, low)
      IN /\ s \in Held => within
         /\ within /\ (Percent < Hundred \/ s = low) => s \in Held

(* "Go from the end erasing all entries greater than the new cutoff". *)
EvictionEnds == state = "running"

(* The eviction runs off the order only for a lowest value above zero. *)
UndefinedOnlyAboveZero ==
  state = "undefined" =>
    \E s \in ToSet(batch) : Property[Lowest(Composition(s))] > 0
==============================================================================
