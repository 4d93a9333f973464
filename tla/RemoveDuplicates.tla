-------------------------- MODULE RemoveDuplicates --------------------------
(***************************************************************************)
(* RemoveDuplicates: a barrier that keeps one structure of each kind and   *)
(* counts on it how often the kind was found.  in holds the block's mutex  *)
(* throughout, so that a call is one step.  The comparator is external: it *)
(* compares within a tolerance, which is symmetric and not transitive, and *)
(* the set of unique structures may answer with any structure it finds     *)
(* similar.                                                                *)
(***************************************************************************)
EXTENDS Naturals, FiniteSets, FiniteSetsExt

CONSTANTS
  Structure,    \* the structures that reach the block
  Similar,      \* pairs the comparator calls similar
  FoundBefore   \* TIMES_FOUND a structure comes with, from a block upstream

ASSUME SimilarAssumption ==
  /\ IsFiniteSet(Structure)
  /\ \A s, t \in Structure : <<s, t>> \in Similar => <<t, s>> \in Similar
  /\ FoundBefore \in [Structure -> Nat]

VARIABLES
  structureSet,  \* myStructureSet
  timesFound,    \* the property TIMES_FOUND of each structure
  sent,          \* structures given to out
  dropped,       \* structures given to drop
  gone,          \* structures the engine has freed with its run
  offered        \* history: structures offered since the set was last empty

vars == <<structureSet, timesFound, sent, dropped, gone, offered>>

Arrived == offered \cup sent \cup dropped \cup gone

SimilarTo(s) == {t \in structureSet : <<s, t>> \in Similar}

Init ==
  /\ structureSet = {}
  /\ timesFound = FoundBefore
  /\ sent = {}
  /\ dropped = {}
  /\ gone = {}
  /\ offered = {}

(* Mutant of InsertUnique: a count from upstream is added to. *)
InsertUniqueAdding(s) ==
  /\ s \notin Arrived
  /\ SimilarTo(s) = {}
  /\ structureSet' = structureSet \cup {s}
  /\ timesFound' = [timesFound EXCEPT ![s] = @ + 1]
  /\ offered' = offered \cup {s}
  /\ UNCHANGED <<sent, dropped, gone>>

(* in, for a structure like none before: it is kept and counted once. *)
InsertUnique(s) ==
  /\ s \notin Arrived
  /\ SimilarTo(s) = {}
  /\ structureSet' = structureSet \cup {s}
  /\ timesFound' = [timesFound EXCEPT ![s] = 1]
  /\ offered' = offered \cup {s}
  /\ UNCHANGED <<sent, dropped, gone>>

(* Mutant of DropDuplicate: the structure it is like is replaced by it. *)
DropDuplicateReplacing(s) ==
  /\ s \notin Arrived
  /\ \E t \in SimilarTo(s) :
       /\ structureSet' = (structureSet \ {t}) \cup {s}
       /\ timesFound' = [timesFound EXCEPT ![s] = timesFound[t] + 1]
       /\ dropped' = dropped \cup {t}
  /\ offered' = offered \cup {s}
  /\ UNCHANGED <<sent, gone>>

(* in, for a structure like one in the set: it is dropped and counted there. *)
DropDuplicate(s) ==
  /\ s \notin Arrived
  /\ \E t \in SimilarTo(s) : timesFound' = [timesFound EXCEPT ![t] = @ + 1]
  /\ dropped' = dropped \cup {s}
  /\ offered' = offered \cup {s}
  /\ UNCHANGED <<structureSet, sent, gone>>

HasData == structureSet # {}

Release ==
  /\ HasData
  /\ sent' = sent \cup structureSet
  /\ structureSet' = {}
  /\ offered' = {}
  /\ UNCHANGED <<timesFound, dropped, gone>>

(* Mutant of PipelineFinishing: the set is left as it is. *)
PipelineFinishingIdle ==
  /\ gone' = Arrived
  /\ offered' = {}
  /\ UNCHANGED <<structureSet, timesFound, sent, dropped>>

(* pipelineFinishing, before the engine frees the structures of the run. *)
PipelineFinishing ==
  /\ structureSet' = {}
  /\ gone' = Arrived
  /\ offered' = {}
  /\ UNCHANGED <<timesFound, sent, dropped>>

Next ==
  \/ \E s \in Structure : InsertUnique(s) \/ DropDuplicate(s)
  \/ Release
  \/ PipelineFinishing

Spec == Init /\ [][Next]_vars

------------------------------------------------------------------------------
(* The variables have their types; the set holds only structures of this
   batch that were neither given away nor freed. *)
TypeOK ==
  /\ structureSet \subseteq offered \ (sent \cup dropped \cup gone)
  /\ timesFound \in [Structure -> Nat]
  /\ sent \subseteq Structure
  /\ dropped \subseteq Structure
  /\ gone \subseteq Structure
  /\ offered \subseteq Structure

(* No two structures kept are similar, and every one of the batch is similar
   to one kept or is kept itself, in whatever order they came and though
   similarity is not transitive: a duplicate's original is never given up. *)
KeepsOneOfEach ==
  /\ \A s, t \in structureSet : s # t => <<s, t>> \notin Similar
  /\ \A s \in offered \ structureSet : SimilarTo(s) # {}

(* The counts add up to the structures that came, whatever they had been
   counted before. *)
CountsAddUp ==
  MapThenSumSet(LAMBDA s : timesFound[s], structureSet) = Cardinality(offered)
==============================================================================
