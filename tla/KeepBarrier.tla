----------------------------- MODULE KeepBarrier -----------------------------
(***************************************************************************)
(* What the barriers KeepTopN and KeepWithinXPercent share: structures     *)
(* grouped by their reduced composition and, in a group, ordered by the    *)
(* value of a property (enthalpy if nothing else is asked for), which may  *)
(* be taken per atom.  A value is a number of atoms and a total; values    *)
(* are compared without dividing.  Structures arrive in any order, from    *)
(* several threads when the engine has several: keep holds the block's     *)
(* mutex throughout, and what in does before it reads only the structure   *)
(* it was given, so that a call of in is one step.  The engine releases a  *)
(* barrier that has data.                                                  *)
(***************************************************************************)
EXTENDS Integers, Sequences, FiniteSets, SequencesExt

CONSTANTS
  Structure,    \* the structures that reach the block
  Formula,      \* getComposition: atoms of each of two species
  Property,     \* the value of myStructureProperty
  NoProperty,   \* a structure that does not have it
  UsePerAtom    \* myUsePerAtom

ASSUME StructureAssumption ==
  /\ IsFiniteSet(Structure)
  /\ Formula \in [Structure -> (Nat \X Nat) \ {<<0, 0>>}]
  /\ \A s \in Structure : Property[s] \in Int \/ Property[s] = NoProperty
  /\ UsePerAtom \in BOOLEAN

HasProperty(s) == Property[s] # NoProperty

(* AtomsFormula::reduce: both counts divided by their greatest common divisor. *)
Composition(s) ==
  LET a == Formula[s][1]
      b == Formula[s][2]
      divisors == {d \in 1..(a + b) : a % d = 0 /\ b % d = 0}
      gcd == CHOOSE d \in divisors : \A e \in divisors : e <= d
  IN <<a \div gcd, b \div gcd>>

Compositions == {Composition(s) : s \in Structure}

(* localValue is Property[s] / Weight(s). *)
Weight(s) == IF UsePerAtom THEN Formula[s][1] + Formula[s][2] ELSE 1

Lower(s, t) == Property[s] * Weight(t) < Property[t] * Weight(s)

(* multimap::insert: behind every structure that is not higher. *)
Inserted(order, s) ==
  InsertAt(order, Cardinality({k \in DOMAIN order : ~Lower(s, order[k])}) + 1, s)

(* myStructures[composition]: an order is made when it is first asked for. *)
OrderOf(structures, c) == IF c \in DOMAIN structures THEN structures[c] ELSE <<>>

WithOrder(structures, c, order) ==
  [d \in DOMAIN structures \cup {c} |-> IF d = c THEN order ELSE structures[d]]

Members(structures) == UNION {ToSet(structures[c]) : c \in DOMAIN structures}

(* s reached the block before t. *)
CameBefore(batch, s, t) ==
  \E j, k \in DOMAIN batch : j < k /\ batch[j] = s /\ batch[k] = t
VARIABLES
  structures,  \* myStructures
  sent,        \* structures given to out
  dropped,     \* structures given to drop
  batch        \* history: the structures offered since the last release, in order

barrierVars == <<structures, sent, dropped, batch>>

Held == Members(structures)
Arrived == ToSet(batch) \cup sent \cup dropped

BarrierInit ==
  /\ structures = << >>
  /\ sent = {}
  /\ dropped = {}
  /\ batch = <<>>

(* in, for a structure without the property: it is let through. *)
LetThrough(s) ==
  /\ s \notin Arrived
  /\ ~HasProperty(s)
  /\ sent' = sent \cup {s}
  /\ UNCHANGED <<structures, dropped, batch>>

HasData == DOMAIN structures # {}

(* Mutant of Release: only the first order is sent. *)
ReleaseFirstOrder ==
  /\ HasData
  /\ LET c == CHOOSE d \in DOMAIN structures : TRUE
     IN sent' = sent \cup ToSet(structures[c])
  /\ structures' = << >>
  /\ batch' = <<>>
  /\ UNCHANGED dropped

Release ==
  /\ HasData
  /\ sent' = sent \cup Held
  /\ structures' = << >>
  /\ batch' = <<>>
  /\ UNCHANGED dropped

------------------------------------------------------------------------------
(* A structure goes one way only: no structure is dropped and sent, none is
   held that was given away, and each of the batch is held or was dropped. *)
EachGoesOneWay ==
  /\ sent \cap dropped = {}
  /\ Held \cap (sent \cup dropped) = {}
  /\ ToSet(batch) \subseteq Held \cup dropped
==============================================================================
