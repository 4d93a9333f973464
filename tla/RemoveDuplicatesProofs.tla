----------------------- MODULE RemoveDuplicatesProofs -----------------------
(***************************************************************************)
(* RemoveDuplicates keeps one structure of each kind, for every set of     *)
(* structures and every symmetric comparator.                              *)
(***************************************************************************)
EXTENDS RemoveDuplicates, SumProofs

(* The variables keep their types, whatever arrives and whenever the set is
   released or cleared. *)
THEOREM TypeCorrect == Spec => []TypeOK
<1>1. Init => TypeOK
  BY SimilarAssumption DEF Init, TypeOK
<1>2. TypeOK /\ [Next]_vars => TypeOK'
  <2> SUFFICES ASSUME TypeOK, [Next]_vars
               PROVE  TypeOK'
    OBVIOUS
  <2>1. ASSUME NEW s \in Structure, InsertUnique(s)
        PROVE  TypeOK'
    BY <2>1 DEF TypeOK, InsertUnique, Arrived
  <2>2. ASSUME NEW s \in Structure, DropDuplicate(s)
        PROVE  TypeOK'
    <3>1. s \notin structureSet
      BY <2>2 DEF TypeOK, DropDuplicate, Arrived
    <3>2. structureSet' \subseteq offered' \ (sent' \cup dropped' \cup gone')
      BY <2>2, <3>1 DEF TypeOK, DropDuplicate
    <3>3. timesFound' \in [Structure -> Nat]
      <4>1. PICK t \in SimilarTo(s) : timesFound' = [timesFound EXCEPT ![t] = @ + 1]
        BY <2>2 DEF DropDuplicate
      <4>2. t \in Structure /\ timesFound[t] + 1 \in Nat
        BY DEF TypeOK, SimilarTo
      <4> QED
        BY <4>1, <4>2 DEF TypeOK
    <3> QED
      BY <2>2, <3>2, <3>3 DEF TypeOK, DropDuplicate
  <2>3. CASE Release
    BY <2>3 DEF TypeOK, Release
  <2>4. CASE PipelineFinishing
    BY <2>4 DEF TypeOK, PipelineFinishing, Arrived
  <2>5. CASE UNCHANGED vars
    BY <2>5 DEF TypeOK, vars
  <2> QED
    BY <2>1, <2>2, <2>3, <2>4, <2>5 DEF Next
<1> QED
  BY <1>1, <1>2, PTL DEF Spec

(* Whatever the order of arrival, no two structures kept are similar and every
   structure of the batch is kept or similar to one kept.  The comparator need
   be symmetric, and nothing else. *)
THEOREM OneOfEachAlways == Spec => []KeepsOneOfEach
<1>1. Init => KeepsOneOfEach
  BY DEF Init, KeepsOneOfEach
<1>2. TypeOK /\ KeepsOneOfEach /\ [Next]_vars => KeepsOneOfEach'
  <2> SUFFICES ASSUME TypeOK, KeepsOneOfEach, [Next]_vars
               PROVE  KeepsOneOfEach'
    OBVIOUS
  <2>1. ASSUME NEW s \in Structure, InsertUnique(s)
        PROVE  KeepsOneOfEach'
    <3>1. \A t \in structureSet : <<s, t>> \notin Similar /\ <<t, s>> \notin Similar
      BY <2>1, SimilarAssumption DEF InsertUnique, SimilarTo, TypeOK
    <3>2. \A t, u \in structureSet' : t # u => <<t, u>> \notin Similar
      BY <2>1, <3>1 DEF InsertUnique, KeepsOneOfEach
    <3>3. \A t \in offered' \ structureSet' : SimilarTo(t)' # {}
      BY <2>1 DEF InsertUnique, KeepsOneOfEach, SimilarTo
    <3> QED
      BY <3>2, <3>3 DEF KeepsOneOfEach
  <2>2. ASSUME NEW s \in Structure, DropDuplicate(s)
        PROVE  KeepsOneOfEach'
    BY <2>2 DEF DropDuplicate, KeepsOneOfEach, SimilarTo
  <2>3. CASE Release
    BY <2>3 DEF Release, KeepsOneOfEach
  <2>4. CASE PipelineFinishing
    BY <2>4 DEF PipelineFinishing, KeepsOneOfEach
  <2>5. CASE UNCHANGED vars
    BY <2>5 DEF vars, KeepsOneOfEach, SimilarTo
  <2> QED
    BY <2>1, <2>2, <2>3, <2>4, <2>5 DEF Next
<1> QED
  BY <1>1, <1>2, TypeCorrect, PTL DEF Spec

(* A structure that is kept begins with a count of one. *)
LEMMA InsertCounts ==
  ASSUME TypeOK, CountsAddUp, NEW s \in Structure, InsertUnique(s)
  PROVE  SumOf(timesFound', structureSet') = Cardinality(offered')
<1>1. SumOf(timesFound, structureSet) = Cardinality(offered)
  BY DEF CountsAddUp, SumOf
<1>2. /\ s \notin structureSet /\ s \notin offered
      /\ structureSet \subseteq Structure /\ offered \subseteq Structure
  BY DEF TypeOK, InsertUnique, Arrived
<1>3. /\ structureSet' = structureSet \cup {s} /\ offered' = offered \cup {s}
      /\ timesFound' = [timesFound EXCEPT ![s] = 1]
  BY DEF InsertUnique
<1>4. /\ timesFound' \in [Structure -> Nat] /\ timesFound'[s] = 1
      /\ \A x \in structureSet : timesFound'[x] = timesFound[x]
  BY <1>2, <1>3 DEF TypeOK
<1>5. IsFiniteSet(structureSet') /\ IsFiniteSet(structureSet) /\ IsFiniteSet(offered)
  BY <1>2, <1>3, SimilarAssumption, FS_Subset
<1>6. SumOf(timesFound', structureSet') = 1 + SumOf(timesFound', structureSet)
  <2>1. \A x \in structureSet' : timesFound'[x] \in Nat
    BY <1>2, <1>3, <1>4
  <2>2. SumOf(timesFound', structureSet')
          = timesFound'[s] + SumOf(timesFound', structureSet' \ {s})
    <3>1. structureSet' \in SUBSET structureSet' /\ s \in structureSet'
      BY <1>3
    <3> QED
      BY <1>5, <2>1, <3>1, SumWithout
  <2>3. structureSet' \ {s} = structureSet
    BY <1>2, <1>3
  <2> QED
    BY <1>4, <2>2, <2>3
<1>7. SumOf(timesFound', structureSet) = SumOf(timesFound, structureSet)
  BY <1>4, <1>5, SumSame
<1>8. Cardinality(offered') = Cardinality(offered) + 1 /\ Cardinality(offered) \in Nat
  BY <1>2, <1>3, <1>5, FS_AddElement, FS_CardinalityType
<1> QED
  BY <1>1, <1>6, <1>7, <1>8

(* A structure that is dropped adds one to the count of a structure kept. *)
LEMMA DropCounts ==
  ASSUME TypeOK, CountsAddUp, NEW s \in Structure, DropDuplicate(s)
  PROVE  SumOf(timesFound', structureSet') = Cardinality(offered')
<1>1. SumOf(timesFound, structureSet) = Cardinality(offered)
  BY DEF CountsAddUp, SumOf
<1>2. PICK t \in SimilarTo(s) : timesFound' = [timesFound EXCEPT ![t] = @ + 1]
  BY DEF DropDuplicate
<1>3. /\ s \notin offered /\ t \in structureSet
      /\ structureSet \subseteq Structure /\ offered \subseteq Structure
      /\ structureSet' = structureSet /\ offered' = offered \cup {s}
  BY <1>2 DEF TypeOK, DropDuplicate, Arrived, SimilarTo
<1>4. /\ timesFound' \in [Structure -> Nat] /\ timesFound \in [Structure -> Nat]
      /\ timesFound'[t] = timesFound[t] + 1
      /\ \A x \in structureSet \ {t} : timesFound'[x] = timesFound[x]
  BY <1>2, <1>3 DEF TypeOK
<1>5. IsFiniteSet(structureSet) /\ IsFiniteSet(structureSet \ {t}) /\ IsFiniteSet(offered)
  BY <1>3, SimilarAssumption, FS_Subset
<1>6. /\ \A x \in structureSet : timesFound'[x] \in Nat /\ timesFound[x] \in Nat
      /\ timesFound[t] \in Nat
  BY <1>3, <1>4
<1>7. SumOf(timesFound', structureSet)
        = timesFound'[t] + SumOf(timesFound', structureSet \ {t})
  BY <1>3, <1>5, <1>6, SumWithout
<1>8. SumOf(timesFound, structureSet) = timesFound[t] + SumOf(timesFound, structureSet \ {t})
  BY <1>3, <1>5, <1>6, SumWithout
<1>9. SumOf(timesFound', structureSet \ {t}) = SumOf(timesFound, structureSet \ {t})
  BY <1>4, <1>5, SumSame
<1>10. SumOf(timesFound, structureSet \ {t}) \in Nat
  BY <1>5, <1>6, SumType
<1>11. Cardinality(offered') = Cardinality(offered) + 1 /\ Cardinality(offered) \in Nat
  BY <1>3, <1>5, FS_AddElement, FS_CardinalityType
<1> QED
  BY <1>1, <1>3, <1>4, <1>6, <1>7, <1>8, <1>9, <1>10, <1>11

(* The counts of the structures kept add up to the number of structures of the
   batch, whatever each had been counted by a block before and whichever of
   several similar ones a duplicate is counted on. *)
THEOREM CountsAlways == Spec => []CountsAddUp
<1>1. CountsAddUp <=> SumOf(timesFound, structureSet) = Cardinality(offered)
  BY DEF CountsAddUp, SumOf
<1>2. CountsAddUp' <=> SumOf(timesFound', structureSet') = Cardinality(offered')
  BY DEF CountsAddUp, SumOf, MapThenSumSet, MapThenFoldSet
<1>3. \A f : SumOf(f, {}) = Cardinality({})
  BY SumEquation, FS_EmptySet
<1>4. Init => CountsAddUp
  BY <1>1, <1>3 DEF Init
<1>5. TypeOK /\ CountsAddUp /\ [Next]_vars => CountsAddUp'
  <2> SUFFICES ASSUME TypeOK, CountsAddUp, [Next]_vars
               PROVE  CountsAddUp'
    OBVIOUS
  <2>1. ASSUME NEW s \in Structure, InsertUnique(s)
        PROVE  CountsAddUp'
    BY <1>2, <2>1, InsertCounts
  <2>2. ASSUME NEW s \in Structure, DropDuplicate(s)
        PROVE  CountsAddUp'
    BY <1>2, <2>2, DropCounts
  <2>3. CASE Release
    BY <1>2, <1>3, <2>3 DEF Release
  <2>4. CASE PipelineFinishing
    BY <1>2, <1>3, <2>4 DEF PipelineFinishing
  <2>5. CASE UNCHANGED vars
    BY <1>1, <1>2, <2>5 DEF vars
  <2> QED
    BY <2>1, <2>2, <2>3, <2>4, <2>5 DEF Next
<1> QED
  BY <1>4, <1>5, TypeCorrect, PTL DEF Spec
==============================================================================
