------------------------------ MODULE SumProofs -------------------------------
(***************************************************************************)
(* Sums over finite sets, as the models take them with MapThenSumSet:      *)
(* that the recursive function behind a sum is there, and what follows.    *)
(* Induction is over sets, of sets or of numbers, that hold what is good:  *)
(* a set without a smallest element that is bad has no bad element.        *)
(***************************************************************************)
EXTENDS Integers, FiniteSetsExt, FiniteSetTheorems, WellFoundedInduction, TLAPS

(* The sum of f over S. *)
SumOf(f, S) == MapThenSumSet(LAMBDA x : f[x], S)

(* A set of subsets of S that has every subset all of whose proper subsets it
   has, has every subset. *)
LEMMA SubsetInduction ==
  ASSUME NEW S, IsFiniteSet(S), NEW Good,
         \A T \in SUBSET S : (\A U \in (SUBSET T) \ {T} : U \in Good) => T \in Good
  PROVE  \A T \in SUBSET S : T \in Good
<1> DEFINE Bad == {T \in SUBSET S : T \notin Good}
<1>1. SUFFICES ASSUME Bad # {}
               PROVE  FALSE
  OBVIOUS
<1>2. IsWellFoundedOn(StrictSubsetOrdering(S), SUBSET S)
  BY FS_StrictSubsetOrderingWellFounded, FS_FiniteSubsetsOfFinite
<1>3. PICK T \in Bad : \A U \in Bad : <<U, T>> \notin StrictSubsetOrdering(S)
  <2> HIDE DEF Bad
  <2>1. Bad \subseteq SUBSET S
    BY DEF Bad
  <2> QED
    BY <1>1, <1>2, <2>1, WFMin
<1>4. ASSUME NEW U \in (SUBSET T) \ {T}
      PROVE  U \in Good
  <2>1. U \in SUBSET S /\ <<U, T>> \in StrictSubsetOrdering(S)
    BY DEF StrictSubsetOrdering
  <2> QED
    BY <1>3, <2>1
<1>5. T \in SUBSET S /\ T \notin Good
  OBVIOUS
<1> QED
  BY <1>4, <1>5

(* A set that holds zero, and the successor of every number it holds, holds
   every number. *)
LEMMA NumberInduction ==
  ASSUME NEW Good, 0 \in Good, \A n \in Nat : n \in Good => n + 1 \in Good
  PROVE  \A n \in Nat : n \in Good
<1> DEFINE Bad == {n \in Nat : n \notin Good}
           Less == OpToRel(<, Nat)
<1>1. SUFFICES ASSUME Bad # {}
               PROVE  FALSE
  OBVIOUS
<1>2. \A j, k \in Nat : j < k => <<j, k>> \in Less
  BY DEF OpToRel
<1>3. IsWellFoundedOn(Less, Nat)
  BY NatLessThanWellFounded
<1>4. Bad \subseteq Nat
  OBVIOUS
<1>5. PICK n \in Bad : \A k \in Bad : <<k, n>> \notin Less
  <2> HIDE DEF Bad, Less
  <2> QED
    BY <1>1, <1>3, <1>4, WFMin
<1>6. n \in Nat /\ n # 0 /\ n - 1 \in Nat /\ n - 1 < n
  OBVIOUS
<1>7. n - 1 \in Good
  <2>1. n - 1 \notin Bad
    <3> HIDE DEF Bad, Less
    <3> QED
      BY <1>2, <1>5, <1>6
  <2> QED
    BY <1>6, <2>1
<1>8. (n - 1) + 1 = n
  BY <1>6
<1> QED
  BY <1>6, <1>7, <1>8

(* The element a sum takes out of a set first. *)
First(S) == CHOOSE x \in S : TRUE

(* g is the recursive function that sums f over the subsets of S. *)
Sums(g, f, S) ==
  g = [s \in SUBSET S |-> IF s = {} THEN 0 ELSE f[First(s)] + g[s \ {First(s)}]]

(* The function is there: one that is right on sets of up to n elements makes
   one that is right on sets of up to n + 1. *)
LEMMA SumsExists ==
  ASSUME NEW S, IsFiniteSet(S), NEW f
  PROVE  \E g : Sums(g, f, S)
<1> DEFINE Step(g) ==
             [s \in SUBSET S |-> IF s = {} THEN 0 ELSE f[First(s)] + g[s \ {First(s)}]]
           Right(g, n) == \A U \in SUBSET S : Cardinality(U) <= n => g[U] = Step(g)[U]
           Good == {n \in Nat : \E g : Right(g, n)}
<1>1. \A U \in SUBSET S :
        /\ Cardinality(U) \in Nat /\ Cardinality(U) <= Cardinality(S)
        /\ U # {} => /\ First(U) \in U
                     /\ Cardinality(U \ {First(U)}) = Cardinality(U) - 1
        /\ U = {} <=> Cardinality(U) = 0
  <2> TAKE U \in SUBSET S
  <2>1. IsFiniteSet(U) /\ Cardinality(U) <= Cardinality(S)
    BY FS_Subset
  <2>2. Cardinality(U) \in Nat /\ (U = {} <=> Cardinality(U) = 0)
    BY <2>1, FS_CardinalityType, FS_EmptySet
  <2>3. U # {} => First(U) \in U
    BY DEF First
  <2>4. ASSUME U # {}
        PROVE  Cardinality(U \ {First(U)}) = Cardinality(U) - 1
    BY <2>1, <2>3, <2>4, FS_RemoveElement
  <2> QED
    BY <2>1, <2>2, <2>3, <2>4
<1>2. 0 \in Good
  <2>1. \A U \in SUBSET S : Cardinality(U) <= 0 => U = {}
    <3> HIDE DEF Step, Right, Good
    <3> TAKE U \in SUBSET S
    <3>1. Cardinality(U) \in Nat /\ (U = {} <=> Cardinality(U) = 0)
      BY <1>1
    <3> QED
      BY <3>1
  <2>2. [V \in SUBSET S |-> 0][{}] = Step([V \in SUBSET S |-> 0])[{}]
    OBVIOUS
  <2>3. Right([V \in SUBSET S |-> 0], 0)
    BY <2>1, <2>2
  <2> QED
    BY <2>3
<1>3. ASSUME NEW n \in Nat, n \in Good
      PROVE  n + 1 \in Good
  <2>1. PICK g : Right(g, n)
    BY <1>3
  <2>2. ASSUME NEW U \in SUBSET S, Cardinality(U) <= n + 1, U # {}
        PROVE  Step(g)[U] = Step(Step(g))[U]
    <3> DEFINE V == U \ {First(U)}
    <3>1. V \in SUBSET S /\ Cardinality(V) <= n
      BY <1>1, <2>2
    <3>2. g[V] = Step(g)[V]
      BY <2>1, <3>1
    <3>3. Step(g)[U] = f[First(U)] + g[V] /\ Step(Step(g))[U] = f[First(U)] + Step(g)[V]
      BY <2>2
    <3> QED
      BY <3>2, <3>3
  <2>3. Step(g)[{}] = Step(Step(g))[{}]
    OBVIOUS
  <2>4. Right(Step(g), n + 1)
    BY <2>2, <2>3
  <2> QED
    <3> HIDE DEF Right, Step
    <3> QED
      BY <2>4
<1>4. Cardinality(S) \in Nat
  BY FS_CardinalityType
<1>5. Cardinality(S) \in Good
  <2> HIDE DEF Good
  <2> QED
    BY <1>2, <1>3, <1>4, NumberInduction
<1>6. PICK g : Right(g, Cardinality(S))
  BY <1>5
<1>7. \A U \in SUBSET S : Step(Step(g))[U] = Step(g)[U]
  <2> TAKE U \in SUBSET S
  <2>1. CASE U = {}
    BY <2>1
  <2>2. CASE U # {}
    <3>1. U \ {First(U)} \in SUBSET S /\ Cardinality(U \ {First(U)}) <= Cardinality(S)
      BY <1>1
    <3>2. g[U \ {First(U)}] = Step(g)[U \ {First(U)}]
      BY <1>6, <3>1
    <3> QED
      BY <2>2, <3>2
  <2> QED
    BY <2>1, <2>2
<1>8. Step(Step(g)) = Step(g)
  BY <1>7
<1> QED
  BY <1>8 DEF Sums

(* Two of them agree on the sets they share. *)
LEMMA SumsAgree ==
  ASSUME NEW S, IsFiniteSet(S), NEW T \in SUBSET S, NEW f,
         NEW g, Sums(g, f, S), NEW h, Sums(h, f, T)
  PROVE  \A U \in SUBSET T : g[U] = h[U]
<1> DEFINE Good == {U \in SUBSET T : g[U] = h[U]}
<1>1. IsFiniteSet(T)
  BY FS_Subset
<1>2. ASSUME NEW U \in SUBSET T, \A V \in (SUBSET U) \ {U} : V \in Good
      PROVE  U \in Good
  <2>1. CASE U = {}
    BY <2>1 DEF Sums
  <2>2. CASE U # {}
    <3>1. First(U) \in U
      BY <2>2 DEF First
    <3>2. g[U \ {First(U)}] = h[U \ {First(U)}]
      BY <1>2, <3>1
    <3>3. g[U] = f[First(U)] + g[U \ {First(U)}]
      BY <2>2 DEF Sums
    <3>4. h[U] = f[First(U)] + h[U \ {First(U)}]
      BY <2>2 DEF Sums
    <3> QED
      BY <3>2, <3>3, <3>4
  <2> QED
    BY <2>1, <2>2
<1>3. \A U \in SUBSET T : U \in Good
  <2> HIDE DEF Good
  <2> QED
    BY <1>1, <1>2, SubsetInduction
<1> QED
  BY <1>3

(* A sum is its function's value. *)
LEMMA SumIsChosen ==
  ASSUME NEW S, IsFiniteSet(S), NEW f
  PROVE  \E g : Sums(g, f, S) /\ SumOf(f, S) = g[S]
<1> DEFINE it == CHOOSE g : Sums(g, f, S)
<1>1. SumOf(f, S) = it[S]
  BY DEF SumOf, MapThenSumSet, MapThenFoldSet, Sums, First
<1>2. Sums(it, f, S)
  BY SumsExists
<1> QED
  BY <1>1, <1>2

(* The equation a sum is defined by. *)
LEMMA SumEquation ==
  ASSUME NEW S, IsFiniteSet(S), NEW f
  PROVE  /\ SumOf(f, {}) = 0
         /\ S # {} => /\ First(S) \in S
                      /\ SumOf(f, S) = f[First(S)] + SumOf(f, S \ {First(S)})
<1>1. SumOf(f, {}) = 0
  <2>1. IsFiniteSet({})
    BY FS_EmptySet
  <2>2. PICK g : Sums(g, f, {}) /\ SumOf(f, {}) = g[{}]
    BY <2>1, SumIsChosen
  <2> QED
    BY <2>2 DEF Sums
<1>2. ASSUME S # {}
      PROVE  First(S) \in S /\ SumOf(f, S) = f[First(S)] + SumOf(f, S \ {First(S)})
  <2> DEFINE T == S \ {First(S)}
  <2>1. First(S) \in S /\ T \in SUBSET S
    BY <1>2 DEF First
  <2>2. IsFiniteSet(T)
    BY <2>1, FS_Subset
  <2>3. PICK g : Sums(g, f, S) /\ SumOf(f, S) = g[S]
    BY SumIsChosen
  <2>4. PICK h : Sums(h, f, T) /\ SumOf(f, T) = h[T]
    <3> HIDE DEF T
    <3> QED
      BY <2>2, SumIsChosen
  <2>5. g[T] = h[T]
    <3> HIDE DEF T
    <3> QED
      BY <2>1, <2>3, <2>4, SumsAgree
  <2>6. g[S] = f[First(S)] + g[T]
    BY <1>2, <2>3 DEF Sums
  <2> QED
    BY <2>1, <2>3, <2>4, <2>5, <2>6
<1> QED
  BY <1>1, <1>2

(* A sum of numbers is a number. *)
LEMMA SumType ==
  ASSUME NEW S, IsFiniteSet(S), NEW f, \A x \in S : f[x] \in Nat
  PROVE  \A T \in SUBSET S : SumOf(f, T) \in Nat
<1> DEFINE Good == {T \in SUBSET S : SumOf(f, T) \in Nat}
<1>1. ASSUME NEW T \in SUBSET S, \A U \in (SUBSET T) \ {T} : U \in Good
      PROVE  T \in Good
  <2>1. IsFiniteSet(T)
    BY FS_Subset
  <2>2. CASE T = {}
    BY <2>1, <2>2, SumEquation
  <2>3. CASE T # {}
    <3>1. First(T) \in T /\ SumOf(f, T) = f[First(T)] + SumOf(f, T \ {First(T)})
      BY <2>1, <2>3, SumEquation
    <3>2. SumOf(f, T \ {First(T)}) \in Nat /\ f[First(T)] \in Nat
      BY <1>1, <3>1
    <3> QED
      BY <3>1, <3>2
  <2> QED
    BY <2>2, <2>3
<1>2. \A T \in SUBSET S : T \in Good
  <2> HIDE DEF Good
  <2> QED
    BY <1>1, SubsetInduction
<1> QED
  BY <1>2

(* Whichever element is taken out, its number and the rest make the sum. *)
LEMMA SumWithout ==
  ASSUME NEW S, IsFiniteSet(S), NEW f, \A x \in S : f[x] \in Nat
  PROVE  \A T \in SUBSET S : \A x \in T : SumOf(f, T) = f[x] + SumOf(f, T \ {x})
<1> DEFINE Good == {T \in SUBSET S : \A x \in T : SumOf(f, T) = f[x] + SumOf(f, T \ {x})}
<1>1. ASSUME NEW T \in SUBSET S, \A U \in (SUBSET T) \ {T} : U \in Good
      PROVE  T \in Good
  <2>1. IsFiniteSet(T)
    BY FS_Subset
  <2>2. ASSUME NEW x \in T
        PROVE  SumOf(f, T) = f[x] + SumOf(f, T \ {x})
    <3> DEFINE y == First(T)
               U == T \ {y}
               V == T \ {x}
    <3>1. y \in T /\ SumOf(f, T) = f[y] + SumOf(f, U)
      BY <2>1, SumEquation
    <3>2. CASE x = y
      BY <3>1, <3>2
    <3>3. CASE x # y
      <4>1. SumOf(f, U) = f[x] + SumOf(f, U \ {x})
        <5>1. U \in (SUBSET T) \ {T} /\ x \in U
          BY <3>1, <3>3
        <5> QED
          BY <1>1, <5>1
      <4>2. SumOf(f, V) = f[y] + SumOf(f, V \ {y})
        <5>1. V \in (SUBSET T) \ {T} /\ y \in V
          BY <3>1, <3>3
        <5> QED
          BY <1>1, <5>1
      <4>3. U \ {x} = V \ {y} /\ U \ {x} \in SUBSET S
        OBVIOUS
      <4>4. f[x] \in Nat /\ f[y] \in Nat /\ SumOf(f, U \ {x}) \in Nat
        <5> HIDE DEF U, V, y
        <5> QED
          BY <3>1, <4>3, SumType
      <4>5. SumOf(f, V \ {y}) = SumOf(f, U \ {x})
        BY <4>3
      <4> HIDE DEF U, V, y
      <4>6. SumOf(f, T) = f[x] + SumOf(f, V)
        BY <3>1, <4>1, <4>2, <4>4, <4>5
      <4> QED
        BY <4>6 DEF V
    <3> QED
      BY <3>2, <3>3
  <2> QED
    BY <2>2
<1>2. \A T \in SUBSET S : T \in Good
  <2> HIDE DEF Good
  <2> QED
    BY <1>1, SubsetInduction
<1> QED
  BY <1>2

(* No number is above the sum of all. *)
LEMMA SumBounds ==
  ASSUME NEW S, IsFiniteSet(S), NEW f, \A x \in S : f[x] \in Nat
  PROVE  SumOf(f, S) \in Nat /\ \A x \in S : f[x] <= SumOf(f, S)
<1>1. SumOf(f, S) \in Nat
  BY SumType
<1>2. ASSUME NEW x \in S
      PROVE  f[x] <= SumOf(f, S)
  <2>1. SumOf(f, S) = f[x] + SumOf(f, S \ {x})
    BY SumWithout
  <2>2. SumOf(f, S \ {x}) \in Nat
    BY SumType
  <2> QED
    BY <1>1, <2>1, <2>2
<1> QED
  BY <1>1, <1>2

(* The sum is over what f is on the set. *)
LEMMA SumSame ==
  ASSUME NEW S, IsFiniteSet(S), NEW f, NEW g, \A x \in S : f[x] = g[x]
  PROVE  \A T \in SUBSET S : SumOf(f, T) = SumOf(g, T)
<1> DEFINE Good == {T \in SUBSET S : SumOf(f, T) = SumOf(g, T)}
<1>1. ASSUME NEW T \in SUBSET S, \A U \in (SUBSET T) \ {T} : U \in Good
      PROVE  T \in Good
  <2>1. IsFiniteSet(T)
    BY FS_Subset
  <2>2. CASE T = {}
    BY <2>1, <2>2, SumEquation
  <2>3. CASE T # {}
    <3>1. /\ First(T) \in T
          /\ SumOf(f, T) = f[First(T)] + SumOf(f, T \ {First(T)})
          /\ SumOf(g, T) = g[First(T)] + SumOf(g, T \ {First(T)})
      BY <2>1, <2>3, SumEquation
    <3>2. SumOf(f, T \ {First(T)}) = SumOf(g, T \ {First(T)}) /\ f[First(T)] = g[First(T)]
      BY <1>1, <3>1
    <3> QED
      BY <3>1, <3>2
  <2> QED
    BY <2>2, <2>3
<1>2. \A T \in SUBSET S : T \in Good
  <2> HIDE DEF Good
  <2> QED
    BY <1>1, SubsetInduction
<1> QED
  BY <1>2
==============================================================================
