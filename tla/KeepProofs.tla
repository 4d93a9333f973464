----------------------------- MODULE KeepProofs -----------------------------
(***************************************************************************)
(* KeepTopN holds the best N of each composition, KeepWithinXPercent what  *)
(* is within the cutoff of the lowest value, and each gives a structure    *)
(* away once: for any structures, any values, any N and any myKeepPercent.  *)
(***************************************************************************)
EXTENDS KeepTopN, KeepWithinXPercent, KeepBarrierProofs

(* The order of composition c: structures of the batch, the better ones first,
   no more than N of them, and none only if N is zero. *)
TopNOrdered(b, o, c) ==
  /\ o \in Seq(Structure)
  /\ Len(o) \in 0..KeepN
  /\ KeepN > 0 => Len(o) > 0
  /\ \A k \in DOMAIN o : o[k] \in ToSet(b) /\ Composition(o[k]) = c
  /\ \A j, k \in DOMAIN o : j < k => Beats(b, o[j], o[k])

(* t has no place in the order: N others beat it. *)
BeatenOut(b, o, t) ==
  /\ t \notin ToSet(o)
  /\ Len(o) = KeepN
  /\ \A u \in ToSet(o) : Beats(b, u, t)

(* What keep makes of an order, and what it drops. *)
Grown(o, s) ==
  IF Len(Inserted(o, s)) > KeepN THEN Front(Inserted(o, s)) ELSE Inserted(o, s)

(* keep leaves an order; what it drops is beaten by all that stay. *)
LEMMA KeptOrder ==
  ASSUME NEW b, Batch(b), NEW s \in Structure, HasProperty(s), s \notin ToSet(b),
         NEW o, o = <<>> \/ TopNOrdered(b, o, Composition(s))
  PROVE  /\ TopNOrdered(Append(b, s), Grown(o, s), Composition(s))
         /\ Len(o) = KeepN => Len(Inserted(o, s)) > KeepN
         /\ ~(Len(Inserted(o, s)) > KeepN) => ToSet(Grown(o, s)) = ToSet(o) \cup {s}
         /\ Len(Inserted(o, s)) > KeepN =>
              /\ ToSet(o) \cup {s} = ToSet(Grown(o, s)) \cup {Last(Inserted(o, s))}
              /\ BeatenOut(Append(b, s), Grown(o, s), Last(Inserted(o, s)))
<1> DEFINE n == Len(o)
           new == Inserted(o, s)
           c == Append(b, s)
<1>1. /\ o \in Seq(Structure) /\ n \in Nat /\ n <= KeepN /\ DOMAIN o = 1..n
      /\ \A k \in DOMAIN o : o[k] \in ToSet(b) /\ Composition(o[k]) = Composition(s)
      /\ \A j, k \in DOMAIN o : j < k => Beats(b, o[j], o[k])
  <2>1. CASE o = <<>>
    <3>1. o \in Seq(Structure) /\ n = 0 /\ DOMAIN o = 1..0
      BY <2>1
    <3> QED
      BY <3>1, KeepAssumption
  <2>2. CASE TopNOrdered(b, o, Composition(s))
    BY <2>2, LenProperties, KeepAssumption DEF TopNOrdered
  <2> QED
    BY <2>1, <2>2
<1>2. /\ new \in Seq(Structure) /\ Len(new) = n + 1
      /\ ToSet(new) = ToSet(o) \cup {s}
      /\ \A j, k \in DOMAIN new : j < k => Beats(c, new[j], new[k])
  BY <1>1, InsertedInOrder
<1> HIDE DEF n, new
<1>3. DOMAIN new = 1..(n + 1)
  BY <1>2, LenProperties
<1>4. ToSet(c) = ToSet(b) \cup {s} /\ Batch(c)
  BY BatchGrows
<1> HIDE DEF c
<1>5. \A k \in 1..(n + 1) : new[k] \in ToSet(c) /\ Composition(new[k]) = Composition(s)
  <2>1. \A x \in ToSet(o) : x \in ToSet(b) /\ Composition(x) = Composition(s)
    BY <1>1 DEF ToSet
  <2>2. \A k \in 1..(n + 1) : new[k] \in ToSet(o) \cup {s}
    BY <1>2, <1>3 DEF ToSet
  <2> QED
    BY <1>4, <2>1, <2>2
<1>6. CASE ~(Len(new) > KeepN)
  <2>1. Grown(o, s) = new
    BY <1>6 DEF Grown, new
  <2>2. Len(new) \in 0..KeepN /\ Len(new) > 0 /\ n # KeepN
    BY <1>1, <1>2, <1>6, KeepAssumption
  <2>3. TopNOrdered(c, new, Composition(s))
    BY <1>2, <1>3, <1>5, <2>2 DEF TopNOrdered
  <2> QED
    BY <1>2, <1>6, <2>1, <2>2, <2>3 DEF c, n, new
<1>7. CASE Len(new) > KeepN
  <2> DEFINE front == Front(new)
             last == Last(new)
  <2>1. n = KeepN /\ n \in Nat
    BY <1>1, <1>2, <1>7, KeepAssumption
  <2>2. Grown(o, s) = front
    BY <1>7 DEF Grown, new
  <2>3. /\ front \in Seq(Structure) /\ Len(front) = n
        /\ \A i \in 1..n : front[i] = new[i]
        /\ last = new[n + 1]
    BY <1>1, <1>2, FrontAndLast
  <2> HIDE DEF front, last
  <2>4. DOMAIN front = 1..n
    BY <2>3, LenProperties
  <2>5. \A k \in 1..n : k \in 1..(n + 1) /\ k < n + 1 /\ n + 1 \in 1..(n + 1)
    BY <1>1
  <2>6. TopNOrdered(c, front, Composition(s))
    <3>1. Len(front) \in 0..KeepN /\ (KeepN > 0 => Len(front) > 0)
      BY <2>1, <2>3
    <3>2. \A k \in 1..n : front[k] \in ToSet(c) /\ Composition(front[k]) = Composition(s)
      BY <1>5, <2>3, <2>5
    <3>3. \A j, k \in 1..n : j < k => Beats(c, front[j], front[k])
      BY <1>2, <1>3, <2>3, <2>5
    <3> QED
      BY <2>3, <2>4, <3>1, <3>2, <3>3 DEF TopNOrdered
  <2>7. \A x \in ToSet(new) : x \in ToSet(front) \/ x = last
    <3>1. \A k \in 1..(n + 1) : k \in 1..n \/ k = n + 1
      BY <1>1
    <3> QED
      BY <1>3, <2>3, <2>4, <3>1 DEF ToSet
  <2>8. last \in ToSet(new) /\ \A x \in ToSet(front) : x \in ToSet(new)
    <3>1. n + 1 \in 1..(n + 1)
      BY <1>1
    <3> QED
      BY <1>3, <2>3, <2>4, <2>5, <3>1 DEF ToSet
  <2>9. \A u \in ToSet(front) : Beats(c, u, last)
    <3>1. \A k \in 1..n : Beats(c, new[k], new[n + 1])
      BY <1>2, <1>3, <2>5
    <3> QED
      BY <2>3, <2>4, <3>1 DEF ToSet
  <2>10. last \in ToSet(c)
    <3>1. n + 1 \in 1..(n + 1)
      BY <1>1
    <3> QED
      BY <1>5, <2>3, <3>1
  <2>11. ~Beats(c, last, last)
    BY <1>4, <2>10, BeatsOrder
  <2>12. BeatenOut(c, front, last)
    BY <2>1, <2>3, <2>9, <2>11 DEF BeatenOut
  <2>13. ToSet(o) \cup {s} = ToSet(front) \cup {last}
    BY <1>2, <2>7, <2>8
  <2> QED
    BY <1>7, <2>2, <2>6, <2>12, <2>13 DEF c, n, new, last
<1> QED
  BY <1>6, <1>7

------------------------------------------------------------------------------
(* The inductive invariant.  Every order is that of the batch, and a structure
   of the batch that is not in its order was dropped and is beaten by N others
   that are: this is what makes the early drop right, since those N only get
   better.  *)
TopNAllOrdered ==
  \A c \in DOMAIN structures : c \in Compositions /\ TopNOrdered(batch, structures[c], c)

TopNNoneForgotten ==
  \A t \in ToSet(batch) :
    /\ Composition(t) \in DOMAIN structures
    /\ \/ t \in ToSet(structures[Composition(t)])
       \/ t \in dropped /\ BeatenOut(batch, structures[Composition(t)], t)

TopNApart ==
  /\ sent \subseteq Structure
  /\ dropped \subseteq Structure
  /\ sent \cap dropped = {}
  /\ Held \cap dropped = {}
  /\ ToSet(batch) \cap sent = {}

TopNIInv == Batch(batch) /\ TopNAllOrdered /\ TopNNoneForgotten /\ TopNApart

(* The elements of an order are those of its sequence. *)
LEMMA TopNHeldAre ==
  ASSUME TopNIInv
  PROVE  /\ \A t : t \in Held <=> \E c \in DOMAIN structures : t \in ToSet(structures[c])
         /\ \A c \in DOMAIN structures : \A t \in ToSet(structures[c]) :
              t \in ToSet(batch) /\ Composition(t) = c /\ t \in Structure
<1>1. \A t : t \in Held <=> \E c \in DOMAIN structures : t \in ToSet(structures[c])
  BY DEF Held, Members
<1>2. ASSUME NEW c \in DOMAIN structures, NEW t \in ToSet(structures[c])
      PROVE  t \in ToSet(batch) /\ Composition(t) = c /\ t \in Structure
  <2>1. \A k \in DOMAIN structures[c] :
          structures[c][k] \in ToSet(batch) /\ Composition(structures[c][k]) = c
    BY DEF TopNIInv, TopNAllOrdered, TopNOrdered
  <2>2. t \in ToSet(batch) /\ Composition(t) = c
    BY <2>1 DEF ToSet
  <2> QED
    BY <2>2 DEF TopNIInv, Batch
<1> QED
  BY <1>1, <1>2

LEMMA TopNInitIInv == TopNInit => TopNIInv
<1> SUFFICES ASSUME TopNInit PROVE TopNIInv
  OBVIOUS
<1>1. DOMAIN structures = {} /\ ToSet(batch) = {} /\ batch \in Seq(Structure) /\ DOMAIN batch = {}
  BY DEF TopNInit, BarrierInit, ToSet
<1>2. Held = {}
  BY <1>1 DEF Held, Members
<1> QED
  BY <1>1, <1>2 DEF TopNInit, BarrierInit, TopNIInv, Batch, TopNAllOrdered, TopNNoneForgotten, TopNApart

LEMMA TopNLetThroughIInv ==
  ASSUME TopNIInv, NEW s \in Structure, LetThrough(s)
  PROVE  TopNIInv'
<1>1. structures' = structures /\ batch' = batch /\ dropped' = dropped /\ sent' = sent \cup {s}
  BY DEF LetThrough
<1>2. s \notin ToSet(batch) /\ s \notin dropped
  BY DEF LetThrough, Arrived
<1>3. Held' = Held
  BY <1>1 DEF Held
<1>4. (Batch(batch) /\ TopNAllOrdered /\ TopNNoneForgotten)'
  BY <1>1 DEF TopNIInv, TopNAllOrdered, TopNNoneForgotten
<1>5. TopNApart'
  BY <1>1, <1>2, <1>3 DEF TopNIInv, TopNApart
<1> QED
  BY <1>4, <1>5 DEF TopNIInv

LEMMA TopNReleaseIInv ==
  ASSUME TopNIInv, Release
  PROVE  TopNIInv'
<1>1. structures' = << >> /\ batch' = <<>> /\ dropped' = dropped /\ sent' = sent \cup Held
  BY DEF Release
<1>2. /\ (DOMAIN structures)' = {} /\ ToSet(batch') = {}
      /\ batch' \in Seq(Structure) /\ DOMAIN batch' = {}
  BY <1>1 DEF ToSet
<1>3. Held' = {}
  BY <1>2 DEF Held, Members
<1>4. Held \subseteq Structure
  BY TopNHeldAre
<1>5. (Batch(batch) /\ TopNAllOrdered /\ TopNNoneForgotten)'
  BY <1>2 DEF Batch, TopNAllOrdered, TopNNoneForgotten
<1>6. TopNApart'
  BY <1>1, <1>2, <1>3, <1>4 DEF TopNIInv, TopNApart
<1> QED
  BY <1>5, <1>6 DEF TopNIInv

LEMMA KeepIInv ==
  ASSUME TopNIInv, NEW s \in Structure, Keep(s)
  PROVE  TopNIInv'
<1> DEFINE c == Composition(s)
           o == OrderOf(structures, c)
           new == Grown(o, s)
           over == Len(Inserted(o, s)) > KeepN
           last == Last(Inserted(o, s))
<1>1. /\ s \notin Arrived /\ HasProperty(s)
      /\ structures' = WithOrder(structures, c, new)
      /\ dropped' = IF over THEN dropped \cup {last} ELSE dropped
      /\ batch' = Append(batch, s)
      /\ sent' = sent
  BY Zenon DEF Keep, Grown
<1>2. s \notin ToSet(batch) /\ s \notin sent /\ s \notin dropped
  BY <1>1 DEF Arrived
<1>3. o = <<>> \/ TopNOrdered(batch, o, c)
  BY DEF TopNIInv, TopNAllOrdered, OrderOf
<1>4. /\ TopNOrdered(batch', new, c)
      /\ Len(o) = KeepN => over
      /\ ~over => ToSet(new) = ToSet(o) \cup {s}
      /\ over => ToSet(o) \cup {s} = ToSet(new) \cup {last} /\ BeatenOut(batch', new, last)
  <2>1. Batch(batch)
    BY DEF TopNIInv
  <2> QED
    BY <1>1, <1>2, <1>3, <2>1, KeptOrder
<1>5. /\ Batch(batch') /\ ToSet(batch') = ToSet(batch) \cup {s}
      /\ \A t, r \in ToSet(batch) : Beats(batch', t, r) <=> Beats(batch, t, r)
  BY <1>1, <1>2, BatchGrows DEF TopNIInv
<1>6. /\ DOMAIN structures' = DOMAIN structures \cup {c}
      /\ structures'[c] = new
      /\ \A d \in DOMAIN structures : d # c => structures'[d] = structures[d]
  BY <1>1 DEF WithOrder
<1>7. \A t \in ToSet(o) : t \in ToSet(batch) /\ Composition(t) = c /\ t \in Held
  <2>1. CASE c \in DOMAIN structures
    BY <2>1, TopNHeldAre DEF OrderOf
  <2>2. CASE c \notin DOMAIN structures
    <3>1. o = <<>>
      BY <2>2 DEF OrderOf
    <3>2. ToSet(<<>>) = {}
      BY DEF ToSet
    <3> QED
      BY <3>1, <3>2
  <2> QED
    BY <2>1, <2>2
<1> HIDE DEF o, new, over, last
<1>8. /\ \A t \in ToSet(new) : (t \in ToSet(o) \/ t = s) /\ t \in ToSet(batch') /\ Composition(t) = c
      /\ over => (last \in ToSet(o) \/ last = s) /\ last \in ToSet(batch') /\ Composition(last) = c
  <2>1. /\ \A t \in ToSet(new) : t \in ToSet(o) \/ t = s
        /\ over => (last \in ToSet(o) \/ last = s)
    BY <1>4
  <2> QED
    BY <1>5, <1>7, <2>1
<1>9. TopNAllOrdered'
  <2> SUFFICES ASSUME NEW d \in DOMAIN structures'
               PROVE  d \in Compositions /\ TopNOrdered(batch', structures'[d], d)
    BY DEF TopNAllOrdered
  <2>1. CASE d = c
    BY <1>4, <1>6, <2>1 DEF Compositions
  <2>2. CASE d # c
    <3>1. d \in DOMAIN structures /\ structures'[d] = structures[d]
      BY <1>6, <2>2
    <3>2. d \in Compositions /\ TopNOrdered(batch, structures[d], d)
      BY <3>1 DEF TopNIInv, TopNAllOrdered
    <3>3. TopNOrdered(batch', structures[d], d)
      BY <1>5, <3>2 DEF TopNOrdered
    <3> QED
      BY <3>1, <3>2, <3>3
  <2> QED
    BY <2>1, <2>2
<1>10. TopNNoneForgotten'
  <2> SUFFICES ASSUME NEW t \in ToSet(batch')
               PROVE  /\ Composition(t) \in DOMAIN structures'
                      /\ \/ t \in ToSet(structures'[Composition(t)])
                         \/ /\ t \in dropped'
                            /\ BeatenOut(batch', structures'[Composition(t)], t)
    BY DEF TopNNoneForgotten
  <2>1. ASSUME t \in ToSet(o) \/ t = s
        PROVE  t \in ToSet(new) \/ (t \in dropped' /\ BeatenOut(batch', new, t))
    BY <1>1, <1>4, <2>1 DEF over, last, o
  <2>2. CASE t = s
    BY <1>6, <2>1, <2>2
  <2>3. CASE t # s
    <3>1. /\ t \in ToSet(batch) /\ Composition(t) \in DOMAIN structures
          /\ \/ t \in ToSet(structures[Composition(t)])
             \/ t \in dropped /\ BeatenOut(batch, structures[Composition(t)], t)
      BY <1>5, <2>3 DEF TopNIInv, TopNNoneForgotten
    <3>2. t \in dropped => t \in dropped'
      BY <1>1
    <3>3. CASE Composition(t) # c
      <4>1. /\ structures'[Composition(t)] = structures[Composition(t)]
            /\ Composition(t) \in DOMAIN structures'
        BY <1>6, <3>1, <3>3
      <4>2. \A u \in ToSet(structures[Composition(t)]) : u \in ToSet(batch)
        BY <3>1, TopNHeldAre
      <4>3. BeatenOut(batch, structures[Composition(t)], t) =>
              BeatenOut(batch', structures[Composition(t)], t)
        BY <1>5, <3>1, <4>2 DEF BeatenOut
      <4> QED
        BY <3>1, <3>2, <4>1, <4>3
    <3>4. CASE Composition(t) = c
      <4>1. structures[Composition(t)] = o
        BY <3>1, <3>4 DEF o, OrderOf
      <4>2. CASE t \in ToSet(o)
        BY <1>6, <2>1, <3>4, <4>2
      <4>3. CASE t \in dropped /\ BeatenOut(batch, o, t)
        <5>1. over
          BY <1>4, <4>3 DEF BeatenOut
        <5>2. t \notin ToSet(new) /\ Len(new) = KeepN
          BY <1>4, <1>8, <2>3, <4>3, <5>1 DEF BeatenOut
        <5>3. \A u \in ToSet(o) : Beats(batch', u, t)
          BY <1>5, <1>7, <3>1, <4>3 DEF BeatenOut
        <5>4. s \in ToSet(new) => Beats(batch', s, t)
          <6> SUFFICES ASSUME s \in ToSet(new) PROVE Beats(batch', s, t)
            OBVIOUS
          <6>1. Beats(batch', s, last) /\ last # s
            BY <1>4, <5>1 DEF BeatenOut
          <6>2. Beats(batch', last, t)
            BY <1>8, <5>1, <5>3, <6>1
          <6>3. s \in ToSet(batch') /\ last \in ToSet(batch') /\ Batch(batch')
            BY <1>5, <1>8, <5>1
          <6> QED
            BY <6>1, <6>2, <6>3, BeatsOrder
        <5>5. BeatenOut(batch', new, t)
          BY <1>8, <5>2, <5>3, <5>4 DEF BeatenOut
        <5> QED
          BY <1>6, <3>2, <3>4, <4>3, <5>5
      <4> QED
        BY <3>1, <4>1, <4>2, <4>3
    <3> QED
      BY <3>3, <3>4
  <2> QED
    BY <2>2, <2>3
<1>11. TopNApart'
  <2>1. over => last \in Structure /\ last \notin sent
    BY <1>2, <1>5, <1>8 DEF TopNIInv, TopNApart, Batch
  <2>2. ASSUME NEW t \in Held'
        PROVE  t \notin dropped'
    <3>1. PICK d \in DOMAIN structures' : t \in ToSet(structures'[d])
      BY <2>2 DEF Held, Members
    <3>2. CASE d = c
      <4>1. t \in ToSet(new)
        BY <1>6, <3>1, <3>2
      <4>2. t \notin dropped
        BY <1>2, <1>7, <1>8, <4>1 DEF TopNIInv, TopNApart
      <4>3. over => t # last
        BY <1>4, <4>1 DEF BeatenOut
      <4> QED
        BY <1>1, <4>2, <4>3 DEF over, last, o
    <3>3. CASE d # c
      <4>1. d \in DOMAIN structures /\ t \in ToSet(structures[d])
        BY <1>6, <3>1, <3>3
      <4>2. t \in Held /\ Composition(t) # c
        BY <3>3, <4>1, TopNHeldAre
      <4>3. t \notin dropped /\ (over => t # last)
        BY <1>8, <4>2 DEF TopNIInv, TopNApart
      <4> QED
        BY <1>1, <4>3 DEF over, last, o
    <3> QED
      BY <3>2, <3>3
  <2>3. dropped' \subseteq Structure /\ sent' \cap dropped' = {}
    BY <1>1, <2>1 DEF TopNIInv, TopNApart, over, last, o
  <2>4. ToSet(batch') \cap sent' = {} /\ sent' \subseteq Structure
    BY <1>1, <1>2, <1>5 DEF TopNIInv, TopNApart
  <2> QED
    BY <2>2, <2>3, <2>4 DEF TopNApart
<1> QED
  BY <1>5, <1>9, <1>10, <1>11 DEF TopNIInv

(* The inductive invariant holds in every run. *)
THEOREM TopNAlwaysIInv == TopNSpec => []TopNIInv
<1>1. TopNInit => TopNIInv
  BY TopNInitIInv
<1>2. TopNIInv /\ [TopNNext]_barrierVars => TopNIInv'
  <2> SUFFICES ASSUME TopNIInv, [TopNNext]_barrierVars PROVE TopNIInv'
    OBVIOUS
  <2>1. CASE \E s \in Structure : LetThrough(s)
    BY <2>1, TopNLetThroughIInv
  <2>2. CASE \E s \in Structure : Keep(s)
    BY <2>2, KeepIInv
  <2>3. CASE Release
    BY <2>3, TopNReleaseIInv
  <2>4. CASE UNCHANGED barrierVars
    BY <2>4 DEF barrierVars, TopNIInv, TopNAllOrdered, TopNNoneForgotten, TopNApart, Held
  <2> QED
    BY <2>1, <2>2, <2>3, <2>4 DEF TopNNext
<1> QED
  BY <1>1, <1>2, PTL DEF TopNSpec

(* The rivals of a held structure are before it in its order; those of a
   structure that was dropped are all of its order, which is full. *)
LEMMA HeldTopN == TopNIInv => HeldIsTopN
<1> SUFFICES ASSUME TopNIInv, NEW s \in ToSet(batch)
             PROVE  s \in Held <=> Cardinality(Rivals(s)) < KeepN
  BY DEF HeldIsTopN
<1> DEFINE o == structures[Composition(s)]
<1>1. /\ Composition(s) \in DOMAIN structures
      /\ s \in ToSet(o) \/ (s \in dropped /\ BeatenOut(batch, o, s))
  BY DEF TopNIInv, TopNNoneForgotten
<1>2. /\ o \in Seq(Structure) /\ Len(o) \in 0..KeepN /\ DOMAIN o = 1..Len(o)
      /\ \A j, k \in DOMAIN o : j < k => Beats(batch, o[j], o[k])
  BY <1>1, LenProperties DEF TopNIInv, TopNAllOrdered, TopNOrdered
<1>3. s \in Held <=> s \in ToSet(o)
  BY <1>1, TopNHeldAre
<1>4. \A t \in ToSet(o) : t \in ToSet(batch) /\ Composition(t) = Composition(s)
  BY <1>1, TopNHeldAre
<1>5. \A t \in ToSet(batch) :
        /\ t # s /\ Composition(t) = Composition(s)
             => (t \in ToSet(o) \/ BeatenOut(batch, o, t))
        /\ t \in Rivals(s)
             <=> t # s /\ Composition(t) = Composition(s) /\ Beats(batch, t, s)
  BY DEF TopNIInv, TopNNoneForgotten, Rivals, Beats
<1>6. Rivals(s) \subseteq ToSet(batch)
  BY DEF Rivals
<1>7. Batch(batch)
  BY DEF TopNIInv
<1> HIDE DEF o
<1>8. IsFiniteSet(Rivals(s)) /\ Cardinality(Rivals(s)) \in Nat
  <2>1. Rivals(s) \in SUBSET Structure /\ IsFiniteSet(Structure)
    BY <1>6, <1>7, StructureAssumption DEF Batch
  <2> QED
    BY <2>1, FS_Subset, FS_CardinalityType
<1>9. KeepN \in Nat /\ Len(o) \in Nat
  BY <1>2, KeepAssumption
<1>10. CASE s \in ToSet(o)
  <2>1. PICK k \in 1..Len(o) : o[k] = s
    BY <1>2, <1>10 DEF ToSet
  <2> DEFINE before == {o[j] : j \in 1..(k - 1)}
             f == [j \in 1..(k - 1) |-> o[j]]
  <2>2. Rivals(s) \subseteq before
    <3> SUFFICES ASSUME NEW t \in Rivals(s) PROVE t \in before
      OBVIOUS
    <3>1. /\ t \in ToSet(batch) /\ t # s /\ Beats(batch, t, s)
          /\ t \in ToSet(o) \/ BeatenOut(batch, o, t)
      BY <1>5, <1>6
    <3>2. ~Beats(batch, s, t)
      BY <1>7, <3>1, BeatsOrder
    <3>3. t \in ToSet(o)
      BY <1>10, <3>1, <3>2 DEF BeatenOut
    <3>4. PICK j \in 1..Len(o) : o[j] = t
      BY <1>2, <3>3 DEF ToSet
    <3>5. j < k
      <4>1. ~(k < j)
        BY <1>2, <2>1, <3>2, <3>4
      <4>2. j # k
        BY <2>1, <3>1, <3>4
      <4> QED
        BY <1>9, <4>1, <4>2
    <3>6. j \in 1..(k - 1)
      BY <1>9, <3>5
    <3> QED
      BY <3>4, <3>6
  <2>3. IsFiniteSet(1..(k - 1)) /\ Cardinality(1..(k - 1)) = k - 1
    <3>1. ASSUME NEW i \in Nat PROVE IsFiniteSet(1..i) /\ Cardinality(1..i) = i
      BY FS_Interval
    <3>2. k - 1 \in Nat
      BY <1>9
    <3> QED
      BY <3>1, <3>2
  <2>4. f \in Surjection(1..(k - 1), before)
    BY DEF Surjection
  <2> HIDE DEF before, f
  <2>5. IsFiniteSet(before) /\ Cardinality(before) <= k - 1 /\ Cardinality(before) \in Nat
    BY <2>3, <2>4, FS_Surjection, FS_CardinalityType
  <2>6. Cardinality(Rivals(s)) <= Cardinality(before)
    BY <2>2, <2>5, FS_Subset
  <2>7. Cardinality(Rivals(s)) < KeepN
    BY <1>2, <1>8, <1>9, <2>5, <2>6
  <2> QED
    BY <1>3, <1>10, <2>7
<1>11. CASE s \notin ToSet(o)
  <2>1. Len(o) = KeepN /\ \A u \in ToSet(o) : Beats(batch, u, s)
    BY <1>1, <1>11 DEF o, BeatenOut
  <2> DEFINE f == [j \in 1..KeepN |-> o[j]]
  <2>2. \A j \in 1..KeepN : o[j] \in ToSet(o)
    BY <1>2, <2>1 DEF ToSet
  <2>3. \A j \in 1..KeepN : o[j] \in Rivals(s)
    BY <1>4, <1>5, <1>11, <2>1, <2>2
  <2>4. \A j, k \in 1..KeepN : o[j] = o[k] => j = k
    <3>1. \A j, k \in 1..KeepN : j < k => o[j] # o[k]
      <4>1. \A t \in ToSet(o) : ~Beats(batch, t, t)
        BY <1>4, <1>7, BeatsOrder
      <4> QED
        BY <1>2, <2>1, <2>2, <4>1
    <3>2. \A j, k \in 1..KeepN : j < k \/ k < j \/ j = k
      BY <1>9
    <3> QED
      BY <3>1, <3>2
  <2>5. f \in Injection(1..KeepN, Rivals(s))
    BY <2>3, <2>4 DEF Injection, IsInjective
  <2> HIDE DEF f
  <2>6. Cardinality(1..KeepN) = KeepN
    BY <1>9, FS_Interval
  <2>7. KeepN <= Cardinality(Rivals(s))
    BY <1>8, <2>5, <2>6, FS_Injection
  <2>8. ~(Cardinality(Rivals(s)) < KeepN)
    BY <1>8, <1>9, <2>7
  <2> QED
    BY <1>3, <1>11, <2>8
<1> QED
  BY <1>10, <1>11

(* The variables keep their types; an order that hasData counts is empty if and only
   if N is zero. *)
THEOREM TopNTypeAlways == TopNSpec => []TopNTypeOK
<1>1. TopNIInv => TopNTypeOK
  <2> SUFFICES ASSUME TopNIInv PROVE TopNTypeOK
    OBVIOUS
  <2>1. ASSUME NEW c \in DOMAIN structures
        PROVE  /\ c \in Compositions
               /\ structures[c] \in Seq(Structure)
               /\ structures[c] = <<>> <=> KeepN = 0
    <3>1. /\ c \in Compositions /\ structures[c] \in Seq(Structure)
          /\ Len(structures[c]) \in 0..KeepN /\ (KeepN > 0 => Len(structures[c]) > 0)
      BY DEF TopNIInv, TopNAllOrdered, TopNOrdered
    <3>2. Len(structures[c]) = 0 <=> KeepN = 0
      BY <3>1, KeepAssumption
    <3>3. structures[c] = <<>> <=> Len(structures[c]) = 0
      BY <3>1
    <3> QED
      BY <3>1, <3>2, <3>3
  <2> QED
    BY <2>1 DEF TopNTypeOK, TopNIInv, Batch, TopNApart
<1> QED
  BY <1>1, TopNAlwaysIInv, PTL

(* Each structure goes one way: it is sent, dropped or held, never two of these. *)
THEOREM TopNOneWayAlways == TopNSpec => []EachGoesOneWay
<1>1. TopNIInv => EachGoesOneWay
  <2> SUFFICES ASSUME TopNIInv PROVE EachGoesOneWay
    OBVIOUS
  <2>1. Held \subseteq ToSet(batch)
    BY TopNHeldAre
  <2>2. ToSet(batch) \subseteq Held \cup dropped
    BY TopNHeldAre DEF TopNIInv, TopNNoneForgotten
  <2> QED
    BY <2>1, <2>2 DEF EachGoesOneWay, TopNIInv, TopNApart
<1> QED
  BY <1>1, TopNAlwaysIInv, PTL

(* For any structures, in any order of arrival, and any N: the block holds
   exactly the best N of each composition. *)
THEOREM TopNAlways == TopNSpec => []HeldIsTopN
<1>1. TopNIInv => HeldIsTopN
  BY HeldTopN
<1> QED
  BY <1>1, TopNAlwaysIInv, PTL

------------------------------------------------------------------------------
(* A fraction times a positive number is compared like the fraction. *)
LEMMA Scaled ==
  ASSUME NEW x \in Int, NEW y \in Int, NEW k \in Nat \ {0}
  PROVE  x * k \in Int /\ (x < y <=> x * k < y * k)
  OBVIOUS

(* Of a fraction below one, what is not below the cutoff of a lowest one is above
   that of a lower one, since the cutoff falls with the value.  Of any fraction,
   what is not higher than one within the cutoff is within it; below the cutoff
   is not above it; and only one above zero is above its own cutoff. *)
LEMMA Cutoffs ==
  ASSUME NEW s \in Structure, NEW t \in Structure, NEW r \in Structure,
         HasProperty(s), HasProperty(t), HasProperty(r)
  PROVE  /\ Percent < Hundred /\ ~BelowCutoff(t, r) /\ Lower(s, r) => AboveCutoff(t, s)
         /\ ~AboveCutoff(t, s) /\ ~Lower(t, r) => ~AboveCutoff(r, s)
         /\ BelowCutoff(t, s) => ~AboveCutoff(t, s)
         /\ AboveCutoff(s, s) => Property[s] > 0
<1> DEFINE a == Property[t]
           b == Property[r]
           c == Property[s]
           u == Weight(t)
           v == Weight(r)
           w == Weight(s)
           h == Hundred
           k == Hundred - Percent   \* zero or less for a fraction of one and more
<1>1. /\ a \in Int /\ b \in Int /\ c \in Int
      /\ u \in Nat \ {0} /\ v \in Nat \ {0} /\ w \in Nat \ {0}
      /\ h \in Nat \ {0} /\ k \in Int /\ h - k = Percent /\ Percent \in Nat
  BY StructureAssumption, WeightPositive, PercentAssumption DEF HasProperty
<1>2. /\ BelowCutoff(t, r) <=> a * v * h < b * u * k
      /\ AboveCutoff(t, s) <=> a * w * h > c * u * k
      /\ BelowCutoff(t, s) <=> a * w * h < c * u * k
      /\ AboveCutoff(r, s) <=> b * w * h > c * v * k
      /\ AboveCutoff(s, s) <=> c * w * h > c * w * k
      /\ Lower(s, r) <=> c * v < b * w
      /\ Lower(t, r) <=> a * v < b * u
  BY DEF BelowCutoff, AboveCutoff, Lower
<1> HIDE DEF a, b, c, u, v, w, h, k
<1> DEFINE ah == a * h
           bh == b * h
           bk == b * k
           ck == c * k
<1>3. /\ ah \in Int /\ bh \in Int /\ bk \in Int /\ ck \in Int
      /\ a * v * h = ah * v /\ b * u * k = bk * u
      /\ a * w * h = ah * w /\ c * u * k = ck * u
      /\ b * w * h = bh * w /\ c * v * k = ck * v
  BY <1>1
<1>4. /\ Percent < Hundred => (c * v < b * w <=> ck * v < bk * w)
      /\ a * v < b * u <=> ah * v < bh * u
  <2>1. /\ c * v \in Int /\ b * w \in Int /\ a * v \in Int /\ b * u \in Int
        /\ (c * v) * k = ck * v /\ (b * w) * k = bk * w
        /\ (a * v) * h = ah * v /\ (b * u) * h = bh * u
    BY <1>1
  <2> HIDE DEF ah, bh, bk, ck
  <2>2. /\ Percent < Hundred => (c * v < b * w <=> (c * v) * k < (b * w) * k)
        /\ a * v < b * u <=> (a * v) * h < (b * u) * h
    <3>1. CASE k > 0
      <4>1. c * v < b * w <=> (c * v) * k < (b * w) * k
        BY <1>1, <2>1, <3>1, Scaled
      <4>2. a * v < b * u <=> (a * v) * h < (b * u) * h
        BY <1>1, <2>1, Scaled
      <4> QED
        BY <4>1, <4>2
    <3>2. CASE ~(k > 0)
      <4>1. ~(Percent < Hundred)
        BY <1>1, <3>2 DEF h
      <4>2. a * v < b * u <=> (a * v) * h < (b * u) * h
        BY <1>1, <2>1, Scaled
      <4> QED
        BY <4>1, <4>2
    <3> QED
      BY <3>1, <3>2
  <2> QED
    BY <2>1, <2>2
<1> HIDE DEF ah, bh, bk, ck
<1>5. ~(ah * v < bk * u) /\ ck * v < bk * w => ck * u < ah * w
  BY <1>1, <1>3, Fractions
<1>6. ~(ck * u < ah * w) /\ ~(ah * v < bh * u) => ~(ck * v < bh * w)
  BY <1>1, <1>3, Fractions
<1>7. c * w * h > c * w * k => c > 0
  <2>1. CASE ~(c > 0)
    <3> DEFINE m == 0 - c
               d == h - k
    <3>1. m \in Nat /\ w \in Nat /\ d \in Nat /\ h = k + d /\ k \in Int /\ c = 0 - m
      BY <1>1, <2>1
    <3>2. m * w \in Nat
      BY <3>1
    <3> DEFINE p == m * w
    <3>3. c * w = 0 - p
      BY <3>1
    <3> HIDE DEF m, d, p
    <3>4. p \in Nat
      BY <3>2 DEF p
    <3>5. p * d \in Nat /\ (0 - p) * h = (0 - p) * k - p * d
      BY <3>1, <3>4
    <3>6. (0 - p) * k \in Int /\ (0 - p) * h \in Int
      BY <3>1, <3>4
    <3>7. ~((0 - p) * h > (0 - p) * k)
      BY <3>5, <3>6
    <3> QED
      BY <3>3, <3>7
  <2> QED
    BY <2>1
<1>8. /\ Percent < Hundred /\ ~BelowCutoff(t, r) /\ Lower(s, r) => AboveCutoff(t, s)
      /\ ~AboveCutoff(t, s) /\ ~Lower(t, r) => ~AboveCutoff(r, s)
  <2>1. ah * w \in Int /\ ck * u \in Int /\ bh * w \in Int /\ ck * v \in Int
    BY <1>1, <1>3
  <2>2. /\ AboveCutoff(t, s) <=> ck * u < ah * w
        /\ AboveCutoff(r, s) <=> ck * v < bh * w
    BY <1>2, <1>3, <2>1
  <2> QED
    BY <1>2, <1>3, <1>4, <1>5, <1>6, <2>2
<1>9. BelowCutoff(t, s) => ~AboveCutoff(t, s)
  <2>1. ah * w \in Int /\ ck * u \in Int
    BY <1>1, <1>3
  <2> QED
    BY <1>2, <1>3, <2>1
<1> QED
  BY <1>2, <1>7, <1>8, <1>9 DEF c

------------------------------------------------------------------------------
(* The order of composition c: structures of the batch, the lower ones first. *)
WithinOrdered(b, o, c) ==
  /\ o \in Seq(Structure)
  /\ \A k \in DOMAIN o : o[k] \in ToSet(b) /\ Composition(o[k]) = c
  /\ \A j, k \in DOMAIN o : j < k => Beats(b, o[j], o[k])

(* What keeps t in the order, and what keeps it out, with the lowest low: of a
   fraction of one and more, only that low beats it stays true. *)
Inside(b, t, low) ==
  BelowCutoff(t, low) \/ (~AboveCutoff(t, low) /\ CameBefore(b, t, low))
Outside(b, t, low) ==
  /\ Beats(b, low, t)
  /\ Percent < Hundred => /\ ~BelowCutoff(t, low)
                          /\ AboveCutoff(t, low) \/ CameBefore(b, low, t)

(* The order is cut at the cutoff of its first structure. *)
CutOff(b, o, c) ==
  /\ 1 \in DOMAIN o
  /\ \A t \in ToSet(o) : t # o[1] => Inside(b, t, o[1])
  /\ \A t \in ToSet(b) : Composition(t) = c /\ t \notin ToSet(o) => Outside(b, t, o[1])

(* The inductive invariant: every order is that of the batch and cut off where
   it has to be; a structure of the batch that is not in its order was dropped;
   the loop that evicts has run off an order only for a lowest one above zero. *)
WithinAllOrdered ==
  \A c \in DOMAIN structures : c \in Compositions /\ WithinOrdered(batch, structures[c], c)

AllCutOff ==
  state = "running" => \A c \in DOMAIN structures : CutOff(batch, structures[c], c)

WithinNoneForgotten ==
  \A t \in ToSet(batch) :
    /\ Composition(t) \in DOMAIN structures
    /\ t \in ToSet(structures[Composition(t)]) \/ t \in dropped

WithinApart ==
  /\ sent \subseteq Structure
  /\ dropped \subseteq Structure
  /\ sent \cap dropped = {}
  /\ Held \cap dropped = {}
  /\ ToSet(batch) \cap sent = {}

RunOff ==
  \/ state = "running"
  \/ /\ state = "undefined"
     /\ \E s \in ToSet(batch) :
          /\ Property[s] > 0
          /\ \A t \in ToSet(batch) \ {s} :
               Composition(t) = Composition(s) => Beats(batch, s, t)

WithinIInv == Batch(batch) /\ WithinAllOrdered /\ AllCutOff /\ WithinNoneForgotten /\ WithinApart /\ RunOff

(* The elements of an order are those of its sequence. *)
LEMMA WithinHeldAre ==
  ASSUME WithinIInv
  PROVE  /\ \A t : t \in Held <=> \E c \in DOMAIN structures : t \in ToSet(structures[c])
         /\ \A c \in DOMAIN structures : \A t \in ToSet(structures[c]) :
              t \in ToSet(batch) /\ Composition(t) = c /\ t \in Structure
<1>1. \A t : t \in Held <=> \E c \in DOMAIN structures : t \in ToSet(structures[c])
  BY DEF Held, Members
<1>2. ASSUME NEW c \in DOMAIN structures, NEW t \in ToSet(structures[c])
      PROVE  t \in ToSet(batch) /\ Composition(t) = c /\ t \in Structure
  <2>1. \A k \in DOMAIN structures[c] :
          structures[c][k] \in ToSet(batch) /\ Composition(structures[c][k]) = c
    BY DEF WithinIInv, WithinAllOrdered, WithinOrdered
  <2>2. t \in ToSet(batch) /\ Composition(t) = c
    BY <2>1 DEF ToSet
  <2> QED
    BY <2>2 DEF WithinIInv, Batch
<1> QED
  BY <1>1, <1>2

LEMMA WithinInitIInv == WithinInit => WithinIInv
<1> SUFFICES ASSUME WithinInit PROVE WithinIInv
  OBVIOUS
<1>1. DOMAIN structures = {} /\ ToSet(batch) = {} /\ batch \in Seq(Structure) /\ DOMAIN batch = {}
  BY DEF WithinInit, BarrierInit, ToSet
<1>2. Held = {}
  BY <1>1 DEF Held, Members
<1> QED
  BY <1>1, <1>2
  DEF WithinInit, BarrierInit, WithinIInv, Batch, WithinAllOrdered, AllCutOff, WithinNoneForgotten, WithinApart, RunOff

LEMMA WithinLetThroughIInv ==
  ASSUME WithinIInv, NEW s \in Structure, LetThroughWithin(s)
  PROVE  WithinIInv'
<1>1. /\ structures' = structures /\ batch' = batch /\ dropped' = dropped
      /\ state' = state /\ sent' = sent \cup {s}
  BY DEF LetThroughWithin, LetThrough
<1>2. s \notin ToSet(batch) /\ s \notin dropped
  BY DEF LetThroughWithin, LetThrough, Arrived
<1>3. Held' = Held
  BY <1>1 DEF Held
<1>4. (Batch(batch) /\ WithinAllOrdered /\ AllCutOff /\ WithinNoneForgotten /\ RunOff)'
  BY <1>1 DEF WithinIInv, WithinAllOrdered, AllCutOff, WithinNoneForgotten, RunOff
<1>5. WithinApart'
  BY <1>1, <1>2, <1>3 DEF WithinIInv, WithinApart
<1> QED
  BY <1>4, <1>5 DEF WithinIInv

LEMMA WithinReleaseIInv ==
  ASSUME WithinIInv, ReleaseWithin
  PROVE  WithinIInv'
<1>1. /\ structures' = << >> /\ batch' = <<>> /\ dropped' = dropped
      /\ sent' = sent \cup Held /\ state' = "running"
  BY DEF ReleaseWithin, Release
<1>2. /\ (DOMAIN structures)' = {} /\ ToSet(batch') = {}
      /\ batch' \in Seq(Structure) /\ DOMAIN batch' = {}
  BY <1>1 DEF ToSet
<1>3. Held' = {}
  BY <1>2 DEF Held, Members
<1>4. Held \subseteq Structure
  BY WithinHeldAre
<1>5. (Batch(batch) /\ WithinAllOrdered /\ AllCutOff /\ WithinNoneForgotten /\ RunOff)'
  BY <1>1, <1>2 DEF Batch, WithinAllOrdered, AllCutOff, WithinNoneForgotten, RunOff
<1>6. WithinApart'
  BY <1>1, <1>2, <1>3, <1>4 DEF WithinIInv, WithinApart
<1> QED
  BY <1>5, <1>6 DEF WithinIInv

(* What every way through keep comes to: the order of a composition becomes
   new, and the rest of what was in it and came is dropped. *)
LEMMA OrderChanges ==
  ASSUME WithinIInv, NEW s \in Structure, Offer(s), NEW new, NEW lost,
         DOMAIN structures' = DOMAIN structures \cup {Composition(s)},
         structures'[Composition(s)] = new,
         \A d \in DOMAIN structures : d # Composition(s) => structures'[d] = structures[d],
         dropped' = dropped \cup lost,
         WithinOrdered(batch', new, Composition(s)),
         ToSet(new) \cup lost = ToSet(Order(s)) \cup {s},
         ToSet(new) \cap lost = {},
         state' = "running" => CutOff(batch', new, Composition(s)),
         RunOff'
  PROVE  WithinIInv'
<1> DEFINE c == Composition(s)
           o == Order(s)
<1>1. /\ s \notin ToSet(batch) /\ s \notin sent /\ s \notin dropped /\ HasProperty(s)
      /\ batch' = Append(batch, s) /\ sent' = sent /\ state = "running"
  BY DEF Offer, Arrived
<1>2. /\ Batch(batch') /\ ToSet(batch') = ToSet(batch) \cup {s}
      /\ \A t, r \in ToSet(batch) : /\ Beats(batch', t, r) <=> Beats(batch, t, r)
                                    /\ CameBefore(batch', t, r) <=> CameBefore(batch, t, r)
  BY <1>1, BatchGrows DEF WithinIInv
<1>3. \A t \in ToSet(o) : t \in ToSet(batch) /\ Composition(t) = c /\ t \in Held
  <2>1. CASE c \in DOMAIN structures
    BY <2>1, WithinHeldAre DEF OrderOf, Order
  <2>2. CASE c \notin DOMAIN structures
    <3>1. o = <<>>
      BY <2>2 DEF OrderOf, Order
    <3>2. ToSet(<<>>) = {}
      BY DEF ToSet
    <3> QED
      BY <3>1, <3>2
  <2> QED
    BY <2>1, <2>2
<1>4. c \in DOMAIN structures => o = structures[c]
  BY DEF Order, OrderOf
<1> HIDE DEF o
<1>5. \A t : (t \in ToSet(new) \/ t \in lost) <=> (t \in ToSet(o) \/ t = s)
  BY DEF o
<1>6. WithinAllOrdered'
  <2> SUFFICES ASSUME NEW d \in DOMAIN structures'
               PROVE  d \in Compositions /\ WithinOrdered(batch', structures'[d], d)
    BY DEF WithinAllOrdered
  <2>1. CASE d = c
    BY <2>1 DEF Compositions
  <2>2. CASE d # c
    <3>1. d \in DOMAIN structures /\ structures'[d] = structures[d]
      BY <2>2
    <3>2. d \in Compositions /\ WithinOrdered(batch, structures[d], d)
      BY <3>1 DEF WithinIInv, WithinAllOrdered
    <3>3. WithinOrdered(batch', structures[d], d)
      BY <1>2, <3>2 DEF WithinOrdered
    <3> QED
      BY <3>1, <3>2, <3>3
  <2> QED
    BY <2>1, <2>2
<1>7. AllCutOff'
  <2> SUFFICES ASSUME state' = "running", NEW d \in DOMAIN structures'
               PROVE  CutOff(batch', structures'[d], d)
    BY DEF AllCutOff
  <2>1. CASE d = c
    BY <2>1
  <2>2. CASE d # c
    <3> DEFINE q == structures[d]
    <3>1. d \in DOMAIN structures /\ structures'[d] = q
      BY <2>2
    <3>2. 1 \in DOMAIN q /\ CutOff(batch, q, d)
      BY <1>1, <3>1 DEF WithinIInv, AllCutOff, CutOff
    <3>3. q[1] \in ToSet(q) /\ \A t \in ToSet(q) : t \in ToSet(batch)
      BY <3>1, <3>2, WithinHeldAre DEF ToSet
    <3>4. \A t \in ToSet(batch') : Composition(t) = d => t \in ToSet(batch)
      BY <1>2, <2>2
    <3> HIDE DEF q
    <3>5. \A t \in ToSet(batch) : /\ Inside(batch, t, q[1]) => Inside(batch', t, q[1])
                                  /\ Outside(batch, t, q[1]) => Outside(batch', t, q[1])
      BY <1>2, <3>3 DEF Inside, Outside
    <3>6. CutOff(batch', q, d)
      BY <3>2, <3>3, <3>4, <3>5 DEF CutOff
    <3> QED
      BY <3>1, <3>6
  <2> QED
    BY <2>1, <2>2
<1>8. WithinNoneForgotten'
  <2> SUFFICES ASSUME NEW t \in ToSet(batch')
               PROVE  /\ Composition(t) \in DOMAIN structures'
                      /\ t \in ToSet(structures'[Composition(t)]) \/ t \in dropped'
    BY DEF WithinNoneForgotten
  <2>1. CASE t = s
    BY <1>5, <2>1
  <2>2. CASE t # s
    <3>1. /\ t \in ToSet(batch) /\ Composition(t) \in DOMAIN structures
          /\ t \in ToSet(structures[Composition(t)]) \/ t \in dropped
      BY <1>2, <2>2 DEF WithinIInv, WithinNoneForgotten
    <3>2. CASE Composition(t) = c
      BY <1>4, <1>5, <3>1, <3>2
    <3>3. CASE Composition(t) # c
      BY <3>1, <3>3
    <3> QED
      BY <3>2, <3>3
  <2> QED
    BY <2>1, <2>2
<1>9. WithinApart'
  <2>1. \A t \in lost : t \in ToSet(batch') /\ Composition(t) = c
    BY <1>2, <1>3, <1>5
  <2>2. \A t \in lost : t \in Structure /\ t \notin sent
    BY <1>1, <1>2, <2>1 DEF WithinIInv, WithinApart, Batch
  <2>3. ASSUME NEW t \in Held'
        PROVE  t \notin dropped'
    <3>1. PICK d \in DOMAIN structures' : t \in ToSet(structures'[d])
      BY <2>3 DEF Held, Members
    <3>2. CASE d = c
      <4>1. t \in ToSet(new)
        BY <3>1, <3>2
      <4>2. t \notin dropped
        BY <1>1, <1>3, <1>5, <4>1 DEF WithinIInv, WithinApart
      <4> QED
        BY <4>1, <4>2
    <3>3. CASE d # c
      <4>1. d \in DOMAIN structures /\ t \in ToSet(structures[d])
        BY <3>1, <3>3
      <4>2. t \in Held /\ Composition(t) # c
        BY <3>3, <4>1, WithinHeldAre
      <4>3. t \notin dropped /\ t \notin lost
        BY <2>1, <4>2 DEF WithinIInv, WithinApart
      <4> QED
        BY <4>3
    <3> QED
      BY <3>2, <3>3
  <2>4. dropped' \subseteq Structure /\ sent' \cap dropped' = {}
    BY <1>1, <2>2 DEF WithinIInv, WithinApart
  <2>5. ToSet(batch') \cap sent' = {} /\ sent' \subseteq Structure
    BY <1>1, <1>2 DEF WithinIInv, WithinApart
  <2> QED
    BY <2>3, <2>4, <2>5 DEF WithinApart
<1> QED
  BY <1>2, <1>6, <1>7, <1>8, <1>9 DEF WithinIInv

(* What is known when a structure is offered. *)
LEMMA Arrival ==
  ASSUME WithinIInv, NEW s \in Structure, Offer(s)
  PROVE  /\ s \notin ToSet(batch) /\ HasProperty(s) /\ state = "running"
         /\ batch' = Append(batch, s) /\ Batch(batch) /\ Batch(batch')
         /\ ToSet(batch') = ToSet(batch) \cup {s}
         /\ \A t, r \in ToSet(batch) : /\ Beats(batch', t, r) <=> Beats(batch, t, r)
                                       /\ CameBefore(batch', t, r) <=> CameBefore(batch, t, r)
         /\ \A t \in ToSet(batch) : /\ Beats(batch', t, s) <=> ~Lower(s, t)
                                    /\ Beats(batch', s, t) <=> Lower(s, t)
                                    /\ CameBefore(batch', t, s)
         /\ \A t \in ToSet(batch) : t \in Structure /\ HasProperty(t)
<1>1. /\ s \notin ToSet(batch) /\ HasProperty(s) /\ state = "running"
      /\ batch' = Append(batch, s) /\ Batch(batch)
  BY DEF Offer, Arrived, WithinIInv
<1> QED
  BY <1>1, BatchGrows DEF Batch

(* And of the order it is to join, when there is one. *)
LEMMA OrderToJoin ==
  ASSUME WithinIInv, NEW s \in Structure, Offer(s), Order(s) # <<>>
  PROVE  /\ Composition(s) \in DOMAIN structures
         /\ Order(s) = structures[Composition(s)]
         /\ WithinOrdered(batch, Order(s), Composition(s))
         /\ CutOff(batch, Order(s), Composition(s))
         /\ DOMAIN Order(s) = 1..Len(Order(s)) /\ Len(Order(s)) \in Nat \ {0}
         /\ \A t \in ToSet(Order(s)) : t \in ToSet(batch) /\ Composition(t) = Composition(s)
         /\ Order(s)[1] \in ToSet(Order(s))
<1>1. /\ Composition(s) \in DOMAIN structures
      /\ Order(s) = structures[Composition(s)]
  BY DEF Order, OrderOf
<1>2. /\ WithinOrdered(batch, Order(s), Composition(s))
      /\ CutOff(batch, Order(s), Composition(s))
  BY <1>1, Arrival DEF WithinIInv, WithinAllOrdered, AllCutOff
<1> DEFINE o == Order(s)
<1> HIDE DEF o
<1>3. DOMAIN o = 1..Len(o) /\ Len(o) \in Nat
  BY <1>2, LenProperties DEF o, WithinOrdered
<1>4. 1 \in DOMAIN o /\ \A k \in DOMAIN o : o[k] \in ToSet(batch) /\ Composition(o[k]) = Composition(s)
  BY <1>2 DEF o, WithinOrdered, CutOff
<1>5. /\ Len(o) \in Nat \ {0} /\ o[1] \in ToSet(o)
      /\ \A t \in ToSet(o) : t \in ToSet(batch) /\ Composition(t) = Composition(s)
  BY <1>3, <1>4 DEF ToSet
<1> QED
  BY <1>1, <1>2, <1>3, <1>5 DEF o

LEMMA KeepFirstIInv ==
  ASSUME WithinIInv, NEW s \in Structure, KeepFirst(s)
  PROVE  WithinIInv'
<1> DEFINE c == Composition(s)
           new == <<s>>
<1>1. /\ Offer(s) /\ Order(s) = <<>> /\ structures' = WithOrder(structures, c, new)
      /\ dropped' = dropped \cup {} /\ state' = state
  BY DEF KeepFirst
<1>2. /\ DOMAIN structures' = DOMAIN structures \cup {c} /\ structures'[c] = new
      /\ \A d \in DOMAIN structures : d # c => structures'[d] = structures[d]
  BY <1>1 DEF WithOrder
<1>3. /\ new \in Seq(Structure) /\ DOMAIN new = {1} /\ new[1] = s
      /\ ToSet(new) = {s} /\ ToSet(Order(s)) = {}
  BY <1>1 DEF ToSet
<1> HIDE DEF new
<1>4. state = "running" /\ s \in ToSet(batch') /\ ToSet(batch') = ToSet(batch) \cup {s}
  BY <1>1, Arrival
<1>5. WithinOrdered(batch', new, c)
  BY <1>3, <1>4 DEF WithinOrdered
<1>6. \A t \in ToSet(batch) : Composition(t) # c
  <2> SUFFICES ASSUME NEW t \in ToSet(batch), Composition(t) = c PROVE FALSE
    OBVIOUS
  <2>1. c \in DOMAIN structures
    BY DEF WithinIInv, WithinNoneForgotten
  <2>2. 1 \in DOMAIN structures[c]
    BY <1>4, <2>1 DEF WithinIInv, AllCutOff, CutOff
  <2>3. structures[c] = <<>>
    BY <1>1, <2>1 DEF Order, OrderOf
  <2> QED
    BY <2>2, <2>3
<1>7. CutOff(batch', new, c)
  BY <1>3, <1>4, <1>6 DEF CutOff
<1>8. RunOff'
  BY <1>1, <1>4 DEF RunOff
<1>9. ToSet(new) \cup {} = ToSet(Order(s)) \cup {s} /\ ToSet(new) \cap {} = {}
  BY <1>3
<1> QED
  BY <1>1, <1>2, <1>5, <1>7, <1>8, <1>9, OrderChanges

LEMMA DropOutsideIInv ==
  ASSUME WithinIInv, NEW s \in Structure, DropOutside(s)
  PROVE  WithinIInv'
<1> DEFINE c == Composition(s)
           o == Order(s)
<1>1. /\ Offer(s) /\ o # <<>> /\ ~Lower(s, o[1]) /\ ~BelowCutoff(s, o[1])
      /\ dropped' = dropped \cup {s} /\ structures' = structures /\ state' = state
  BY DEF DropOutside
<1>2. /\ c \in DOMAIN structures /\ o = structures[c]
      /\ WithinOrdered(batch, o, c) /\ CutOff(batch, o, c)
      /\ \A t \in ToSet(o) : t \in ToSet(batch)
      /\ o[1] \in ToSet(o)
  BY <1>1, OrderToJoin
<1> HIDE DEF o
<1>3. /\ s \notin ToSet(batch) /\ state = "running" /\ ToSet(batch') = ToSet(batch) \cup {s}
      /\ \A t, r \in ToSet(batch) : /\ Beats(batch', t, r) <=> Beats(batch, t, r)
                                    /\ CameBefore(batch', t, r) <=> CameBefore(batch, t, r)
      /\ \A t \in ToSet(batch) : /\ Beats(batch', t, s) <=> ~Lower(s, t)
                                 /\ CameBefore(batch', t, s)
  BY <1>1, Arrival
<1>4. WithinOrdered(batch', o, c)
  BY <1>2, <1>3 DEF WithinOrdered
<1>5. Outside(batch', s, o[1])
  BY <1>1, <1>2, <1>3 DEF Outside
<1>6. \A t \in ToSet(batch) : /\ Inside(batch, t, o[1]) => Inside(batch', t, o[1])
                              /\ Outside(batch, t, o[1]) => Outside(batch', t, o[1])
  BY <1>2, <1>3 DEF Inside, Outside
<1>7. CutOff(batch', o, c)
  BY <1>2, <1>3, <1>5, <1>6 DEF CutOff
<1>8. RunOff'
  BY <1>1, <1>3 DEF RunOff
<1>9. ToSet(o) \cap {s} = {}
  BY <1>2, <1>3
<1>10. /\ DOMAIN structures' = DOMAIN structures \cup {c} /\ structures'[c] = o
       /\ \A d \in DOMAIN structures : d # c => structures'[d] = structures[d]
  BY <1>1, <1>2
<1> QED
  BY <1>1, <1>4, <1>7, <1>8, <1>9, <1>10, OrderChanges DEF o

LEMMA KeepWithinIInv ==
  ASSUME WithinIInv, NEW s \in Structure, KeepWithin(s)
  PROVE  WithinIInv'
<1> DEFINE c == Composition(s)
           o == Order(s)
           new == Inserted(o, s)
<1>1. /\ Offer(s) /\ o # <<>> /\ ~Lower(s, o[1]) /\ BelowCutoff(s, o[1])
      /\ structures' = WithOrder(structures, c, new)
      /\ dropped' = dropped \cup {} /\ state' = state
  BY DEF KeepWithin
<1>2. /\ DOMAIN structures' = DOMAIN structures \cup {c} /\ structures'[c] = new
      /\ \A d \in DOMAIN structures : d # c => structures'[d] = structures[d]
  BY <1>1 DEF WithOrder
<1>3. /\ WithinOrdered(batch, o, c) /\ CutOff(batch, o, c)
      /\ \A t \in ToSet(o) : t \in ToSet(batch) /\ Composition(t) = c
      /\ o[1] \in ToSet(o) /\ DOMAIN o = 1..Len(o) /\ Len(o) \in Nat \ {0}
  BY <1>1, OrderToJoin
<1>4. /\ s \notin ToSet(batch) /\ HasProperty(s) /\ state = "running"
      /\ batch' = Append(batch, s) /\ Batch(batch) /\ Batch(batch')
      /\ ToSet(batch') = ToSet(batch) \cup {s}
      /\ \A t, r \in ToSet(batch) : /\ Beats(batch', t, r) <=> Beats(batch, t, r)
                                    /\ CameBefore(batch', t, r) <=> CameBefore(batch, t, r)
      /\ \A t \in ToSet(batch) : Beats(batch', s, t) <=> Lower(s, t)
  BY <1>1, Arrival
<1>5. /\ new \in Seq(Structure) /\ Len(new) = Len(o) + 1
      /\ ToSet(new) = ToSet(o) \cup {s}
      /\ \A j, k \in DOMAIN new : j < k => Beats(batch', new[j], new[k])
  <2>1. /\ o \in Seq(Structure)
        /\ \A k \in DOMAIN o : o[k] \in ToSet(batch)
        /\ \A j, k \in DOMAIN o : j < k => Beats(batch, o[j], o[k])
    BY <1>3 DEF WithinOrdered
  <2> HIDE DEF o
  <2> QED
    BY <1>4, <2>1, InsertedInOrder
<1> HIDE DEF o, new
<1>6. DOMAIN new = 1..(Len(o) + 1)
  BY <1>5, LenProperties
<1>7. \A t \in ToSet(new) : t \in ToSet(batch') /\ Composition(t) = c
  BY <1>3, <1>4, <1>5
<1>8. \A k \in DOMAIN new : new[k] \in ToSet(new)
  BY DEF ToSet
<1>9. WithinOrdered(batch', new, c)
  BY <1>5, <1>7, <1>8 DEF WithinOrdered
<1>10. 1 \in DOMAIN new /\ new[1] \in ToSet(o) \cup {s}
  BY <1>3, <1>5, <1>6, <1>8
<1>11. new[1] = o[1]
  <2>1. PICK j \in DOMAIN new : new[j] = o[1]
    BY <1>3, <1>5 DEF ToSet
  <2>2. CASE j = 1
    BY <2>1, <2>2
  <2>3. CASE j # 1
    <3>1. 1 < j
      BY <1>3, <1>6, <2>3
    <3>2. Beats(batch', new[1], o[1])
      BY <1>5, <1>10, <2>1, <3>1
    <3>3. new[1] # s
      BY <1>1, <1>3, <1>4, <3>2 DEF o
    <3>4. PICK k \in DOMAIN o : o[k] = new[1]
      BY <1>10, <3>3 DEF ToSet
    <3>5. CASE k = 1
      BY <3>4, <3>5
    <3>6. CASE k # 1
      <4>1. 1 \in DOMAIN o /\ 1 < k
        BY <1>3, <3>6
      <4>2. Beats(batch, o[1], o[k])
        BY <1>3, <4>1 DEF WithinOrdered
      <4>3. Beats(batch', o[1], new[1])
        BY <1>3, <1>4, <1>10, <3>3, <3>4, <4>2
      <4> QED
        BY <1>3, <1>4, <1>7, <1>8, <1>10, <3>2, <4>3, <1>5, BeatsOrder
    <3> QED
      BY <3>5, <3>6
  <2> QED
    BY <2>2, <2>3
<1>12. \A t \in ToSet(batch) : /\ Inside(batch, t, o[1]) => Inside(batch', t, o[1])
                               /\ Outside(batch, t, o[1]) => Outside(batch', t, o[1])
  BY <1>3, <1>4 DEF Inside, Outside
<1>13. Inside(batch', s, o[1])
  BY <1>1 DEF Inside, o
<1>14. CutOff(batch', new, c)
  BY <1>3, <1>4, <1>5, <1>10, <1>11, <1>12, <1>13 DEF CutOff
<1>15. RunOff'
  BY <1>1, <1>4 DEF RunOff
<1>16. ToSet(new) \cup {} = ToSet(Order(s)) \cup {s} /\ ToSet(new) \cap {} = {}
  BY <1>5 DEF o
<1> QED
  BY <1>1, <1>2, <1>9, <1>14, <1>15, <1>16, OrderChanges

(* A new lowest: what stays is what came before it and is not above its cutoff;
   what was outside the cutoff before is above the new one. *)
LEMMA NewLowestIInv ==
  ASSUME WithinIInv, NEW s \in Structure, NewLowest(s)
  PROVE  WithinIInv'
<1> DEFINE c == Composition(s)
           o == Order(s)
           n == Len(o)
           order == <<s>> \o o
           D == {k \in DOMAIN order : ~AboveCutoff(order[k], s)}
           left == Cardinality(D)
           new == SubSeq(order, 1, left)
           lost == {order[k] : k \in (left + 1)..Len(order)}
<1>1. /\ Offer(s) /\ o # <<>> /\ Lower(s, o[1])
      /\ structures' = WithOrder(structures, c, new)
      /\ dropped' = dropped \cup lost
      /\ state' = IF left = 0 THEN "undefined" ELSE state
  BY DEF NewLowest
<1>2. /\ DOMAIN structures' = DOMAIN structures \cup {c} /\ structures'[c] = new
      /\ \A d \in DOMAIN structures : d # c => structures'[d] = structures[d]
  BY <1>1 DEF WithOrder
<1>3. /\ WithinOrdered(batch, o, c) /\ CutOff(batch, o, c)
      /\ \A t \in ToSet(o) : t \in ToSet(batch) /\ Composition(t) = c
      /\ o[1] \in ToSet(o) /\ DOMAIN o = 1..n /\ n \in Nat \ {0}
  BY <1>1, OrderToJoin
<1>4. /\ s \notin ToSet(batch) /\ HasProperty(s) /\ state = "running"
      /\ Batch(batch) /\ Batch(batch')
      /\ ToSet(batch') = ToSet(batch) \cup {s}
      /\ \A t, r \in ToSet(batch) : Beats(batch', t, r) <=> Beats(batch, t, r)
      /\ \A t \in ToSet(batch) : /\ Beats(batch', s, t) <=> Lower(s, t)
                                 /\ CameBefore(batch', t, s)
                                 /\ t \in Structure /\ HasProperty(t)
  BY <1>1, Arrival
<1>5. /\ order \in Seq(Structure) /\ Len(order) = n + 1 /\ DOMAIN order = 1..(n + 1)
      /\ order[1] = s /\ \A k \in 1..n : order[k + 1] = o[k]
  <2>1. o \in Seq(Structure)
    BY <1>3 DEF WithinOrdered
  <2> HIDE DEF o
  <2>2. <<s>> \in Seq(Structure) /\ Len(<<s>>) = 1 /\ <<s>>[1] = s
    OBVIOUS
  <2>3. /\ order \in Seq(Structure) /\ Len(order) = 1 + n
        /\ \A i \in 1..(1 + n) : order[i] = IF i <= 1 THEN <<s>>[i] ELSE o[i - 1]
    BY <2>1, <2>2, ConcatProperties
  <2> HIDE DEF order
  <2>4. DOMAIN order = 1..Len(order)
    BY <2>3, LenProperties
  <2>5. 1 \in 1..(1 + n) /\ \A k \in 1..n : k + 1 \in 1..(1 + n) /\ ~(k + 1 <= 1) /\ (k + 1) - 1 = k
    BY <1>3
  <2> QED
    BY <1>3, <2>2, <2>3, <2>4, <2>5
<1> HIDE DEF n, order
(* It is lower than all the others of its composition. *)
<1>6. \A t \in ToSet(batch) : Composition(t) = c =>
        /\ Lower(s, t)
        /\ Percent < Hundred /\ t \notin ToSet(o) => AboveCutoff(t, s)
  <2> SUFFICES ASSUME NEW t \in ToSet(batch), Composition(t) = c
               PROVE  Lower(s, t) /\ (Percent < Hundred /\ t \notin ToSet(o) => AboveCutoff(t, s))
    OBVIOUS
  <2> DEFINE low == o[1]
  <2>1. low \in ToSet(batch)
    BY <1>3
  <2>2. /\ t \in Structure /\ HasProperty(t) /\ low \in Structure /\ HasProperty(low)
        /\ Lower(s, low)
    BY <1>1, <1>4, <2>1
  <2>3. CASE t \notin ToSet(o)
    <3>1. Outside(batch, t, low)
      BY <1>3, <2>3 DEF CutOff
    <3> HIDE DEF low
    <3>2. (Percent < Hundred => ~BelowCutoff(t, low)) /\ ~Lower(t, low)
      BY <1>4, <2>1, <3>1, BeatsOrder DEF Outside
    <3>3. Lower(s, t) /\ (Percent < Hundred => AboveCutoff(t, s))
      BY <1>4, <2>2, <3>2, LowerOrder, Cutoffs
    <3> QED
      BY <3>3
  <2>4. CASE t \in ToSet(o)
    <3>1. PICK k \in 1..n : o[k] = t
      BY <1>3, <2>4 DEF ToSet
    <3>2. 1 \in 1..n /\ (k = 1 \/ 1 < k)
      BY <1>3
    <3>3. k = 1 \/ Beats(batch, low, t)
      BY <1>3, <3>1, <3>2 DEF WithinOrdered
    <3>4. t = low \/ ~Lower(t, low)
      BY <1>4, <2>1, <3>1, <3>3, BeatsOrder
    <3> HIDE DEF low
    <3>5. Lower(s, t)
      BY <1>4, <2>2, <3>4, LowerOrder
    <3> QED
      BY <2>4, <3>5
  <2> QED
    BY <2>3, <2>4
<1>7. \A k \in 1..n : o[k] \in ToSet(o)
  BY <1>3 DEF ToSet
<1>8. \A k \in 1..(n + 1) : k = 1 \/ (1 < k /\ k - 1 \in 1..n /\ order[k] = o[k - 1])
  <2> SUFFICES ASSUME NEW k \in 1..(n + 1), k # 1
               PROVE  1 < k /\ k - 1 \in 1..n /\ order[k] = o[k - 1]
    OBVIOUS
  <2>1. 1 < k /\ k - 1 \in 1..n /\ (k - 1) + 1 = k
    BY <1>3
  <2> QED
    BY <1>5, <2>1
<1>9. \A k \in 1..(n + 1) :
        /\ order[k] \in ToSet(batch') /\ Composition(order[k]) = c
        /\ k # 1 => order[k] \in ToSet(o)
  BY <1>3, <1>4, <1>5, <1>7, <1>8
<1>10. \A j, k \in 1..(n + 1) : j < k => Beats(batch', order[j], order[k])
  <2> SUFFICES ASSUME NEW j \in 1..(n + 1), NEW k \in 1..(n + 1), j < k
               PROVE  Beats(batch', order[j], order[k])
    OBVIOUS
  <2>1. 1 < k /\ k - 1 \in 1..n /\ order[k] = o[k - 1] /\ order[k] \in ToSet(o)
    <3>1. k # 1
      BY <1>3
    <3> QED
      BY <1>7, <1>8, <3>1
  <2>2. CASE j = 1
    BY <1>3, <1>4, <1>5, <1>6, <2>1, <2>2
  <2>3. CASE j # 1
    <3>1. j - 1 \in 1..n /\ order[j] = o[j - 1] /\ order[j] \in ToSet(o)
      BY <1>7, <1>8, <2>3
    <3>2. j - 1 < k - 1
      BY <1>3
    <3>3. Beats(batch, o[j - 1], o[k - 1])
      BY <1>3, <2>1, <3>1, <3>2 DEF WithinOrdered
    <3> QED
      BY <1>3, <1>4, <2>1, <3>1, <3>3
  <2> QED
    BY <2>2, <2>3
(* What stays is the first part of the order. *)
<1>11. left \in 0..(n + 1) /\ D = 1..left
  <2>1. D \in SUBSET (1..(n + 1)) /\ n + 1 \in Nat
    BY <1>3, <1>5
  <2>2. ASSUME NEW k \in D, NEW j \in 1..k PROVE j \in D
    <3>1. k \in 1..(n + 1) /\ j \in 1..(n + 1) /\ (j = k \/ j < k) /\ ~AboveCutoff(order[k], s)
      BY <1>3, <1>5
    <3>2. CASE j < k
      <4>1. ~Lower(order[k], order[j])
        BY <1>4, <1>9, <1>10, <3>1, <3>2, BeatsOrder
      <4>2. /\ order[j] \in Structure /\ HasProperty(order[j])
            /\ order[k] \in Structure /\ HasProperty(order[k])
        BY <1>4, <1>9, <3>1
      <4>3. ~AboveCutoff(order[j], s)
        BY <1>4, <3>1, <4>1, <4>2, Cutoffs
      <4> QED
        BY <1>5, <3>1, <4>3
    <3> QED
      BY <3>1, <3>2
  <2> HIDE DEF D
  <2>3. \A k \in D : 1..k \subseteq D
    BY <2>2
  <2> QED
    BY <2>1, <2>3, PrefixOfPositions
<1>12. \A k \in 1..(n + 1) : k <= left <=> ~AboveCutoff(order[k], s)
  <2>1. \A k \in 1..(n + 1) : k \in D <=> ~AboveCutoff(order[k], s)
    BY <1>5
  <2> HIDE DEF D, left
  <2> QED
    BY <1>3, <1>11, <2>1
<1> HIDE DEF D, left
<1>13. /\ new \in Seq(Structure) /\ Len(new) = left
       /\ \A k \in 1..left : new[k] = order[k]
  <2>1. left \in 0..Len(order)
    BY <1>5, <1>11
  <2> QED
    BY <1>5, <2>1, TakenFirst
<1>14. /\ \A t : t \in lost <=> \E k \in 1..(n + 1) : ~(k <= left) /\ order[k] = t
  <2>1. \A k : k \in (left + 1)..(n + 1) <=> k \in 1..(n + 1) /\ ~(k <= left)
    BY <1>3, <1>11
  <2> QED
    BY <1>5, <2>1
<1> HIDE DEF new, lost
<1>15. DOMAIN new = 1..left
  BY <1>13, LenProperties
<1>16. \A k \in 1..left : k \in 1..(n + 1) /\ k <= left
  BY <1>3, <1>11
<1>17. \A t : t \in ToSet(new) <=> \E k \in 1..(n + 1) : k <= left /\ order[k] = t
  <2>1. \A k \in 1..(n + 1) : k <= left => k \in 1..left
    BY <1>3, <1>11
  <2> QED
    BY <1>13, <1>15, <1>16, <2>1 DEF ToSet
<1>18. ToSet(new) \cup lost = ToSet(o) \cup {s}
  <2>1. \A t \in ToSet(o) \cup {s} : \E k \in 1..(n + 1) : order[k] = t
    <3>1. 1 \in 1..(n + 1) /\ \A k \in 1..n : k + 1 \in 1..(n + 1)
      BY <1>3
    <3>2. \A t \in ToSet(o) : \E k \in 1..n : o[k] = t
      BY <1>3 DEF ToSet
    <3> QED
      BY <1>5, <3>1, <3>2
  <2>2. \A k \in 1..(n + 1) : order[k] \in ToSet(o) \cup {s}
    BY <1>5, <1>9
  <2> QED
    BY <1>14, <1>17, <2>1, <2>2
<1>19. \A j, k \in 1..(n + 1) : order[j] = order[k] => j = k
  <2>1. \A k \in 1..(n + 1) : ~Beats(batch', order[k], order[k])
    BY <1>4, <1>9, BeatsOrder
  <2>2. \A j, k \in 1..(n + 1) : j < k \/ k < j \/ j = k
    BY <1>3
  <2> QED
    BY <1>10, <2>1, <2>2
<1>20. ToSet(new) \cap lost = {}
  BY <1>14, <1>17, <1>19
<1>21. WithinOrdered(batch', new, c)
  BY <1>9, <1>10, <1>13, <1>15, <1>16 DEF WithinOrdered
<1>22. ASSUME state' = "running"
       PROVE  CutOff(batch', new, c)
  <2>1. 1 \in 1..left
    <3>1. left # 0
      BY <1>1, <1>22
    <3> QED
      BY <1>3, <1>11, <3>1
  <2>2. 1 \in DOMAIN new /\ new[1] = s
    BY <1>5, <1>13, <1>15, <2>1
  <2>3. ASSUME NEW t \in ToSet(new), t # s PROVE Inside(batch', t, s)
    <3>1. PICK k \in 1..(n + 1) : k <= left /\ order[k] = t
      BY <1>17, <2>3
    <3>2. k # 1
      BY <1>5, <2>3, <3>1
    <3>3. t \in ToSet(batch)
      BY <1>3, <1>9, <3>1, <3>2
    <3> QED
      BY <1>4, <1>12, <3>1, <3>3 DEF Inside
  <2>4. ASSUME NEW t \in ToSet(batch'), Composition(t) = c, t \notin ToSet(new)
        PROVE  Outside(batch', t, s)
    <3>1. s \in ToSet(new)
      BY <1>5, <1>16, <1>17, <2>1
    <3>2. t \in ToSet(batch)
      BY <1>4, <2>4, <3>1
    <3>3. Percent < Hundred => AboveCutoff(t, s)
      <4>1. CASE t \in ToSet(o)
        <5>1. PICK k \in 1..(n + 1) : ~(k <= left) /\ order[k] = t
          BY <1>14, <1>18, <2>4, <4>1
        <5> QED
          BY <1>12, <5>1
      <4>2. CASE t \notin ToSet(o)
        BY <1>6, <2>4, <3>2, <4>2
      <4> QED
        BY <4>1, <4>2
    <3>4. Percent < Hundred => ~BelowCutoff(t, s)
      BY <1>4, <3>2, <3>3, Cutoffs
    <3>5. Beats(batch', s, t)
      BY <1>4, <1>6, <2>4, <3>2
    <3> QED
      BY <3>3, <3>4, <3>5 DEF Outside
  <2> QED
    BY <2>2, <2>3, <2>4 DEF CutOff
<1>23. RunOff'
  <2>1. CASE left # 0
    BY <1>1, <1>4, <2>1 DEF RunOff
  <2>2. CASE left = 0
    <3>1. AboveCutoff(s, s)
      <4>1. 1 \in 1..(n + 1) /\ ~(1 <= left)
        BY <1>3, <2>2
      <4> QED
        BY <1>5, <1>12, <4>1
    <3>2. Property[s] > 0
      BY <1>4, <3>1, Cutoffs
    <3>3. \A t \in ToSet(batch') \ {s} : Composition(t) = c => Beats(batch', s, t)
      BY <1>4, <1>6
    <3>4. state' = "undefined" /\ s \in ToSet(batch')
      BY <1>1, <1>4, <2>2
    <3> QED
      BY <3>2, <3>3, <3>4 DEF RunOff
  <2> QED
    BY <2>1, <2>2
<1> QED
  BY <1>1, <1>2, <1>18, <1>20, <1>21, <1>22, <1>23, OrderChanges

(* The inductive invariant holds in every run. *)
THEOREM WithinAlwaysIInv == WithinSpec => []WithinIInv
<1>1. WithinInit => WithinIInv
  BY WithinInitIInv
<1>2. WithinIInv /\ [WithinNext]_withinVars => WithinIInv'
  <2> SUFFICES ASSUME WithinIInv, [WithinNext]_withinVars PROVE WithinIInv'
    OBVIOUS
  <2>1. CASE \E s \in Structure : LetThroughWithin(s)
    BY <2>1, WithinLetThroughIInv
  <2>2. ASSUME NEW s \in Structure, KeepByCutoff(s)
        PROVE  WithinIInv'
    BY <2>2, KeepFirstIInv, NewLowestIInv, KeepWithinIInv, DropOutsideIInv DEF KeepByCutoff
  <2>3. CASE ReleaseWithin
    BY <2>3, WithinReleaseIInv
  <2>4. CASE UNCHANGED withinVars
    BY <2>4 DEF withinVars, barrierVars, WithinIInv, WithinAllOrdered, AllCutOff, WithinNoneForgotten, WithinApart, RunOff, Held
  <2> QED
    BY <2>1, <2>2, <2>3, <2>4 DEF WithinNext
<1> QED
  BY <1>1, <1>2, PTL DEF WithinSpec

------------------------------------------------------------------------------
(* A structure that beats all others of its composition is the lowest of it. *)
LEMMA LowestIs ==
  ASSUME WithinIInv, NEW s \in ToSet(batch),
         \A t \in ToSet(batch) \ {s} : Composition(t) = Composition(s) => Beats(batch, s, t)
  PROVE  Lowest(Composition(s)) = s
<1> DEFINE c == Composition(s)
           IsLowest(r) ==
             /\ Composition(r) = c
             /\ \A t \in ToSet(batch) \ {r} :
                  Composition(t) = c =>
                    Lower(r, t) \/ (~Lower(t, r) /\ CameBefore(batch, r, t))
<1>1. IsLowest(s)
  BY DEF Beats
<1>2. ASSUME NEW r \in ToSet(batch), IsLowest(r) PROVE r = s
  <2> SUFFICES ASSUME r # s PROVE FALSE
    OBVIOUS
  <2>1. Beats(batch, r, s) /\ Beats(batch, s, r)
    BY <1>2 DEF Beats
  <2> QED
    BY <2>1, BeatsOrder DEF WithinIInv
<1>3. Lowest(c) = CHOOSE r \in ToSet(batch) : IsLowest(r)
  BY Zenon DEF Lowest
<1> HIDE DEF IsLowest
<1> QED
  BY <1>1, <1>2, <1>3

(* The lowest is the first of its order; what is in the order is inside its
   cutoff and what is not is outside. *)
LEMMA HeldWithin == WithinIInv => HeldIsWithinCutoff
<1> SUFFICES ASSUME WithinIInv, state = "running", NEW s \in ToSet(batch)
             PROVE  LET low == Lowest(Composition(s))
                        within == \/ s = low
                                  \/ BelowCutoff(s, low)
                                  \/ ~AboveCutoff(s, low) /\ CameBefore(batch, s, low)
                    IN /\ s \in Held => within
                       /\ within /\ (Percent < Hundred \/ s = low) => s \in Held
  BY DEF HeldIsWithinCutoff
<1> DEFINE c == Composition(s)
           o == structures[c]
           low == o[1]
<1>1. /\ c \in DOMAIN structures /\ WithinOrdered(batch, o, c) /\ CutOff(batch, o, c)
  BY DEF WithinIInv, WithinNoneForgotten, WithinAllOrdered, AllCutOff
<1>2. /\ s \in Held <=> s \in ToSet(o)
      /\ \A t \in ToSet(o) : t \in ToSet(batch) /\ Composition(t) = c
  BY <1>1, WithinHeldAre
<1>3. Batch(batch)
  BY DEF WithinIInv
<1> HIDE DEF o
<1>4. DOMAIN o = 1..Len(o) /\ Len(o) \in Nat /\ low \in ToSet(o)
  BY <1>1, LenProperties DEF WithinOrdered, CutOff, ToSet
<1>5. \A t \in ToSet(batch) \ {low} : Composition(t) = c => Beats(batch, low, t)
  <2> SUFFICES ASSUME NEW t \in ToSet(batch), t # low, Composition(t) = c
               PROVE  Beats(batch, low, t)
    OBVIOUS
  <2>1. CASE t \notin ToSet(o)
    BY <1>1, <2>1 DEF CutOff, Outside
  <2>2. CASE t \in ToSet(o)
    <3>1. PICK k \in 1..Len(o) : o[k] = t
      BY <1>4, <2>2 DEF ToSet
    <3>2. 1 \in 1..Len(o) /\ 1 < k
      BY <1>4, <3>1
    <3> QED
      BY <1>1, <1>4, <3>1, <3>2 DEF WithinOrdered
  <2> QED
    BY <2>1, <2>2
<1>6. low \in ToSet(batch) /\ Composition(low) = c
  BY <1>2, <1>4
<1> HIDE DEF low
<1>7. Lowest(c) = low
  BY <1>5, <1>6, LowestIs
<1>8. CASE s \in ToSet(o)
  <2>1. s = low \/ Inside(batch, s, low)
    BY <1>1, <1>8 DEF CutOff, low
  <2> QED
    BY <1>2, <1>7, <1>8, <2>1 DEF Inside
<1>9. CASE s \notin ToSet(o)
  <2>1. Outside(batch, s, low)
    BY <1>1, <1>9 DEF CutOff, low
  <2>2. s # low /\ (CameBefore(batch, low, s) => ~CameBefore(batch, s, low))
    BY <1>3, <1>4, <1>6, <1>9, BeatsOrder
  <2> QED
    BY <1>2, <1>7, <1>9, <2>1, <2>2 DEF Outside
<1> QED
  BY <1>8, <1>9

(* The variables keep their types, and every order stays sorted. *)
THEOREM WithinTypeAlways == WithinSpec => []WithinTypeOK
<1>1. WithinIInv => WithinTypeOK
  <2> SUFFICES ASSUME WithinIInv PROVE WithinTypeOK
    OBVIOUS
  <2>1. ASSUME NEW c \in DOMAIN structures
        PROVE  /\ c \in Compositions /\ structures[c] \in Seq(Structure)
               /\ state = "running" => structures[c] # <<>>
               /\ \A j, k \in DOMAIN structures[c] :
                    j < k => ~Lower(structures[c][k], structures[c][j])
    <3>1. c \in Compositions /\ WithinOrdered(batch, structures[c], c)
      BY DEF WithinIInv, WithinAllOrdered
    <3>2. state = "running" => structures[c] # <<>>
      BY DEF WithinIInv, AllCutOff, CutOff
    <3>3. \A j, k \in DOMAIN structures[c] :
            j < k => ~Lower(structures[c][k], structures[c][j])
      BY <3>1, BeatsOrder DEF WithinIInv, WithinOrdered
    <3> QED
      BY <3>1, <3>2, <3>3 DEF WithinOrdered
  <2>2. state \in {"running", "undefined"}
    BY DEF WithinIInv, RunOff
  <2> QED
    BY <2>1, <2>2 DEF WithinTypeOK, WithinIInv, Batch, WithinApart
<1> QED
  BY <1>1, WithinAlwaysIInv, PTL

(* Each structure goes one way: it is sent, dropped or held, never two of these. *)
THEOREM WithinOneWayAlways == WithinSpec => []EachGoesOneWay
<1>1. WithinIInv => EachGoesOneWay
  <2> SUFFICES ASSUME WithinIInv PROVE EachGoesOneWay
    OBVIOUS
  <2>1. Held \subseteq ToSet(batch)
    BY WithinHeldAre
  <2>2. ToSet(batch) \subseteq Held \cup dropped
    BY WithinHeldAre DEF WithinIInv, WithinNoneForgotten
  <2> QED
    BY <2>1, <2>2 DEF EachGoesOneWay, WithinIInv, WithinApart
<1> QED
  BY <1>1, WithinAlwaysIInv, PTL

(* For any structures, in any order of arrival: while nothing undefined has
   happened the block holds the lowest and what is within its cutoff. *)
THEOREM WithinCutoffAlways == WithinSpec => []HeldIsWithinCutoff
<1>1. WithinIInv => HeldIsWithinCutoff
  BY HeldWithin
<1> QED
  BY <1>1, WithinAlwaysIInv, PTL

(* The loop that evicts runs off an order only for a lowest value above zero. *)
THEOREM DefinedUpToZero == WithinSpec => []UndefinedOnlyAboveZero
<1>1. WithinIInv => UndefinedOnlyAboveZero
  <2> SUFFICES ASSUME WithinIInv, state = "undefined"
               PROVE  \E s \in ToSet(batch) : Property[Lowest(Composition(s))] > 0
    BY DEF UndefinedOnlyAboveZero
  <2>1. PICK s \in ToSet(batch) :
          /\ Property[s] > 0
          /\ \A t \in ToSet(batch) \ {s} :
               Composition(t) = Composition(s) => Beats(batch, s, t)
    BY DEF WithinIInv, RunOff
  <2>2. Lowest(Composition(s)) = s
    BY <2>1, LowestIs
  <2> QED
    BY <2>1, <2>2
<1> QED
  BY <1>1, WithinAlwaysIInv, PTL
==============================================================================
