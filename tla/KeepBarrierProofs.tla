--------------------------- MODULE KeepBarrierProofs --------------------------
(***************************************************************************)
(* Lemmas on the order of a composition that the two Keep barriers share:  *)
(* values are in a weak order, those of a batch in a strict one by value   *)
(* and time of arrival, and inserting keeps an order that of its batch.    *)
(***************************************************************************)
EXTENDS KeepBarrier, TLAPS, SequenceTheorems, FiniteSetTheorems

(* Fractions with positive denominators, compared by cross-multiplication. *)
LEMMA Fractions ==
  ASSUME NEW a \in Int, NEW b \in Int, NEW c \in Int,
         NEW u \in Nat \ {0}, NEW v \in Nat \ {0}, NEW w \in Nat \ {0}
  PROVE  /\ (a * v < b * u /\ ~(c * v < b * w)) => a * w < c * u
         /\ (~(b * u < a * v) /\ b * w < c * v) => a * w < c * u
         /\ (~(b * u < a * v) /\ ~(c * v < b * w)) => ~(c * u < a * w)
<1>1. ASSUME NEW x \in Int, NEW y \in Int, NEW k \in Nat \ {0}
      PROVE  (x < y <=> x * k < y * k) /\ x * k \in Int
  OBVIOUS
<1>2. /\ (a * v < b * u <=> (a * v) * w < (b * u) * w)
      /\ (b * u < a * v <=> (b * u) * w < (a * v) * w)
      /\ (c * v < b * w <=> (c * v) * u < (b * w) * u)
      /\ (b * w < c * v <=> (b * w) * u < (c * v) * u)
      /\ (a * w < c * u <=> (a * w) * v < (c * u) * v)
      /\ (c * u < a * w <=> (c * u) * v < (a * w) * v)
  BY <1>1
<1>3. (a * v) * w = (a * w) * v /\ (b * u) * w = (b * w) * u /\ (c * v) * u = (c * u) * v
  OBVIOUS
<1> DEFINE x == (a * w) * v
           y == (b * w) * u
           z == (c * u) * v
<1>4. x \in Int /\ y \in Int /\ z \in Int
  OBVIOUS
<1>5. /\ (a * v < b * u <=> x < y) /\ (b * u < a * v <=> y < x)
      /\ (c * v < b * w <=> z < y) /\ (b * w < c * v <=> y < z)
      /\ (a * w < c * u <=> x < z) /\ (c * u < a * w <=> z < x)
  BY <1>2, <1>3
<1> HIDE DEF x, y, z
<1> QED
  BY <1>4, <1>5

(* The weight of a structure is positive. *)
LEMMA WeightPositive ==
  ASSUME NEW s \in Structure
  PROVE  Weight(s) \in Nat \ {0}
<1>1. Formula[s] \in (Nat \X Nat) \ {<<0, 0>>}
  BY StructureAssumption
<1>2. Formula[s][1] \in Nat /\ Formula[s][2] \in Nat /\ Formula[s][1] + Formula[s][2] # 0
  BY <1>1
<1> QED
  BY <1>2 DEF Weight

(* Values are in a weak order: none is lower than itself, two are not each
   lower than the other, and a value not higher than a lower one is lower. *)
LEMMA LowerOrder ==
  ASSUME NEW s \in Structure, NEW t \in Structure, NEW r \in Structure,
         HasProperty(s), HasProperty(t), HasProperty(r)
  PROVE  /\ ~Lower(s, s)
         /\ Lower(s, t) => ~Lower(t, s)
         /\ Lower(s, t) /\ ~Lower(r, t) => Lower(s, r)
         /\ ~Lower(t, s) /\ Lower(t, r) => Lower(s, r)
         /\ ~Lower(t, s) /\ ~Lower(r, t) => ~Lower(r, s)
<1>1. /\ Property[s] \in Int /\ Property[t] \in Int /\ Property[r] \in Int
      /\ Weight(s) \in Nat \ {0} /\ Weight(t) \in Nat \ {0} /\ Weight(r) \in Nat \ {0}
  BY StructureAssumption, WeightPositive DEF HasProperty
<1>2. /\ Lower(s, t) /\ ~Lower(r, t) => Lower(s, r)
      /\ ~Lower(t, s) /\ Lower(t, r) => Lower(s, r)
      /\ ~Lower(t, s) /\ ~Lower(r, t) => ~Lower(r, s)
  <2> DEFINE a == Property[s]
             b == Property[t]
             c == Property[r]
             u == Weight(s)
             v == Weight(t)
             w == Weight(r)
  <2>1. /\ Lower(s, t) <=> a * v < b * u
        /\ Lower(t, s) <=> b * u < a * v
        /\ Lower(t, r) <=> b * w < c * v
        /\ Lower(r, t) <=> c * v < b * w
        /\ Lower(s, r) <=> a * w < c * u
        /\ Lower(r, s) <=> c * u < a * w
    BY DEF Lower
  <2>2. /\ a \in Int /\ b \in Int /\ c \in Int
        /\ u \in Nat \ {0} /\ v \in Nat \ {0} /\ w \in Nat \ {0}
    BY <1>1
  <2> HIDE DEF a, b, c, u, v, w
  <2>3. /\ (a * v < b * u /\ ~(c * v < b * w)) => a * w < c * u
        /\ (~(b * u < a * v) /\ b * w < c * v) => a * w < c * u
        /\ (~(b * u < a * v) /\ ~(c * v < b * w)) => ~(c * u < a * w)
    BY <2>2, Fractions
  <2> QED
    BY <2>1, <2>3
<1>3. ~Lower(s, s) /\ (Lower(s, t) => ~Lower(t, s))
  BY <1>1 DEF Lower
<1> QED
  BY <1>2, <1>3

(* A batch: structures with the property, each once. *)
Batch(b) ==
  /\ b \in Seq(Structure)
  /\ \A j, k \in DOMAIN b : b[j] = b[k] => j = k
  /\ \A s \in ToSet(b) : s \in Structure /\ HasProperty(s)

(* t comes before s in an order: it is lower, or it is not higher and came first. *)
Beats(b, t, s) == Lower(t, s) \/ (~Lower(s, t) /\ CameBefore(b, t, s))

(* Of a batch, that is a strict order. *)
LEMMA BeatsOrder ==
  ASSUME NEW b, Batch(b), NEW s \in ToSet(b), NEW t \in ToSet(b), NEW r \in ToSet(b)
  PROVE  /\ ~Beats(b, s, s)
         /\ Beats(b, s, t) => ~Beats(b, t, s)
         /\ Beats(b, s, t) => ~Lower(t, s)
         /\ Beats(b, s, t) /\ Beats(b, t, r) => Beats(b, s, r)
         /\ CameBefore(b, s, t) => ~CameBefore(b, t, s)
<1>1. DOMAIN b \subseteq Int
  BY LenProperties DEF Batch
<1>2. /\ ~CameBefore(b, s, s)
      /\ CameBefore(b, s, t) => ~CameBefore(b, t, s)
      /\ CameBefore(b, s, t) /\ CameBefore(b, t, r) => CameBefore(b, s, r)
  BY <1>1 DEF Batch, CameBefore
<1>3. /\ s \in Structure /\ HasProperty(s) /\ t \in Structure /\ HasProperty(t)
      /\ r \in Structure /\ HasProperty(r)
  BY DEF Batch
<1>4. /\ ~Lower(s, s)
      /\ Lower(s, t) => ~Lower(t, s)
      /\ Lower(s, t) /\ ~Lower(r, t) => Lower(s, r)
      /\ ~Lower(t, s) /\ Lower(t, r) => Lower(s, r)
      /\ ~Lower(t, s) /\ ~Lower(r, t) => ~Lower(r, s)
      /\ Lower(t, r) => ~Lower(r, t)
  BY <1>3, LowerOrder
<1> QED
  BY <1>2, <1>4 DEF Beats

(* One more structure comes: it is the last, so that it is beaten by all that
   are not higher. *)
LEMMA BatchGrows ==
  ASSUME NEW b, Batch(b), NEW s \in Structure, HasProperty(s), s \notin ToSet(b)
  PROVE  /\ Batch(Append(b, s))
         /\ ToSet(Append(b, s)) = ToSet(b) \cup {s}
         /\ \A t, r \in ToSet(b) : Beats(Append(b, s), t, r) <=> Beats(b, t, r)
         /\ \A t \in ToSet(b) : /\ Beats(Append(b, s), t, s) <=> ~Lower(s, t)
                                /\ Beats(Append(b, s), s, t) <=> Lower(s, t)
         /\ \A t, r \in ToSet(b) : CameBefore(Append(b, s), t, r) <=> CameBefore(b, t, r)
         /\ \A t \in ToSet(b) : CameBefore(Append(b, s), t, s)
<1> DEFINE n == Len(b)
           c == Append(b, s)
<1>1. /\ n \in Nat /\ DOMAIN b = 1..n /\ \A k \in 1..n : b[k] \in Structure
      /\ c \in Seq(Structure) /\ DOMAIN c = 1..(n + 1)
      /\ c[n + 1] = s /\ \A k \in 1..n : c[k] = b[k]
  <2>1. /\ b \in Seq(Structure) /\ c \in Seq(Structure) /\ Len(c) = n + 1
        /\ c[n + 1] = s /\ \A k \in 1..n : c[k] = b[k]
    BY AppendProperties DEF Batch
  <2> HIDE DEF c
  <2>2. DOMAIN b = 1..n /\ DOMAIN c = 1..(n + 1) /\ n \in Nat
    BY <2>1, LenProperties
  <2> QED
    BY <2>1, <2>2, ElementOfSeq
<1> HIDE DEF n, c
<1>2. \A k \in 1..(n + 1) : k \in 1..n \/ k = n + 1
  BY <1>1
<1>3. \A k \in 1..n : k \in 1..(n + 1) /\ k < n + 1 /\ b[k] # s /\ b[k] \in ToSet(b)
  BY <1>1 DEF ToSet
<1>4. n + 1 \in 1..(n + 1) /\ \A k \in 1..(n + 1) : ~(n + 1 < k)
  BY <1>1
<1>5. ToSet(c) = ToSet(b) \cup {s}
  <2>1. \A x \in ToSet(c) : x \in ToSet(b) \cup {s}
    BY <1>1, <1>2 DEF ToSet
  <2>2. \A x \in ToSet(b) \cup {s} : x \in ToSet(c)
    BY <1>1, <1>3, <1>4 DEF ToSet
  <2> QED
    BY <2>1, <2>2
<1>6. \A j, k \in 1..(n + 1) : c[j] = c[k] => j = k
  BY <1>1, <1>2, <1>3 DEF Batch
<1>7. Batch(c)
  BY <1>1, <1>5, <1>6 DEF Batch
<1>8. ASSUME NEW t \in ToSet(b), NEW r \in ToSet(b)
      PROVE  CameBefore(c, t, r) <=> CameBefore(b, t, r)
  <2>1. t # s /\ r # s
    OBVIOUS
  <2>2. CameBefore(c, t, r) => CameBefore(b, t, r)
    BY <1>1, <1>2, <2>1 DEF CameBefore
  <2>3. CameBefore(b, t, r) => CameBefore(c, t, r)
    BY <1>1, <1>3 DEF CameBefore
  <2> QED
    BY <2>2, <2>3
<1>9. ASSUME NEW t \in ToSet(b)
      PROVE  CameBefore(c, t, s) /\ ~CameBefore(c, s, t)
  <2>1. PICK k \in 1..n : b[k] = t
    BY <1>1 DEF ToSet
  <2>2. CameBefore(c, t, s)
    BY <1>1, <1>3, <1>4, <2>1 DEF CameBefore
  <2>3. ~CameBefore(c, s, t)
    BY <1>1, <1>3, <1>4, <1>6 DEF CameBefore
  <2> QED
    BY <2>2, <2>3
<1>10. \A t \in ToSet(b) : Lower(t, s) => ~Lower(s, t)
  BY LowerOrder DEF Batch
<1> QED
  BY <1>5, <1>7, <1>8, <1>9, <1>10 DEF Beats, c

(* A set of positions with all the ones before each of its own is a prefix. *)
LEMMA PrefixOfPositions ==
  ASSUME NEW n \in Nat, NEW D \in SUBSET (1..n), \A k \in D : 1..k \subseteq D
  PROVE  Cardinality(D) \in 0..n /\ D = 1..Cardinality(D)
<1> DEFINE m == Cardinality(D)
<1>1. IsFiniteSet(1..n) /\ Cardinality(1..n) = n
  BY FS_Interval
<1>2. IsFiniteSet(D) /\ m \in Nat /\ m <= n
  BY <1>1, FS_Subset, FS_CardinalityType
<1>3. ASSUME NEW k \in D PROVE k \in 1..m
  <2>1. k \in Nat \ {0}
    OBVIOUS
  <2>2. Cardinality(1..k) = k
    BY <2>1, FS_Interval
  <2>3. Cardinality(1..k) <= m
    BY <1>2, FS_Subset
  <2> QED
    BY <1>2, <2>1, <2>2, <2>3
<1>4. IsFiniteSet(1..m) /\ Cardinality(1..m) = m
  BY <1>2, FS_Interval
<1>5. D \in SUBSET (1..m)
  BY <1>3
<1> HIDE DEF m
<1>6. Cardinality(1..m) = Cardinality(D)
  BY <1>4 DEF m
<1>7. 1..m = D
  BY <1>4, <1>5, <1>6, FS_Subset
<1> QED
  BY <1>2, <1>7 DEF m

(* The first m elements of a sequence. *)
LEMMA TakenFirst ==
  ASSUME NEW S, NEW o \in Seq(S), NEW m \in 0..Len(o)
  PROVE  /\ SubSeq(o, 1, m) \in Seq(S) /\ Len(SubSeq(o, 1, m)) = m
         /\ \A i \in 1..m : SubSeq(o, 1, m)[i] = o[i]
<1> DEFINE front == SubSeq(o, 1, m)
<1>1. m \in Nat /\ \A i \in 1..m : o[i] \in S /\ 1 + i - 1 = i
  BY LenProperties, ElementOfSeq
<1>2. /\ front \in Seq(S) /\ Len(front) = IF 1 <= m THEN m - 1 + 1 ELSE 0
      /\ \A i \in 1..(m - 1 + 1) : front[i] = o[1 + i - 1]
  BY <1>1, SubSeqProperties
<1> HIDE DEF front
<1>3. m - 1 + 1 = m
  BY <1>1
<1>4. front \in Seq(S) /\ Len(front) = m /\ \A i \in 1..m : front[i] = o[i]
  BY <1>1, <1>2, <1>3
<1> QED
  BY <1>4 DEF front

(* Where the elements of a sequence go when one is inserted behind the first m. *)
LEMMA InsertedAt ==
  ASSUME NEW S, NEW o \in Seq(S), NEW s \in S, NEW m \in 0..Len(o)
  PROVE  /\ InsertAt(o, m + 1, s) \in Seq(S)
         /\ Len(InsertAt(o, m + 1, s)) = Len(o) + 1
         /\ \A i \in 1..(Len(o) + 1) :
              InsertAt(o, m + 1, s)[i] =
                IF i <= m THEN o[i] ELSE IF i = m + 1 THEN s ELSE o[i - 1]
<1> DEFINE n == Len(o)
           front == SubSeq(o, 1, m)
           back == SubSeq(o, m + 1, n)
<1>1. n \in Nat /\ m \in Nat /\ m <= n /\ \A i \in 1..n : o[i] \in S
  BY LenProperties, ElementOfSeq
<1>2. InsertAt(o, m + 1, s) = (front \o <<s>>) \o back
  <2>1. (m + 1) - 1 = m
    BY <1>1
  <2>2. InsertAt(o, m + 1, s) =
          (SubSeq(o, 1, (m + 1) - 1) \o <<s>>) \o SubSeq(o, m + 1, Len(o))
    BY Zenon DEF InsertAt
  <2> QED
    BY <2>1, <2>2, Zenon
<1> HIDE DEF n
<1>3. front \in Seq(S) /\ Len(front) = m /\ \A i \in 1..m : front[i] = o[i]
  BY TakenFirst
<1>4. back \in Seq(S) /\ Len(back) = n - m /\ \A i \in 1..(n - m) : back[i] = o[m + i]
  <2>1. \A i \in (m + 1)..n : o[i] \in S
    BY <1>1
  <2>2. /\ back \in Seq(S) /\ Len(back) = IF m + 1 <= n THEN n - (m + 1) + 1 ELSE 0
        /\ \A i \in 1..(n - (m + 1) + 1) : back[i] = o[m + 1 + i - 1]
    BY <1>1, <2>1, SubSeqProperties
  <2> HIDE DEF back
  <2>3. \A i \in 1..(n - m) : i \in 1..(n - (m + 1) + 1) /\ m + 1 + i - 1 = m + i
    BY <1>1
  <2> QED
    BY <1>1, <2>2, <2>3
<1> HIDE DEF front, back
<1>5. <<s>> \in Seq(S) /\ Len(<<s>>) = 1 /\ <<s>>[1] = s
  OBVIOUS
<1> DEFINE head == front \o <<s>>
<1>6. /\ head \in Seq(S) /\ Len(head) = m + 1
      /\ \A i \in 1..(m + 1) : head[i] = IF i <= m THEN o[i] ELSE s
  <2>1. /\ head \in Seq(S) /\ Len(head) = m + 1
        /\ \A i \in 1..(m + 1) : head[i] = IF i <= m THEN front[i] ELSE <<s>>[i - m]
    BY <1>3, <1>5, ConcatProperties
  <2> HIDE DEF head
  <2>2. \A i \in 1..(m + 1) : (i <= m => i \in 1..m) /\ (~(i <= m) => i - m = 1)
    BY <1>1
  <2> QED
    BY <1>3, <1>5, <2>1, <2>2
<1> HIDE DEF head
<1>7. /\ head \o back \in Seq(S) /\ Len(head \o back) = n + 1
      /\ \A i \in 1..(n + 1) : (head \o back)[i] =
           IF i <= m + 1 THEN head[i] ELSE back[i - (m + 1)]
  <2>1. /\ head \o back \in Seq(S) /\ Len(head \o back) = Len(head) + Len(back)
        /\ \A i \in 1..(Len(head) + Len(back)) : (head \o back)[i] =
             IF i <= Len(head) THEN head[i] ELSE back[i - Len(head)]
    BY <1>4, <1>6, ConcatProperties
  <2>2. Len(head) = m + 1 /\ Len(head) + Len(back) = n + 1
    BY <1>1, <1>4, <1>6
  <2> QED
    BY <2>1, <2>2
<1>8. \A i \in 1..(n + 1) : (head \o back)[i] =
        IF i <= m THEN o[i] ELSE IF i = m + 1 THEN s ELSE o[i - 1]
  <2> TAKE i \in 1..(n + 1)
  <2>1. CASE i <= m + 1
    <3>1. i \in 1..(m + 1) /\ (~(i <= m) => i = m + 1)
      BY <1>1, <2>1
    <3> QED
      BY <1>6, <1>7, <2>1, <3>1
  <2>2. CASE ~(i <= m + 1)
    <3>1. /\ i - (m + 1) \in 1..(n - m) /\ m + (i - (m + 1)) = i - 1
          /\ ~(i <= m) /\ i # m + 1
      BY <1>1, <2>2
    <3> QED
      BY <1>4, <1>7, <2>2, <3>1
  <2> QED
    BY <2>1, <2>2
<1>9. InsertAt(o, m + 1, s) = head \o back
  BY <1>2, Zenon DEF head
<1> DEFINE all == head \o back
<1>10. all \in Seq(S) /\ Len(all) = n + 1 /\ \A i \in 1..(n + 1) :
         all[i] = IF i <= m THEN o[i] ELSE IF i = m + 1 THEN s ELSE o[i - 1]
  BY <1>7, <1>8
<1>11. InsertAt(o, m + 1, s) = all
  BY <1>9
<1> HIDE DEF all
<1> QED
  BY <1>10, <1>11 DEF n

(* Inserting a structure that has just come keeps an order that of its batch. *)
LEMMA InsertedInOrder ==
  ASSUME NEW b, Batch(b), NEW s \in Structure, HasProperty(s), s \notin ToSet(b),
         NEW o \in Seq(Structure),
         \A k \in DOMAIN o : o[k] \in ToSet(b),
         \A j, k \in DOMAIN o : j < k => Beats(b, o[j], o[k])
  PROVE  /\ Inserted(o, s) \in Seq(Structure)
         /\ Len(Inserted(o, s)) = Len(o) + 1
         /\ ToSet(Inserted(o, s)) = ToSet(o) \cup {s}
         /\ \A j, k \in DOMAIN Inserted(o, s) :
              j < k => Beats(Append(b, s), Inserted(o, s)[j], Inserted(o, s)[k])
<1> DEFINE n == Len(o)
           D == {k \in DOMAIN o : ~Lower(s, o[k])}
           m == Cardinality(D)
           new == Inserted(o, s)
           c == Append(b, s)
<1>1. n \in Nat /\ DOMAIN o = 1..n
  BY LenProperties
<1>2. \A k \in 1..n : o[k] \in ToSet(b) /\ o[k] \in Structure /\ HasProperty(o[k])
  BY <1>1 DEF Batch
<1> HIDE DEF n
<1>3. ASSUME NEW k \in D, NEW j \in 1..k PROVE j \in D
  <2>1. k \in 1..n /\ j \in 1..n /\ ~Lower(s, o[k]) /\ (j = k \/ j < k)
    BY <1>1, <1>3
  <2>2. CASE j < k
    <3>1. ~Lower(o[k], o[j])
      BY <1>1, <1>2, <2>1, <2>2, BeatsOrder
    <3>2. ~Lower(s, o[j])
      BY <1>2, <2>1, <3>1, LowerOrder
    <3> QED
      BY <1>1, <2>1, <3>2
  <2> QED
    BY <2>1, <2>2
<1>4. m \in 0..n /\ D = 1..m
  <2>1. D \in SUBSET (1..n)
    BY <1>1
  <2>2. \A k \in D : 1..k \subseteq D
    BY <1>3
  <2> HIDE DEF D
  <2> QED
    BY <1>1, <2>1, <2>2, PrefixOfPositions
<1>5. \A k \in 1..n : Lower(s, o[k]) <=> ~(k <= m)
  <2>1. \A k \in 1..n : k \in D <=> ~Lower(s, o[k])
    BY <1>1
  <2> HIDE DEF D, m
  <2> QED
    BY <1>1, <1>4, <2>1
<1>6. new = InsertAt(o, m + 1, s)
  BY DEF Inserted
<1> HIDE DEF m, D
<1>7. /\ new \in Seq(Structure) /\ Len(new) = n + 1
      /\ \A i \in 1..(n + 1) :
           new[i] = IF i <= m THEN o[i] ELSE IF i = m + 1 THEN s ELSE o[i - 1]
  <2>1. m \in 0..Len(o)
    BY <1>4 DEF n
  <2> DEFINE at == InsertAt(o, m + 1, s)
  <2>2. /\ at \in Seq(Structure) /\ Len(at) = Len(o) + 1
        /\ \A i \in 1..(Len(o) + 1) :
             at[i] = IF i <= m THEN o[i] ELSE IF i = m + 1 THEN s ELSE o[i - 1]
    BY <2>1, InsertedAt
  <2>3. new = at
    BY <1>6
  <2> HIDE DEF new, at
  <2> QED
    BY <2>2, <2>3 DEF n
<1> HIDE DEF new, c
<1>8. DOMAIN new = 1..(n + 1)
  BY <1>7, LenProperties
<1>9. \A i \in 1..(n + 1) :
        \/ i <= m /\ i \in 1..n /\ new[i] = o[i]
        \/ i = m + 1 /\ new[i] = s
        \/ m + 1 < i /\ i - 1 \in 1..n /\ ~(i - 1 <= m) /\ new[i] = o[i - 1]
  <2> TAKE i \in 1..(n + 1)
  <2>1. m \in Nat /\ i \in Nat
    BY <1>1, <1>4
  <2>2. CASE i <= m
    <3>1. i \in 1..n
      BY <1>1, <1>4, <2>1, <2>2
    <3> QED
      BY <1>7, <2>2, <3>1
  <2>3. CASE i = m + 1
    <3>1. ~(i <= m)
      BY <2>1, <2>3
    <3> QED
      BY <1>7, <2>3, <3>1
  <2>4. CASE m + 1 < i
    <3>1. i - 1 \in 1..n /\ ~(i - 1 <= m) /\ ~(i <= m) /\ i # m + 1
      BY <1>1, <2>1, <2>4
    <3>2. new[i] = o[i - 1]
      BY <1>7, <3>1
    <3> QED
      BY <2>4, <3>1, <3>2
  <2> QED
    BY <2>1, <2>2, <2>3, <2>4
<1>10. ToSet(new) = ToSet(o) \cup {s}
  <2>1. \A x \in ToSet(new) : x \in ToSet(o) \cup {s}
    BY <1>1, <1>8, <1>9 DEF ToSet
  <2>2. s \in ToSet(new)
    <3>1. m + 1 \in 1..(n + 1) /\ ~(m + 1 <= m)
      BY <1>1, <1>4
    <3> QED
      BY <1>7, <1>8, <3>1 DEF ToSet
  <2>3. ASSUME NEW k \in 1..n PROVE o[k] \in ToSet(new)
    <3>1. CASE k <= m
      <4>1. k \in 1..(n + 1)
        BY <1>1
      <4> QED
        BY <1>7, <1>8, <3>1, <4>1 DEF ToSet
    <3>2. CASE ~(k <= m)
      <4>1. k + 1 \in 1..(n + 1) /\ ~(k + 1 <= m) /\ k + 1 # m + 1 /\ (k + 1) - 1 = k
        BY <1>1, <1>4, <3>2
      <4>2. new[k + 1] = o[k]
        BY <1>7, <4>1
      <4> QED
        BY <1>8, <4>1, <4>2 DEF ToSet
    <3> QED
      BY <3>1, <3>2
  <2>4. \A x \in ToSet(o) : x \in ToSet(new)
    BY <1>1, <2>3 DEF ToSet
  <2> QED
    BY <2>1, <2>2, <2>4
<1>11. /\ \A t, r \in ToSet(b) : Beats(c, t, r) <=> Beats(b, t, r)
       /\ \A t \in ToSet(b) : /\ Beats(c, t, s) <=> ~Lower(s, t)
                              /\ Beats(c, s, t) <=> Lower(s, t)
  BY BatchGrows DEF c
<1>12. ASSUME NEW j \in 1..(n + 1), NEW k \in 1..(n + 1), j < k
       PROVE  Beats(c, new[j], new[k])
  <2>1. CASE k <= m
    <3>1. j <= m /\ j \in 1..n /\ k \in 1..n
      BY <1>1, <1>4, <1>12, <2>1
    <3>2. new[j] = o[j] /\ new[k] = o[k]
      BY <1>7, <2>1, <3>1
    <3> QED
      BY <1>1, <1>2, <1>11, <1>12, <3>1, <3>2
  <2>2. CASE k = m + 1
    <3>1. j <= m /\ j \in 1..n /\ new[j] = o[j] /\ new[k] = s
      BY <1>1, <1>4, <1>7, <1>12, <2>2
    <3> QED
      BY <1>2, <1>5, <1>11, <3>1
  <2>3. CASE m + 1 < k
    <3>1. k - 1 \in 1..n /\ ~(k - 1 <= m) /\ new[k] = o[k - 1]
      BY <1>1, <1>4, <1>7, <2>3
    <3>2. CASE j <= m
      <4>1. j \in 1..n /\ j < k - 1 /\ new[j] = o[j]
        BY <1>1, <1>4, <1>7, <2>3, <3>2
      <4> QED
        BY <1>1, <1>2, <1>11, <3>1, <4>1
    <3>3. CASE j = m + 1
      <4>1. new[j] = s
        BY <1>4, <1>7, <3>3
      <4> QED
        BY <1>2, <1>5, <1>11, <3>1, <4>1
    <3>4. CASE m + 1 < j
      <4>1. j - 1 \in 1..n /\ j - 1 < k - 1 /\ new[j] = o[j - 1]
        BY <1>1, <1>4, <1>7, <1>12, <3>4
      <4> QED
        BY <1>1, <1>2, <1>11, <3>1, <4>1
    <3> QED
      BY <1>4, <3>2, <3>3, <3>4
  <2> QED
    BY <1>4, <2>1, <2>2, <2>3
<1> QED
  BY <1>7, <1>8, <1>10, <1>12 DEF new, c, n

(* Front leaves the last element out, and keeps the others where they are. *)
LEMMA FrontAndLast ==
  ASSUME NEW S, NEW o \in Seq(S), NEW n \in Nat, Len(o) = n + 1
  PROVE  /\ Front(o) \in Seq(S) /\ Len(Front(o)) = n
         /\ \A i \in 1..n : Front(o)[i] = o[i]
         /\ Last(o) = o[n + 1]
<1>1. Front(o) = SubSeq(o, 1, n) /\ Last(o) = o[n + 1]
  <2>1. Front(o) = SubSeq(o, 1, Len(o) - 1) /\ Last(o) = o[Len(o)]
    BY Zenon DEF Front, Last
  <2>2. (n + 1) - 1 = n
    OBVIOUS
  <2> QED
    BY <2>1, <2>2, Zenon
<1>2. n \in 0..Len(o)
  OBVIOUS
<1> QED
  BY <1>1, <1>2, TakenFirst
=============================================================================
