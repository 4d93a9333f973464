--------------------------- MODULE DataTableProofs ---------------------------
(***************************************************************************)
(* A table's file holds what the writer remembers to have written, and the *)
(* table when a run is over, for any keys, columns, values and files.  The *)
(* texts are folds, which are unfolded here from the end and then split    *)
(* where the writer stopped.                                               *)
(***************************************************************************)
EXTENDS DataTableSupport, SumProofs, SequenceTheorems

------------------------------------------------------------------------------
(* FlattenSeq is the last value of a recursive function, f. *)
Joined(seqs, f) ==
  f = [i \in 1..Len(seqs) |-> IF i = 1 THEN seqs[i] ELSE f[i - 1] \o seqs[i]]

(* There is such a function: one for n sequences is continued to n + 1. *)
LEMMA JoinedExists ==
  ASSUME NEW T, NEW seqs \in Seq(Seq(T))
  PROVE  \E f : Joined(seqs, f)
<1> DEFINE Step(f, n) ==
             f = [i \in 1..n |-> IF i = 1 THEN seqs[i] ELSE f[i - 1] \o seqs[i]]
           Good == {n \in Nat : \E f : Step(f, n)}
<1>1. 0 \in Good
  <2>1. Step([i \in 1..0 |-> <<>>], 0)
    OBVIOUS
  <2> QED
    BY <2>1
<1>2. ASSUME NEW n \in Nat, n \in Good
      PROVE  n + 1 \in Good
  <2>1. PICK f : Step(f, n)
    BY <1>2
  <2> DEFINE g == [i \in 1..(n + 1) |->
                     IF i = n + 1
                     THEN IF i = 1 THEN seqs[i] ELSE f[n] \o seqs[i]
                     ELSE f[i]]
  <2>2. ASSUME NEW i \in 1..(n + 1)
        PROVE  g[i] = IF i = 1 THEN seqs[i] ELSE g[i - 1] \o seqs[i]
    <3>1. CASE i = n + 1
      <4>1. i # 1 => i - 1 \in 1..(n + 1) /\ i - 1 # n + 1 /\ i - 1 = n
        BY <3>1
      <4>2. i # 1 => g[i - 1] = f[n]
        BY <4>1
      <4> QED
        BY <3>1, <4>2
    <3>2. CASE i # n + 1
      <4>1. i \in 1..n
        BY <3>2
      <4>2. f[i] = IF i = 1 THEN seqs[i] ELSE f[i - 1] \o seqs[i]
        BY <2>1, <4>1
      <4>3. i # 1 => i - 1 \in 1..(n + 1) /\ i - 1 # n + 1
        BY <4>1
      <4>4. i # 1 => g[i - 1] = f[i - 1]
        BY <4>3
      <4> QED
        BY <3>2, <4>2, <4>4
    <3> QED
      BY <3>1, <3>2
  <2>3. g = [i \in 1..(n + 1) |-> g[i]]
    OBVIOUS
  <2> HIDE DEF g
  <2>4. Step(g, n + 1)
    BY <2>2, <2>3
  <2>5. n + 1 \in Nat /\ \E h : Step(h, n + 1)
    <3> HIDE DEF Step
    <3> QED
      BY <2>4
  <2> QED
    BY <2>5
<1> HIDE DEF Good
<1>3. \A n \in Nat : n \in Good
  BY <1>1, <1>2, NumberInduction
<1>4. Len(seqs) \in Good
  BY <1>3
<1> QED
  BY <1>4 DEF Good, Joined

(* t begins with the n that s begins with. *)
Alike(s, t, n) == \A i \in 1..n : s[i] = t[i]

(* Where one list begins with another, so does its function. *)
LEMMA JoinedSame ==
  ASSUME NEW T, NEW s \in Seq(Seq(T)), NEW t \in Seq(Seq(T)),
         NEW f, Joined(s, f), NEW g, Joined(t, g),
         Len(s) <= Len(t), Alike(s, t, Len(s))
  PROVE  Alike(f, g, Len(s))
<1> DEFINE n == Len(s)
           Good == {k \in Nat : k \in 1..n => f[k] = g[k]}
<1>1. 0 \in Good
  OBVIOUS
<1>2. ASSUME NEW k \in Nat, k \in Good
      PROVE  k + 1 \in Good
  <2>1. SUFFICES ASSUME k + 1 \in 1..n
                 PROVE  f[k + 1] = g[k + 1]
    OBVIOUS
  <2>2. k + 1 \in 1..Len(s) /\ k + 1 \in 1..Len(t) /\ s[k + 1] = t[k + 1]
    BY <2>1 DEF Alike
  <2>3. /\ f[k + 1] = IF k + 1 = 1 THEN s[k + 1] ELSE f[(k + 1) - 1] \o s[k + 1]
        /\ g[k + 1] = IF k + 1 = 1 THEN t[k + 1] ELSE g[(k + 1) - 1] \o t[k + 1]
    BY <2>2 DEF Joined
  <2>4. (k + 1) - 1 = k /\ (k + 1 # 1 => k \in 1..n)
    BY <2>1
  <2> QED
    BY <1>2, <2>2, <2>3, <2>4
<1> HIDE DEF Good
<1>3. \A k \in Nat : k \in Good
  BY <1>1, <1>2, NumberInduction
<1> QED
  BY <1>3 DEF Good, Alike

(* The value of FlattenSeq. *)
LEMMA FlattenIs ==
  ASSUME NEW T, NEW s \in Seq(Seq(T)), Len(s) # 0, NEW f, Joined(s, f)
  PROVE  FlattenSeq(s) = f[Len(s)]
<1> DEFINE g == CHOOSE h : Joined(s, h)
<1>1. Joined(s, g)
  BY JoinedExists
<1>2. FlattenSeq(s) = g[Len(s)]
  BY Zenon DEF FlattenSeq, Joined
<1> HIDE DEF g
<1>3. Len(s) \in Nat /\ Len(s) \in 1..Len(s)
  OBVIOUS
<1>4. Alike(s, s, Len(s)) /\ Len(s) <= Len(s)
  BY <1>3 DEF Alike
<1>5. Alike(f, g, Len(s))
  BY <1>1, <1>4, JoinedSame
<1> QED
  BY <1>2, <1>3, <1>5 DEF Alike

(* No texts are no text, and one more stands behind the others. *)
LEMMA FlattenAppend ==
  ASSUME NEW T
  PROVE  /\ FlattenSeq(<<>>) = <<>>
         /\ \A s \in Seq(Seq(T)), x \in Seq(T) :
              FlattenSeq(s) \in Seq(T) =>
                FlattenSeq(Append(s, x)) = FlattenSeq(s) \o x
<1>1. FlattenSeq(<<>>) = <<>>
  BY DEF FlattenSeq
<1>2. ASSUME NEW s \in Seq(Seq(T)), NEW x \in Seq(T), FlattenSeq(s) \in Seq(T)
      PROVE  FlattenSeq(Append(s, x)) = FlattenSeq(s) \o x
  <2> DEFINE t == Append(s, x)
             n == Len(s)
  <2>1. /\ t \in Seq(Seq(T)) /\ n \in Nat /\ Len(t) = n + 1 /\ t[n + 1] = x
        /\ \A i \in 1..n : t[i] = s[i]
    OBVIOUS
  <2> HIDE DEF t
  <2>2. PICK g : Joined(t, g)
    BY <2>1, JoinedExists
  <2>3. FlattenSeq(t) = g[n + 1]
    BY <2>1, <2>2, FlattenIs
  <2>4. g[n + 1] = IF n + 1 = 1 THEN x ELSE g[(n + 1) - 1] \o x
    <3>1. n + 1 \in 1..Len(t)
      BY <2>1
    <3>2. g[n + 1] = IF n + 1 = 1 THEN t[n + 1] ELSE g[(n + 1) - 1] \o t[n + 1]
      <4> HIDE DEF n
      <4> QED
        BY <2>2, <3>1 DEF Joined
    <3> QED
      BY <2>1, <3>2
  <2>5. CASE n = 0
    <3>1. s = <<>>
      BY <2>5
    <3>2. <<>> \o x = x
      OBVIOUS
    <3> QED
      BY <1>1, <2>3, <2>4, <2>5, <3>1, <3>2 DEF t
  <2>6. CASE n # 0
    <3>1. PICK f : Joined(s, f)
      BY JoinedExists
    <3>2. FlattenSeq(s) = f[n]
      BY <2>6, <3>1, FlattenIs
    <3>3. Alike(s, t, n)
      BY <2>1 DEF Alike
    <3>4. n <= Len(s) /\ n <= Len(t) /\ n \in 1..n /\ (n + 1) - 1 = n
      BY <2>1, <2>6
    <3>5. Alike(f, g, n)
      <4>1. Len(s) <= Len(t) /\ t \in Seq(Seq(T))
        BY <2>1
      <4> QED
        BY <2>2, <3>1, <3>3, <4>1, JoinedSame
    <3>6. n + 1 # 1 /\ f[n] = g[n]
      BY <2>1, <2>6, <3>4, <3>5 DEF Alike
    <3> HIDE DEF n
    <3>7. FlattenSeq(t) = FlattenSeq(s) \o x
      BY <2>3, <2>4, <3>2, <3>4, <3>6
    <3> QED
      BY <3>7 DEF t
  <2> QED
    BY <2>5, <2>6
<1> QED
  BY <1>1, <1>2

(* A sequence that is not empty is one shorter and an element behind it. *)
LEMMA LastApart ==
  ASSUME NEW T, NEW n \in Nat, NEW s \in Seq(T), Len(s) = n + 1
  PROVE  /\ SubSeq(s, 1, n) \in Seq(T) /\ Len(SubSeq(s, 1, n)) = n
         /\ \A i \in 1..n : SubSeq(s, 1, n)[i] = s[i]
         /\ s[n + 1] \in T
         /\ s = Append(SubSeq(s, 1, n), s[n + 1])
<1> DEFINE t == SubSeq(s, 1, n)
<1>1. t \in Seq(T) /\ Len(t) = n /\ \A i \in 1..n : t[i] = s[i]
  OBVIOUS
<1>2. s[n + 1] \in T
  OBVIOUS
<1> HIDE DEF t
<1>3. s = Append(t, s[n + 1])
  <2> DEFINE u == Append(t, s[n + 1])
  <2>1. u \in Seq(T) /\ Len(u) = n + 1 /\ \A i \in 1..Len(s) : u[i] = s[i]
    BY <1>1, <1>2
  <2> HIDE DEF u
  <2>2. u = s
    BY <2>1, SeqEqual
  <2> QED
    BY <2>2 DEF u
<1> QED
  BY <1>1, <1>2, <1>3 DEF t

(* Texts joined are a text. *)
LEMMA FlattenType ==
  ASSUME NEW T, NEW seqs \in Seq(Seq(T))
  PROVE  FlattenSeq(seqs) \in Seq(T)
<1> DEFINE Good == {n \in Nat : \A s \in Seq(Seq(T)) : Len(s) = n => FlattenSeq(s) \in Seq(T)}
<1>1. 0 \in Good
  <2>1. ASSUME NEW s \in Seq(Seq(T)), Len(s) = 0
        PROVE  FlattenSeq(s) \in Seq(T)
    <3>1. s = <<>> /\ <<>> \in Seq(T)
      BY <2>1
    <3>2. FlattenSeq(<<>>) = <<>>
      BY FlattenAppend
    <3> QED
      BY <3>1, <3>2
  <2> QED
    BY <2>1
<1>2. ASSUME NEW n \in Nat, n \in Good
      PROVE  n + 1 \in Good
  <2>1. ASSUME NEW s \in Seq(Seq(T)), Len(s) = n + 1
        PROVE  FlattenSeq(s) \in Seq(T)
    <3> DEFINE t == SubSeq(s, 1, n)
               x == s[n + 1]
    <3>1. t \in Seq(Seq(T)) /\ Len(t) = n /\ x \in Seq(T) /\ s = Append(t, x)
      BY <2>1, LastApart
    <3> HIDE DEF t, x
    <3>2. FlattenSeq(t) \in Seq(T)
      BY <1>2, <3>1
    <3>3. FlattenSeq(s) = FlattenSeq(t) \o x
      BY <3>1, <3>2, FlattenAppend
    <3> QED
      BY <3>1, <3>2, <3>3
  <2> QED
    BY <2>1
<1> HIDE DEF Good
<1>3. \A n \in Nat : n \in Good
  BY <1>1, <1>2, NumberInduction
<1> QED
  BY <1>3 DEF Good

(* Two lists of texts, one behind the other. *)
LEMMA FlattenConcat ==
  ASSUME NEW T, NEW a \in Seq(Seq(T)), NEW b \in Seq(Seq(T))
  PROVE  FlattenSeq(a \o b) = FlattenSeq(a) \o FlattenSeq(b)
<1> DEFINE Good == {n \in Nat : \A s \in Seq(Seq(T)) :
                      Len(s) = n => FlattenSeq(a \o s) = FlattenSeq(a) \o FlattenSeq(s)}
<1>a. FlattenSeq(a) \in Seq(T)
  BY FlattenType
<1>1. 0 \in Good
  <2>1. ASSUME NEW s \in Seq(Seq(T)), Len(s) = 0
        PROVE  FlattenSeq(a \o s) = FlattenSeq(a) \o FlattenSeq(s)
    <3>1. s = <<>> /\ a \o s = a
      BY <2>1
    <3>2. FlattenSeq(s) = <<>>
      BY <3>1, FlattenAppend
    <3>3. FlattenSeq(a) \o <<>> = FlattenSeq(a)
      BY <1>a
    <3> QED
      BY <3>1, <3>2, <3>3
  <2> QED
    BY <2>1
<1>2. ASSUME NEW n \in Nat, n \in Good
      PROVE  n + 1 \in Good
  <2>1. ASSUME NEW s \in Seq(Seq(T)), Len(s) = n + 1
        PROVE  FlattenSeq(a \o s) = FlattenSeq(a) \o FlattenSeq(s)
    <3> DEFINE t == SubSeq(s, 1, n)
               x == s[n + 1]
    <3>1. t \in Seq(Seq(T)) /\ Len(t) = n /\ x \in Seq(T) /\ s = Append(t, x)
      BY <2>1, LastApart
    <3> HIDE DEF t, x
    <3>2. FlattenSeq(a \o t) = FlattenSeq(a) \o FlattenSeq(t)
      BY <1>2, <3>1
    <3>0. t \in Seq(Seq(T)) /\ a \o t \in Seq(Seq(T))
      BY <3>1
    <3>3. FlattenSeq(t) \in Seq(T) /\ FlattenSeq(a \o t) \in Seq(T) /\ a \o t \in Seq(Seq(T))
      BY <3>0, FlattenType
    <3>4. FlattenSeq(s) = FlattenSeq(t) \o x
      BY <3>1, <3>3, FlattenAppend
    <3>5. a \o s = Append(a \o t, x)
      <4> DEFINE S == Seq(T)
      <4>1. a \in Seq(S) /\ t \in Seq(S) /\ x \in S
        BY <3>1
      <4> HIDE DEF S
      <4>2. a \o Append(t, x) = Append(a \o t, x)
        BY <4>1
      <4> QED
        BY <3>1, <4>2
    <3>6. FlattenSeq(a \o s) = FlattenSeq(a \o t) \o x
      BY <3>1, <3>3, <3>5, FlattenAppend
    <3> DEFINE fa == FlattenSeq(a)
               ft == FlattenSeq(t)
    <3>7. (fa \o ft) \o x = fa \o (ft \o x)
      <4>1. fa \in Seq(T) /\ ft \in Seq(T) /\ x \in Seq(T)
        BY <1>a, <3>1, <3>3
      <4>2. \A p, q, r \in Seq(T) : (p \o q) \o r = p \o (q \o r)
        BY ConcatAssociative
      <4> HIDE DEF fa, ft
      <4> QED
        BY <4>1, <4>2
    <3> QED
      BY <3>2, <3>4, <3>6, <3>7
  <2> QED
    BY <2>1
<1> HIDE DEF Good
<1>3. \A n \in Nat : n \in Good
  BY <1>1, <1>2, NumberInduction
<1>4. Len(b) \in Nat
  OBVIOUS
<1> QED
  BY <1>3, <1>4 DEF Good

(* Of one text. *)
LEMMA FlattenOne ==
  ASSUME NEW T, NEW x \in Seq(T)
  PROVE  FlattenSeq(<<x>>) = x
<1>1. <<x>> = Append(<<>>, x) /\ <<>> \in Seq(Seq(T)) /\ <<>> \in Seq(T) /\ <<>> \o x = x
  OBVIOUS
<1> QED
  BY <1>1, FlattenAppend

(* More texts, each of them at least as long, are not shorter. *)
LEMMA FlattenLonger ==
  ASSUME NEW T, NEW a \in Seq(Seq(T)), NEW b \in Seq(Seq(T)), Len(a) <= Len(b),
         \A i \in 1..Len(a) : Len(a[i]) <= Len(b[i])
  PROVE  Len(FlattenSeq(a)) <= Len(FlattenSeq(b))
<1> DEFINE Less(s, t) == Len(s) <= Len(t) /\ \A i \in 1..Len(s) : Len(s[i]) <= Len(t[i])
           Good == {n \in Nat : \A s, t \in Seq(Seq(T)) :
                      (Len(t) = n /\ Less(s, t)) => Len(FlattenSeq(s)) <= Len(FlattenSeq(t))}
<1>1. 0 \in Good
  <2>1. ASSUME NEW s \in Seq(Seq(T)), NEW t \in Seq(Seq(T)), Len(t) = 0, Less(s, t)
        PROVE  Len(FlattenSeq(s)) <= Len(FlattenSeq(t))
    <3>1. s = <<>> /\ t = <<>>
      BY <2>1
    <3>2. FlattenSeq(<<>>) = <<>> /\ Len(<<>>) = 0
      BY FlattenAppend
    <3> QED
      BY <3>1, <3>2
  <2> QED
    BY <2>1
<1>2. ASSUME NEW n \in Nat, n \in Good
      PROVE  n + 1 \in Good
  <2>1. ASSUME NEW s \in Seq(Seq(T)), NEW t \in Seq(Seq(T)), Len(t) = n + 1, Less(s, t)
        PROVE  Len(FlattenSeq(s)) <= Len(FlattenSeq(t))
    <3> DEFINE u == SubSeq(t, 1, n)
               x == t[n + 1]
    <3>1. /\ u \in Seq(Seq(T)) /\ Len(u) = n /\ x \in Seq(T) /\ t = Append(u, x)
          /\ \A i \in 1..n : u[i] = t[i]
      BY <2>1, LastApart
    <3> HIDE DEF u, x
    <3>2. FlattenSeq(u) \in Seq(T) /\ FlattenSeq(t) = FlattenSeq(u) \o x
      BY <3>1, FlattenType, FlattenAppend
    <3>3. Len(FlattenSeq(t)) = Len(FlattenSeq(u)) + Len(x) /\ Len(FlattenSeq(u)) \in Nat
          /\ Len(x) \in Nat
      BY <3>1, <3>2
    <3>4. CASE Len(s) <= n
      <4>1. Less(s, u)
        BY <2>1, <3>1, <3>4
      <4>2. Len(FlattenSeq(s)) <= Len(FlattenSeq(u))
        BY <1>2, <3>1, <4>1
      <4>3. Len(FlattenSeq(s)) \in Nat
        BY FlattenType
      <4> QED
        BY <3>3, <4>2, <4>3
    <3>5. CASE Len(s) = n + 1
      <4> DEFINE v == SubSeq(s, 1, n)
                 y == s[n + 1]
      <4>1. /\ v \in Seq(Seq(T)) /\ Len(v) = n /\ y \in Seq(T) /\ s = Append(v, y)
            /\ \A i \in 1..n : v[i] = s[i]
        BY <3>5, LastApart
      <4>2. Len(y) <= Len(x)
        BY <2>1, <3>5 DEF x
      <4>3. Less(v, u)
        <5>1. \A i \in 1..n : Len(s[i]) <= Len(t[i])
          BY <2>1, <3>5
        <5> QED
          BY <3>1, <4>1, <5>1
      <4> HIDE DEF v, y
      <4>4. FlattenSeq(v) \in Seq(T) /\ FlattenSeq(s) = FlattenSeq(v) \o y
        BY <4>1, FlattenType, FlattenAppend
      <4>5. Len(FlattenSeq(s)) = Len(FlattenSeq(v)) + Len(y) /\ Len(FlattenSeq(v)) \in Nat
            /\ Len(y) \in Nat
        BY <4>1, <4>4
      <4>6. Len(FlattenSeq(v)) <= Len(FlattenSeq(u))
        BY <1>2, <3>1, <4>1, <4>3
      <4> QED
        BY <3>3, <4>2, <4>5, <4>6
    <3> QED
      BY <2>1, <3>4, <3>5
  <2> QED
    BY <2>1
<1> HIDE DEF Good
<1>3. \A n \in Nat : n \in Good
  BY <1>1, <1>2, NumberInduction
<1>4. Len(b) \in Nat /\ Less(a, b)
  OBVIOUS
<1> HIDE DEF Less
<1> QED
  BY <1>3, <1>4 DEF Good

------------------------------------------------------------------------------
(* What is in a table, and what is in a file. *)
Word == Keys \cup Cols \cup Values \cup {KeyColumn, NoValue}
Char == (Word \X (Nat \ {0})) \cup {Hash, Space, Newline, Nul}
Text == Seq(Char)

(* A function on 1..n whose values are in T is a sequence. *)
LEMMA IsSequence ==
  ASSUME NEW T, NEW n \in Nat, NEW f, f = [k \in 1..n |-> f[k]], \A k \in 1..n : f[k] \in T
  PROVE  f \in Seq(T) /\ Len(f) = n
OBVIOUS

(* The text of a word. *)
LEMMA WordIsText ==
  ASSUME NEW word \in Word
  PROVE  Width[word] \in Nat /\ WordText(word) \in Text /\ Len(WordText(word)) = Width[word]
<1>1. Width[word] \in Nat
  BY TableAssumption DEF Word
<1>2. \A k \in 1..Width[word] : <<word, k>> \in Char
  BY <1>1 DEF Char
<1> QED
  BY <1>1, <1>2 DEF WordText, Text

(* The characters between words and lines. *)
LEMMA Delimiters ==
  /\ <<>> \in Text /\ <<Space>> \in Text /\ <<Newline>> \in Text /\ <<Hash, Space>> \in Text
  /\ Len(<<Space>>) = 1 /\ Len(<<Newline>>) = 1
BY DEF Text, Char

(* What JoinText and RowsText flatten. *)
Pieces(words) ==
  [k \in DOMAIN words |-> (IF k = 1 THEN <<>> ELSE <<Space>>) \o WordText(words[k])]
Lines(rows) == [r \in DOMAIN rows |-> <<Newline>> \o JoinText(rows[r])]

(* They are texts, one for each word, and the line is a text. *)
LEMMA PiecesAre ==
  ASSUME NEW words \in Seq(Word)
  PROVE  /\ Pieces(words) \in Seq(Text) /\ Len(Pieces(words)) = Len(words)
         /\ \A k \in 1..Len(words) :
              /\ Pieces(words)[k] = (IF k = 1 THEN <<>> ELSE <<Space>>) \o WordText(words[k])
              /\ Pieces(words)[k] \in Text
              /\ Len(Pieces(words)[k]) = (IF k = 1 THEN 0 ELSE 1) + Width[words[k]]
         /\ JoinText(words) = FlattenSeq(Pieces(words))
         /\ JoinText(words) \in Text
<1> DEFINE n == Len(words)
           P == Pieces(words)
<1>1. n \in Nat /\ DOMAIN words = 1..n /\ \A k \in 1..n : words[k] \in Word
  OBVIOUS
<1>2. P = [k \in 1..n |-> (IF k = 1 THEN <<>> ELSE <<Space>>) \o WordText(words[k])]
  BY <1>1 DEF Pieces
<1>3. ASSUME NEW k \in 1..n
      PROVE  /\ P[k] = (IF k = 1 THEN <<>> ELSE <<Space>>) \o WordText(words[k])
             /\ P[k] \in Text
             /\ Len(P[k]) = (IF k = 1 THEN 0 ELSE 1) + Width[words[k]]
  <2>1. P[k] = (IF k = 1 THEN <<>> ELSE <<Space>>) \o WordText(words[k])
    BY <1>2
  <2>2. /\ WordText(words[k]) \in Text /\ Len(WordText(words[k])) = Width[words[k]]
        /\ Width[words[k]] \in Nat
    BY <1>1, WordIsText
  <2> HIDE DEF P
  <2>3. CASE k = 1
    BY <2>1, <2>2, <2>3 DEF Text
  <2>4. CASE k # 1
    <3>1. P[k] = <<Space>> \o WordText(words[k])
      BY <2>1, <2>4
    <3>2. <<Space>> \in Seq(Char) /\ Len(<<Space>>) = 1
      BY Delimiters DEF Text
    <3> QED
      BY <2>1, <2>2, <2>4, <3>1, <3>2, ConcatProperties DEF Text
  <2> QED
    BY <2>3, <2>4
<1> HIDE DEF n, P
<1>4. P \in Seq(Text) /\ Len(P) = n
  <2>1. P = [k \in 1..n |-> P[k]]
    BY <1>2
  <2> QED
    BY <1>1, <1>3, <2>1
<1>5. JoinText(words) = FlattenSeq(P)
  BY DEF JoinText, P, Pieces
<1>6. FlattenSeq(P) \in Text
  BY <1>4, FlattenType DEF Text
<1> QED
  BY <1>3, <1>4, <1>5, <1>6 DEF P, n

(* They are texts, one for each row, and together they are a text. *)
LEMMA LinesAre ==
  ASSUME NEW rows \in Seq(Seq(Word))
  PROVE  /\ Lines(rows) \in Seq(Text) /\ Len(Lines(rows)) = Len(rows)
         /\ \A r \in 1..Len(rows) :
              /\ Lines(rows)[r] = <<Newline>> \o JoinText(rows[r])
              /\ Len(Lines(rows)[r]) = 1 + Len(JoinText(rows[r]))
              /\ Len(JoinText(rows[r])) \in Nat
         /\ RowsText(rows) = FlattenSeq(Lines(rows))
         /\ RowsText(rows) \in Text
<1> DEFINE n == Len(rows)
           P == Lines(rows)
<1>1. n \in Nat /\ DOMAIN rows = 1..n /\ \A r \in 1..n : rows[r] \in Seq(Word)
  OBVIOUS
<1>2. P = [r \in 1..n |-> <<Newline>> \o JoinText(rows[r])]
  BY <1>1 DEF Lines
<1>3. ASSUME NEW r \in 1..n
      PROVE  /\ P[r] = <<Newline>> \o JoinText(rows[r])
             /\ P[r] \in Text
             /\ Len(P[r]) = 1 + Len(JoinText(rows[r]))
             /\ Len(JoinText(rows[r])) \in Nat
  <2>1. P[r] = <<Newline>> \o JoinText(rows[r])
    BY <1>2
  <2>2. JoinText(rows[r]) \in Seq(Char)
    BY <1>1, PiecesAre DEF Text
  <2> HIDE DEF P
  <2>3. <<Newline>> \in Seq(Char) /\ Len(<<Newline>>) = 1
    BY Delimiters DEF Text
  <2> QED
    BY <2>1, <2>2, <2>3, ConcatProperties, LenProperties DEF Text
<1> HIDE DEF n, P
<1>4. P \in Seq(Text) /\ Len(P) = n
  <2>1. P = [r \in 1..n |-> P[r]]
    BY <1>2
  <2>2. n \in Nat /\ \A r \in 1..n : P[r] \in Text
    BY <1>1, <1>3
  <2> QED
    BY <2>1, <2>2
<1>5. RowsText(rows) = FlattenSeq(P)
  BY DEF RowsText, P, Lines
<1>6. FlattenSeq(P) \in Text
  BY <1>4, FlattenType DEF Text
<1> QED
  BY <1>3, <1>4, <1>5, <1>6 DEF P, n

(* One sequence behind another. *)
LEMMA Associative ==
  ASSUME NEW T
  PROVE  \A p, q, r \in Seq(T) : (p \o q) \o r = p \o (q \o r)
BY ConcatAssociative

(* What holds the elements of one sequence and then those of another. *)
LEMMA ConcatIs ==
  ASSUME NEW T, NEW a \in Seq(T), NEW b \in Seq(T), NEW c \in Seq(T),
         Len(c) = Len(a) + Len(b),
         Alike(c, a, Len(a)),
         \A k \in 1..Len(b) : c[Len(a) + k] = b[k]
  PROVE  c = a \o b
<1> DEFINE d == a \o b
<1>1. d \in Seq(T) /\ Len(d) = Len(c) /\ \A k \in 1..Len(c) : d[k] = c[k]
  <2>1. /\ d \in Seq(T) /\ Len(d) = Len(a) + Len(b) /\ Len(a) \in Nat /\ Len(b) \in Nat
        /\ \A k \in 1..Len(a) : d[k] = a[k]
        /\ \A k \in 1..Len(b) : d[Len(a) + k] = b[k]
    OBVIOUS
  <2> HIDE DEF d
  <2>2. ASSUME NEW k \in 1..Len(c)
        PROVE  d[k] = c[k]
    <3>1. CASE k \in 1..Len(a)
      BY <2>1, <3>1 DEF Alike
    <3>2. CASE k \notin 1..Len(a)
      <4>1. k - Len(a) \in 1..Len(b) /\ Len(a) + (k - Len(a)) = k
        BY <2>1, <3>2
      <4> QED
        BY <2>1, <4>1
    <3> QED
      BY <3>1, <3>2
  <2> QED
    BY <2>1, <2>2
<1> HIDE DEF d
<1>2. c = d
  BY <1>1, SeqEqual
<1> QED
  BY <1>2 DEF d

(* A text x before the first of some texts, y, is before them all. *)
InFront(x, y, rest) == FlattenSeq(<<x \o y>> \o rest) = x \o FlattenSeq(<<y>> \o rest)

(* The first text may be taken in two, and its beginning put in front. *)
LEMMA FlattenFirst ==
  ASSUME NEW T, NEW x \in Seq(T), NEW y \in Seq(T), NEW r \in Seq(Seq(T))
  PROVE  InFront(x, y, r)
<1> DEFINE z == x \o y
           e == FlattenSeq(r)
<1>1. z \in Seq(T) /\ <<z>> \in Seq(Seq(T)) /\ <<y>> \in Seq(Seq(T))
  OBVIOUS
<1>2. FlattenSeq(<<z>>) = z /\ FlattenSeq(<<y>>) = y
  BY <1>1, FlattenOne
<1>3. e \in Seq(T)
  BY FlattenType
<1>4. z \o e = x \o (y \o e)
  <2> HIDE DEF e
  <2> QED
    BY <1>3, Associative
<1> HIDE DEF z
<1>5. FlattenSeq(<<z>> \o r) = z \o e /\ FlattenSeq(<<y>> \o r) = y \o e
  BY <1>1, <1>2, FlattenConcat
<1> QED
  BY <1>4, <1>5 DEF z, InFront

(* A line of two parts. *)
LEMMA JoinConcat ==
  ASSUME NEW u \in Seq(Word), NEW v \in Seq(Word), u # <<>>, v # <<>>
  PROVE  JoinText(u \o v) = JoinText(u) \o (<<Space>> \o JoinText(v))
<1> DEFINE n == Len(u)
           m == Len(v)
           w == u \o v
           C == [k \in 1..m |-> <<Space>> \o WordText(v[k])]
<1>1. /\ n \in Nat \ {0} /\ m \in Nat \ {0} /\ w \in Seq(Word) /\ Len(w) = n + m
      /\ \A k \in 1..n : w[k] = u[k]
      /\ \A k \in 1..m : w[n + k] = v[k] /\ v[k] \in Word
  OBVIOUS
<1>2. /\ Pieces(u) \in Seq(Text) /\ Len(Pieces(u)) = n
      /\ \A k \in 1..n :
           Pieces(u)[k] = (IF k = 1 THEN <<>> ELSE <<Space>>) \o WordText(u[k])
      /\ JoinText(u) = FlattenSeq(Pieces(u))
  BY PiecesAre
<1>3. /\ Pieces(v) \in Seq(Text) /\ Len(Pieces(v)) = m
      /\ \A k \in 1..m :
           Pieces(v)[k] = (IF k = 1 THEN <<>> ELSE <<Space>>) \o WordText(v[k])
      /\ JoinText(v) = FlattenSeq(Pieces(v))
  BY PiecesAre
<1> HIDE DEF n, m, w
<1>4. /\ Pieces(w) \in Seq(Text) /\ Len(Pieces(w)) = n + m
      /\ \A k \in 1..(n + m) :
           Pieces(w)[k] = (IF k = 1 THEN <<>> ELSE <<Space>>) \o WordText(w[k])
      /\ JoinText(w) = FlattenSeq(Pieces(w))
  BY <1>1, PiecesAre
<1>5. C \in Seq(Text) /\ Len(C) = m /\ \A k \in 1..m : C[k] = <<Space>> \o WordText(v[k])
  <2>1. \A k \in 1..m : WordText(v[k]) \in Seq(Char)
    BY <1>1, WordIsText DEF Text
  <2>2. <<Space>> \in Seq(Char)
    BY Delimiters DEF Text
  <2>3. \A k \in 1..m : <<Space>> \o WordText(v[k]) \in Text
    BY <2>1, <2>2, ConcatProperties DEF Text
  <2> QED
    BY <1>1, <2>3
<1> HIDE DEF C
<1>6. Pieces(w) = Pieces(u) \o C
  <2>1. ASSUME NEW k \in 1..n
        PROVE  Pieces(w)[k] = Pieces(u)[k]
    <3>1. w[k] = u[k] /\ k \in 1..(n + m)
      BY <1>1
    <3>2. Pieces(w)[k] = (IF k = 1 THEN <<>> ELSE <<Space>>) \o WordText(w[k])
      BY <1>4, <3>1
    <3>3. Pieces(u)[k] = (IF k = 1 THEN <<>> ELSE <<Space>>) \o WordText(u[k])
      BY <1>2
    <3> QED
      BY Zenon, <3>1, <3>2, <3>3
  <2>2. ASSUME NEW k \in 1..m
        PROVE  Pieces(w)[n + k] = C[k]
    <3>1. w[n + k] = v[k] /\ n + k \in 1..(n + m) /\ n + k # 1
      BY <1>1
    <3>2. Pieces(w)[n + k] = (IF n + k = 1 THEN <<>> ELSE <<Space>>) \o WordText(w[n + k])
      BY <1>4, <3>1
    <3> QED
      BY <1>5, <3>1, <3>2
  <2>3. Alike(Pieces(w), Pieces(u), n)
    BY <2>1 DEF Alike
  <2>4. /\ Pieces(w) \in Seq(Text) /\ Pieces(u) \in Seq(Text) /\ C \in Seq(Text)
        /\ Len(Pieces(w)) = Len(Pieces(u)) + Len(C) /\ Len(Pieces(u)) = n /\ Len(C) = m
    BY <1>2, <1>4, <1>5
  <2> QED
    BY <2>2, <2>3, <2>4, ConcatIs
<1>7. FlattenSeq(Pieces(w)) = FlattenSeq(Pieces(u)) \o FlattenSeq(C)
  BY <1>2, <1>5, <1>6, FlattenConcat DEF Text
<1>8. FlattenSeq(C) = <<Space>> \o FlattenSeq(Pieces(v))
  <2> DEFINE y == WordText(v[1])
             z == <<Space>> \o y
             r == [k \in 1..(m - 1) |-> <<Space>> \o WordText(v[k + 1])]
  <2>1. 1 \in 1..m /\ v[1] \in Word
    BY <1>1
  <2>2. y \in Seq(Char) /\ <<>> \o y = y
    BY <2>1, WordIsText, ConcatEmptySeq DEF Text
  <2>3. Pieces(v)[1] = y /\ C[1] = z
    BY <1>3, <1>5, <2>1, <2>2
  <2>4. <<Space>> \in Seq(Char)
    BY Delimiters DEF Text
  <2>5. z \in Seq(Char)
    BY <2>2, <2>4, ConcatProperties
  <2>6. ASSUME NEW k \in 1..(m - 1)
        PROVE  /\ r[k] = <<Space>> \o WordText(v[k + 1])
               /\ r[k] = Pieces(v)[1 + k] /\ r[k] = C[1 + k] /\ C[1 + k] \in Text
    <3>1. 1 + k \in 1..m /\ 1 + k # 1 /\ k + 1 = 1 + k
      BY <1>1
    <3>2. r[k] = <<Space>> \o WordText(v[k + 1])
      OBVIOUS
    <3>3. C[1 + k] \in Text
      BY <1>5, <3>1
    <3>4. Pieces(v)[1 + k] = (IF 1 + k = 1 THEN <<>> ELSE <<Space>>) \o WordText(v[1 + k])
      BY <1>3, <3>1
    <3> QED
      BY <1>5, <3>1, <3>2, <3>3, <3>4
  <2>7. r \in Seq(Seq(Char)) /\ Len(r) = m - 1
    <3>1. \A k \in 1..(m - 1) : r[k] \in Text
      BY <2>6
    <3> DEFINE q == m - 1
    <3>2. q \in Nat /\ r = [k \in 1..q |-> r[k]] /\ \A k \in 1..q : r[k] \in Text
      BY <1>1, <3>1
    <3> HIDE DEF r, q, y, z
    <3>3. r \in Seq(Text) /\ Len(r) = q
      BY <3>2, IsSequence, Zenon
    <3> QED
      BY <3>3 DEF Text, q
  <2> HIDE DEF y, z, r
  <2>8. Pieces(v) = <<y>> \o r
    <3>1. <<y>> \in Seq(Seq(Char)) /\ Len(<<y>>) = 1 /\ <<y>>[1] = y
      BY <2>2
    <3>2. Alike(Pieces(v), <<y>>, Len(<<y>>))
      BY <2>3, <3>1 DEF Alike
    <3>3. Len(Pieces(v)) = Len(<<y>>) + Len(r)
      BY <1>1, <1>3, <2>7, <3>1
    <3>4. \A k \in 1..Len(r) : Pieces(v)[Len(<<y>>) + k] = r[k]
      BY <2>6, <2>7, <3>1
    <3>5. Pieces(v) \in Seq(Seq(Char))
      BY <1>3 DEF Text
    <3> QED
      BY <2>7, <3>1, <3>2, <3>3, <3>4, <3>5, ConcatIs
  <2>9. C = <<z>> \o r
    <3>1. <<z>> \in Seq(Seq(Char)) /\ Len(<<z>>) = 1 /\ <<z>>[1] = z
      BY <2>5
    <3>2. Alike(C, <<z>>, Len(<<z>>))
      BY <2>3, <3>1 DEF Alike
    <3>3. Len(C) = Len(<<z>>) + Len(r)
      BY <1>1, <1>5, <2>7, <3>1
    <3>4. \A k \in 1..Len(r) : C[Len(<<z>>) + k] = r[k]
      BY <2>6, <2>7, <3>1
    <3>5. C \in Seq(Seq(Char))
      BY <1>5 DEF Text
    <3> QED
      BY <2>7, <3>1, <3>2, <3>3, <3>4, <3>5, ConcatIs
  <2>10. FlattenSeq(<<<<Space>> \o y>> \o r) = <<Space>> \o FlattenSeq(<<y>> \o r)
    <3> DEFINE x == <<Space>>
    <3>1. x \in Seq(Char) /\ y \in Seq(Char) /\ r \in Seq(Seq(Char))
      BY <2>2, <2>4, <2>7
    <3> HIDE DEF x
    <3>2. InFront(x, y, r)
      BY <3>1, FlattenFirst
    <3> QED
      BY <3>2 DEF x, InFront
  <2> QED
    BY <2>8, <2>9, <2>10 DEF z
<1> QED
  BY <1>2, <1>3, <1>4, <1>7, <1>8 DEF w

(* Some lines behind others, and one line. *)
LEMMA RowsConcat ==
  ASSUME NEW a \in Seq(Seq(Word)), NEW b \in Seq(Seq(Word))
  PROVE  RowsText(a \o b) = RowsText(a) \o RowsText(b)
<1> DEFINE n == Len(a)
           m == Len(b)
           w == a \o b
<1>1. /\ n \in Nat /\ m \in Nat /\ w \in Seq(Seq(Word)) /\ Len(w) = n + m
      /\ \A k \in 1..n : w[k] = a[k]
      /\ \A k \in 1..m : w[n + k] = b[k]
  OBVIOUS
<1> HIDE DEF w
<1>2. /\ Lines(a) \in Seq(Text) /\ Len(Lines(a)) = n
      /\ \A k \in 1..n : Lines(a)[k] = <<Newline>> \o JoinText(a[k])
      /\ RowsText(a) = FlattenSeq(Lines(a))
  BY LinesAre
<1>3. /\ Lines(b) \in Seq(Text) /\ Len(Lines(b)) = m
      /\ \A k \in 1..m : Lines(b)[k] = <<Newline>> \o JoinText(b[k])
      /\ RowsText(b) = FlattenSeq(Lines(b))
  BY LinesAre
<1>4. /\ Lines(w) \in Seq(Text) /\ Len(Lines(w)) = n + m
      /\ \A k \in 1..(n + m) : Lines(w)[k] = <<Newline>> \o JoinText(w[k])
      /\ RowsText(w) = FlattenSeq(Lines(w))
  <2> HIDE DEF n, m
  <2> QED
    BY <1>1, LinesAre
<1> HIDE DEF n, m
<1>5. Lines(w) = Lines(a) \o Lines(b)
  <2>1. ASSUME NEW k \in 1..n
        PROVE  Lines(w)[k] = Lines(a)[k]
    <3>1. w[k] = a[k] /\ k \in 1..(n + m)
      BY <1>1
    <3> QED
      BY <1>2, <1>4, <3>1
  <2>2. ASSUME NEW k \in 1..m
        PROVE  Lines(w)[n + k] = Lines(b)[k]
    <3>1. w[n + k] = b[k] /\ n + k \in 1..(n + m)
      BY <1>1
    <3> QED
      BY <1>3, <1>4, <3>1
  <2>3. Alike(Lines(w), Lines(a), n)
    BY <2>1 DEF Alike
  <2>4. /\ Lines(w) \in Seq(Text) /\ Lines(a) \in Seq(Text) /\ Lines(b) \in Seq(Text)
        /\ Len(Lines(w)) = Len(Lines(a)) + Len(Lines(b))
        /\ Len(Lines(a)) = n /\ Len(Lines(b)) = m
    BY <1>2, <1>3, <1>4
  <2> QED
    BY <2>2, <2>3, <2>4, ConcatIs
<1>6. FlattenSeq(Lines(w)) = FlattenSeq(Lines(a)) \o FlattenSeq(Lines(b))
  BY <1>2, <1>3, <1>5, FlattenConcat DEF Text
<1> QED
  BY <1>2, <1>3, <1>4, <1>6 DEF w

(* One line is a newline and the words of its row. *)
LEMMA RowsOne ==
  ASSUME NEW row \in Seq(Word)
  PROVE  RowsText(<<row>>) = <<Newline>> \o JoinText(row)
<1>1. <<row>> \in Seq(Seq(Word)) /\ Len(<<row>>) = 1 /\ <<row>>[1] = row
      /\ 1 \in 1..Len(<<row>>)
  OBVIOUS
<1>2. /\ Lines(<<row>>) \in Seq(Text) /\ Len(Lines(<<row>>)) = 1
      /\ Lines(<<row>>)[1] = <<Newline>> \o JoinText(row)
      /\ RowsText(<<row>>) = FlattenSeq(Lines(<<row>>))
  <2> DEFINE rows == <<row>>
  <2> HIDE DEF rows
  <2>1. rows \in Seq(Seq(Word)) /\ Len(rows) = 1 /\ rows[1] = row /\ 1 \in 1..Len(rows)
    BY <1>1 DEF rows
  <2>2. /\ Lines(rows) \in Seq(Text) /\ Len(Lines(rows)) = 1
        /\ Lines(rows)[1] = <<Newline>> \o JoinText(row)
        /\ RowsText(rows) = FlattenSeq(Lines(rows))
    BY <2>1, LinesAre
  <2> QED
    BY <2>2 DEF rows
<1> DEFINE L == Lines(<<row>>)
<1>3. L = <<L[1]>> /\ L[1] \in Seq(Char)
  <2> HIDE DEF L
  <2> QED
    BY <1>2 DEF Text, L
<1>4. FlattenSeq(<<L[1]>>) = L[1]
  BY <1>3, FlattenOne
<1> QED
  BY <1>2, <1>3, <1>4

(* No lines are no text. *)
LEMMA RowsNone == RowsText(<<>>) = <<>>
<1>1. <<>> \in Seq(Seq(Word)) /\ Len(<<>>) = 0
  OBVIOUS
<1>2. Lines(<<>>) \in Seq(Text) /\ Len(Lines(<<>>)) = 0 /\ RowsText(<<>>) = FlattenSeq(Lines(<<>>))
  BY <1>1, LinesAre
<1>3. Lines(<<>>) = <<>>
  BY <1>2
<1> QED
  BY <1>2, <1>3, FlattenAppend

------------------------------------------------------------------------------
(* Tables: a key starts each row, and no two rows have the same. *)
TableOK(t) ==
  /\ t \in [cols : Seq(Word), rows : Seq(Seq(Word))]
  /\ t.cols # <<>>
  /\ \A r \in DOMAIN t.rows : t.rows[r] # <<>> /\ t.rows[r][1] \in Keys
  /\ \A q, r \in DOMAIN t.rows : t.rows[q][1] = t.rows[r][1] => q = r

(* v has a word for each of u, with at least as many characters. *)
NotNarrower(u, v) ==
  Len(u) <= Len(v) /\ \A k \in 1..Len(u) : Width[u[k]] <= Width[v[k]]

Larger(t, u) ==
  /\ NotNarrower(t.cols, u.cols)
  /\ Len(t.rows) <= Len(u.rows)
  /\ \A r \in 1..Len(t.rows) : NotNarrower(t.rows[r], u.rows[r])

(* Wider words make a longer line. *)
LEMMA JoinLonger ==
  ASSUME NEW u \in Seq(Word), NEW v \in Seq(Word), NotNarrower(u, v)
  PROVE  Len(JoinText(u)) <= Len(JoinText(v))
<1> DEFINE P == Pieces(u)
           Q == Pieces(v)
<1>1. /\ P \in Seq(Text) /\ Len(P) = Len(u) /\ JoinText(u) = FlattenSeq(P)
      /\ \A k \in 1..Len(u) : Len(P[k]) = (IF k = 1 THEN 0 ELSE 1) + Width[u[k]]
  BY PiecesAre
<1>2. /\ Q \in Seq(Text) /\ Len(Q) = Len(v) /\ JoinText(v) = FlattenSeq(Q)
      /\ \A k \in 1..Len(v) : Len(Q[k]) = (IF k = 1 THEN 0 ELSE 1) + Width[v[k]]
  BY PiecesAre
<1> HIDE DEF P, Q
<1>3. ASSUME NEW k \in 1..Len(P)
      PROVE  Len(P[k]) <= Len(Q[k])
  <2>1. k \in 1..Len(u) /\ k \in 1..Len(v) /\ Width[u[k]] <= Width[v[k]]
        /\ u[k] \in Word /\ v[k] \in Word
    BY <1>1 DEF NotNarrower
  <2>2. Width[u[k]] \in Nat /\ Width[v[k]] \in Nat
    BY <2>1, WordIsText
  <2>3. /\ Len(P[k]) = (IF k = 1 THEN 0 ELSE 1) + Width[u[k]]
        /\ Len(Q[k]) = (IF k = 1 THEN 0 ELSE 1) + Width[v[k]]
    BY <1>1, <1>2, <2>1
  <2> QED
    BY <2>1, <2>2, <2>3
<1>4. P \in Seq(Seq(Char)) /\ Q \in Seq(Seq(Char)) /\ Len(P) <= Len(Q)
  BY <1>1, <1>2 DEF Text, NotNarrower
<1>5. Len(FlattenSeq(P)) <= Len(FlattenSeq(Q))
  BY <1>3, <1>4, FlattenLonger
<1> QED
  BY <1>1, <1>2, <1>5

(* A larger table has a longer text. *)
LEMMA TableLonger ==
  ASSUME NEW t, NEW u, TableOK(t), TableOK(u), Larger(t, u)
  PROVE  Len(TableText(t)) <= Len(TableText(u))
<1> DEFINE P == Lines(t.rows)
           Q == Lines(u.rows)
<1>1. /\ t.cols \in Seq(Word) /\ t.rows \in Seq(Seq(Word))
      /\ u.cols \in Seq(Word) /\ u.rows \in Seq(Seq(Word))
  BY DEF TableOK
<1>2. /\ P \in Seq(Text) /\ Len(P) = Len(t.rows) /\ RowsText(t.rows) = FlattenSeq(P)
      /\ \A r \in 1..Len(t.rows) :
           Len(P[r]) = 1 + Len(JoinText(t.rows[r])) /\ Len(JoinText(t.rows[r])) \in Nat
      /\ RowsText(t.rows) \in Text
  BY <1>1, LinesAre
<1>3. /\ Q \in Seq(Text) /\ Len(Q) = Len(u.rows) /\ RowsText(u.rows) = FlattenSeq(Q)
      /\ \A r \in 1..Len(u.rows) :
           Len(Q[r]) = 1 + Len(JoinText(u.rows[r])) /\ Len(JoinText(u.rows[r])) \in Nat
      /\ RowsText(u.rows) \in Text
  BY <1>1, LinesAre
<1> HIDE DEF P, Q
<1>4. ASSUME NEW r \in 1..Len(P)
      PROVE  Len(P[r]) <= Len(Q[r])
  <2>0. r \in 1..Len(t.rows) /\ r \in 1..Len(u.rows)
    BY <1>1, <1>2 DEF Larger
  <2>1. r \in 1..Len(t.rows) /\ r \in 1..Len(u.rows) /\ NotNarrower(t.rows[r], u.rows[r])
        /\ t.rows[r] \in Seq(Word) /\ u.rows[r] \in Seq(Word)
    BY <1>1, <2>0 DEF Larger
  <2>2. Len(JoinText(t.rows[r])) <= Len(JoinText(u.rows[r]))
    BY <2>1, JoinLonger
  <2> QED
    BY <1>2, <1>3, <2>1, <2>2
<1>5. P \in Seq(Seq(Char)) /\ Q \in Seq(Seq(Char)) /\ Len(P) <= Len(Q)
  BY <1>2, <1>3 DEF Text, Larger
<1>6. Len(FlattenSeq(P)) <= Len(FlattenSeq(Q))
  BY <1>4, <1>5, FlattenLonger
<1>7. Len(JoinText(t.cols)) <= Len(JoinText(u.cols))
  BY <1>1, JoinLonger DEF Larger
<1>8. JoinText(t.cols) \in Text /\ JoinText(u.cols) \in Text
  BY <1>1, PiecesAre
<1> DEFINE T == RowsText(t.rows)
           U == RowsText(u.rows)
           I == JoinText(t.cols)
           J == JoinText(u.cols)
           H == <<Hash, Space>>
<1>9. /\ T \in Seq(Char) /\ U \in Seq(Char) /\ I \in Seq(Char) /\ J \in Seq(Char)
      /\ H \in Seq(Char) /\ Len(T) <= Len(U) /\ Len(I) <= Len(J)
  BY <1>2, <1>3, <1>6, <1>7, <1>8, Delimiters DEF Text
<1>10. TableText(t) = H \o I \o T /\ TableText(u) = H \o J \o U
  BY DEF TableText
<1> HIDE DEF T, U, I, J, H
<1>11. Len(H \o I \o T) = Len(H) + Len(I) + Len(T)
  BY <1>9
<1>12. Len(H \o J \o U) = Len(H) + Len(J) + Len(U)
  BY <1>9
<1> QED
  BY <1>9, <1>10, <1>11, <1>12, LenProperties

(* The text of a table. *)
LEMMA TableIsText ==
  ASSUME NEW t, TableOK(t)
  PROVE  TableText(t) \in Text /\ Len(TableText(t)) \in Nat
<1>1. t.cols \in Seq(Word) /\ t.rows \in Seq(Seq(Word))
  BY DEF TableOK
<1> DEFINE T == RowsText(t.rows)
           I == JoinText(t.cols)
           H == <<Hash, Space>>
<1>2. T \in Seq(Char) /\ I \in Seq(Char) /\ H \in Seq(Char)
  BY <1>1, PiecesAre, LinesAre, Delimiters DEF Text
<1>3. TableText(t) = H \o I \o T
  BY DEF TableText
<1> HIDE DEF T, I, H
<1> QED
  BY <1>2, <1>3 DEF Text

(* A sequence in two parts, and in two with one element between them. *)
LEMMA SplitAfter ==
  ASSUME NEW T, NEW s \in Seq(T), NEW n \in 1..Len(s)
  PROVE  /\ SubSeq(s, 1, n) \in Seq(T) /\ SubSeq(s, n + 1, Len(s)) \in Seq(T)
         /\ Len(SubSeq(s, 1, n)) = n /\ Len(SubSeq(s, n + 1, Len(s))) = Len(s) - n
         /\ s = SubSeq(s, 1, n) \o SubSeq(s, n + 1, Len(s))
<1> DEFINE a == SubSeq(s, 1, n)
           b == SubSeq(s, n + 1, Len(s))
<1>0. n \in Nat /\ Len(s) \in Nat /\ n >= 1 /\ n <= Len(s)
  OBVIOUS
<1>a. a \in Seq(T) /\ Len(a) = n /\ \A k \in 1..Len(a) : a[k] = s[k]
  BY <1>0
<1>b. b \in Seq(T) /\ Len(b) = Len(s) - n /\ \A k \in 1..Len(b) : b[k] = s[n + k]
  BY <1>0
<1>1. /\ a \in Seq(T) /\ b \in Seq(T) /\ Len(a) = n /\ Len(b) = Len(s) - n
      /\ \A k \in 1..Len(a) : a[k] = s[k]
      /\ \A k \in 1..Len(b) : b[k] = s[n + k]
      /\ n \in Nat /\ Len(s) \in Nat
  BY <1>0, <1>a, <1>b
<1> HIDE DEF a, b
<1>c. Alike(s, a, Len(a))
  BY <1>a DEF Alike
<1>d. Len(s) = Len(a) + Len(b)
  BY <1>0, <1>a, <1>b
<1>e. \A k \in 1..Len(b) : s[Len(a) + k] = b[k]
  BY <1>a, <1>b
<1>2. Alike(s, a, Len(a)) /\ Len(s) = Len(a) + Len(b)
      /\ \A k \in 1..Len(b) : s[Len(a) + k] = b[k]
  BY <1>c, <1>d, <1>e
<1>3. s = a \o b
  BY <1>1, <1>2, ConcatIs
<1> QED
  BY <1>1, <1>3 DEF a, b

(* An element, with what is before it and what is behind it. *)
LEMMA SplitAround ==
  ASSUME NEW T, NEW s \in Seq(T), NEW n \in 1..Len(s)
  PROVE  /\ SubSeq(s, 1, n - 1) \in Seq(T) /\ SubSeq(s, n + 1, Len(s)) \in Seq(T)
         /\ Len(SubSeq(s, 1, n - 1)) = n - 1
         /\ Alike(s, SubSeq(s, 1, n - 1), n - 1)
         /\ s = SubSeq(s, 1, n - 1) \o (<<s[n]>> \o SubSeq(s, n + 1, Len(s)))
<1> DEFINE a == SubSeq(s, 1, n - 1)
           b == SubSeq(s, n + 1, Len(s))
           c == <<s[n]>> \o b
<1>0. n \in Nat /\ Len(s) \in Nat /\ s[n] \in T /\ n - 1 \in Nat /\ n >= 1 /\ n <= Len(s)
  OBVIOUS
<1>a. a \in Seq(T) /\ Len(a) = n - 1 /\ \A k \in 1..Len(a) : a[k] = s[k]
  BY <1>0
<1>b. b \in Seq(T) /\ Len(b) = Len(s) - n /\ \A k \in 1..Len(b) : b[k] = s[n + k]
  BY <1>0
<1>1. /\ a \in Seq(T) /\ b \in Seq(T) /\ Len(a) = n - 1 /\ Len(b) = Len(s) - n
      /\ \A k \in 1..Len(a) : a[k] = s[k]
      /\ \A k \in 1..Len(b) : b[k] = s[n + k]
      /\ n \in Nat /\ Len(s) \in Nat /\ s[n] \in T
  BY <1>0, <1>a, <1>b
<1> HIDE DEF a, b
<1>2. /\ c \in Seq(T) /\ Len(c) = Len(s) - n + 1 /\ c[1] = s[n]
      /\ \A k \in 1..Len(b) : c[1 + k] = b[k]
  <2> DEFINE e == s[n]
  <2>1. b \in Seq(T) /\ e \in T /\ Len(b) = Len(s) - n /\ Len(b) \in Nat
    BY <1>0, <1>b
  <2> HIDE DEF e
  <2>2. <<e>> \o b \in Seq(T) /\ Len(<<e>> \o b) = 1 + Len(b) /\ (<<e>> \o b)[1] = e
        /\ \A k \in 1..Len(b) : (<<e>> \o b)[1 + k] = b[k]
    BY <2>1
  <2> QED
    BY <1>0, <2>1, <2>2 DEF e
<1> HIDE DEF c
<1>3. Alike(s, a, Len(a)) /\ Len(s) = Len(a) + Len(c)
  BY <1>1, <1>2 DEF Alike
<1>4. ASSUME NEW k \in 1..Len(c)
      PROVE  s[Len(a) + k] = c[k]
  <2>1. CASE k = 1
    <3>1. Len(a) + k = n
      BY <1>1, <2>1
    <3> QED
      BY <1>2, <2>1, <3>1
  <2>2. CASE k # 1
    <3>1. k - 1 \in 1..Len(b) /\ 1 + (k - 1) = k /\ Len(a) + k = n + (k - 1)
      BY <1>1, <1>2, <2>2
    <3>2. c[1 + (k - 1)] = b[k - 1] /\ b[k - 1] = s[n + (k - 1)]
      BY <1>1, <1>2, <3>1
    <3> QED
      BY <3>1, <3>2
  <2> QED
    BY <2>1, <2>2
<1>5. s = a \o c
  BY <1>1, <1>2, <1>3, <1>4, ConcatIs
<1> QED
  BY <1>1, <1>3, <1>5 DEF a, b, c

(* Where the text of a table is parted: behind a row, or in one. *)
PartedBehind(h, b, l, a) ==
  /\ h \o (b \o (l \o a)) = (h \o (b \o l)) \o a
  /\ h \o (b \o l) \in Text

PartedWithin(h, b, n, l, x, a) ==
  /\ h \o (b \o ((n \o (l \o x)) \o a)) = (h \o (b \o (n \o l))) \o (x \o a)
  /\ h \o (b \o (n \o l)) \in Text /\ x \o a \in Text

(* Two groupings of three texts. *)
Regrouped(p, q, r) == (p \o q) \o r = p \o (q \o r)

(* Texts may be joined in any grouping. *)
LEMMA TextsJoin ==
  /\ \A p, q \in Text : p \o q \in Text
  /\ \A p, q, r \in Text : Regrouped(p, q, r)
<1>1. \A p, q \in Text : p \o q \in Text
  BY ConcatProperties DEF Text
<1>2. \A p, q, r \in Seq(Char) : (p \o q) \o r = p \o (q \o r)
  BY Associative
<1> QED
  BY <1>1, <1>2 DEF Text, Regrouped

(* A text parted in either way is the same text. *)
LEMMA Regroup ==
  /\ \A h, b, l, a \in Text : PartedBehind(h, b, l, a)
  /\ \A h, b, n, l, x, a \in Text : PartedWithin(h, b, n, l, x, a)
<1>1. ASSUME NEW h \in Text, NEW b \in Text, NEW l \in Text, NEW a \in Text
      PROVE  PartedBehind(h, b, l, a)
  <2> DEFINE c == b \o l
  <2>1. c \in Text
    BY Zenon, TextsJoin
  <2>2. Regrouped(b, l, a)
    BY Zenon, TextsJoin
  <2>3. b \o (l \o a) = c \o a
    BY Zenon, <2>2 DEF Regrouped
  <2> HIDE DEF c
  <2>4. Regrouped(h, c, a) /\ h \o c \in Text
    BY Zenon, <2>1, TextsJoin
  <2>5. h \o (c \o a) = (h \o c) \o a
    BY Zenon, <2>4 DEF Regrouped
  <2> QED
    BY Zenon, <2>3, <2>4, <2>5 DEF c, PartedBehind
<1>2. ASSUME NEW h \in Text, NEW b \in Text, NEW n \in Text, NEW l \in Text,
             NEW x \in Text, NEW a \in Text
      PROVE  PartedWithin(h, b, n, l, x, a)
  <2> DEFINE m == n \o l
             y == x \o a
  <2>1. m \in Text /\ y \in Text
    BY Zenon, TextsJoin
  <2>2. Regrouped(n, l, x)
    BY Zenon, TextsJoin
  <2>3. n \o (l \o x) = m \o x
    BY Zenon, <2>2 DEF Regrouped
  <2> HIDE DEF m
  <2>4. Regrouped(m, x, a)
    BY Zenon, <2>1, TextsJoin
  <2>5. (m \o x) \o a = m \o y
    BY Zenon, <2>4 DEF Regrouped
  <2> HIDE DEF y
  <2>6. PartedBehind(h, b, m, y)
    BY Zenon, <1>1, <2>1
  <2>7. /\ h \o (b \o (m \o y)) = (h \o (b \o m)) \o y
        /\ h \o (b \o m) \in Text
    BY Zenon, <2>6 DEF PartedBehind
  <2>8. h \o (b \o ((n \o (l \o x)) \o a)) = h \o (b \o (m \o y))
    BY Zenon, <2>3, <2>5
  <2> QED
    BY Zenon, <2>1, <2>7, <2>8 DEF m, y, PartedWithin
<1> QED
  BY <1>1, <1>2

(* The part of a table that was written, and what is written next. *)
LEMMA TableSplit ==
  ASSUME NEW t, TableOK(t), NEW w, NEW n \in 1..Len(t.rows), NEW size \in 1..Len(t.rows[n]),
         w.last = <<n - 1, size>>
  PROVE  /\ TableText(t) = TableText(Written(t, w.last)) \o TextFrom(w, t)
         /\ TextFrom(w, t) \in Text /\ TableText(Written(t, w.last)) \in Text
<1> DEFINE rows == t.rows
           row == rows[n]
           before == SubSeq(rows, 1, n - 1)
           after == SubSeq(rows, n + 1, Len(rows))
           left == SubSeq(row, 1, size)
           right == SubSeq(row, size + 1, Len(row))
           H == <<Hash, Space>>
           I == JoinText(t.cols)
           part == Written(t, w.last)
<1>0. /\ w.last[1] + 1 = n /\ w.last[2] = size /\ n \in Nat /\ n - 1 \in Nat /\ size \in Nat
  BY DEF TableOK
<1>1. /\ t.cols \in Seq(Word) /\ rows \in Seq(Seq(Word)) /\ row \in Seq(Word)
      /\ Len(rows) \in Nat /\ Len(row) \in Nat /\ n <= Len(rows) /\ size <= Len(row)
      /\ n >= 1 /\ size >= 1
  BY DEF TableOK
<1>2. /\ before \in Seq(Seq(Word)) /\ after \in Seq(Seq(Word)) /\ Len(before) = n - 1
      /\ Alike(rows, before, n - 1)
      /\ rows = before \o (<<row>> \o after)
  <2> HIDE DEF rows
  <2>1. n \in 1..Len(rows)
    BY <1>0, <1>1
  <2>2. /\ SubSeq(rows, 1, n - 1) \in Seq(Seq(Word))
        /\ SubSeq(rows, n + 1, Len(rows)) \in Seq(Seq(Word))
        /\ Len(SubSeq(rows, 1, n - 1)) = n - 1
        /\ Alike(rows, SubSeq(rows, 1, n - 1), n - 1)
        /\ rows = SubSeq(rows, 1, n - 1) \o (<<rows[n]>> \o SubSeq(rows, n + 1, Len(rows)))
    BY <1>1, <2>1, SplitAround
  <2> QED
    BY <2>2, Zenon
<1>3. /\ left \in Seq(Word) /\ right \in Seq(Word)
      /\ Len(left) = size /\ Len(right) = Len(row) - size
      /\ row = left \o right
  <2> HIDE DEF row
  <2> QED
    BY <1>1, SplitAfter DEF row
<1>4. part.cols = t.cols
      /\ part.rows = [r \in 1..n |-> IF r = n THEN left ELSE rows[r]]
  BY <1>0 DEF Written, TableOK
<1>5. TextFrom(w, t) = (IF size < Len(row) THEN <<Space>> \o JoinText(right) ELSE <<>>)
                         \o RowsText(after)
  <2>1. size > 0 /\ n - 1 + 1 = n
    BY <1>0, <1>1
  <2>2. w.last[1] + 1 = n /\ w.last[2] = size
    BY <1>0
  <2> HIDE DEF rows, row, right, after
  <2>3. TextFrom(w, t) = (IF size > 0 /\ size < Len(row) THEN <<Space>> \o JoinText(right) ELSE <<>>)
                           \o RowsText(after)
    BY <2>2, Zenon DEF TextFrom, rows, row, right, after
  <2> QED
    BY <2>1, <2>3
<1> HIDE DEF rows, row, before, after, left, right, part
<1>6. part.rows = before \o <<left>>
  <2> DEFINE d == part.rows
  <2>1. d \in Seq(Seq(Word)) /\ Len(d) = n
    <3>1. \A r \in 1..n : (IF r = n THEN left ELSE rows[r]) \in Seq(Word)
      BY <1>0, <1>1, <1>3
    <3>2. \A r \in 1..n : d[r] \in Seq(Word)
      BY <1>4, <3>1
    <3>3. d = [r \in 1..n |-> d[r]]
      BY <1>4
    <3>4. n \in Nat
      BY <1>0
    <3> HIDE DEF d
    <3> QED
      BY <3>2, <3>3, <3>4, IsSequence, Zenon
  <2>2. Alike(d, before, Len(before))
    <3>1. ASSUME NEW k \in 1..(n - 1)
          PROVE  d[k] = before[k]
      <4>1. k \in 1..n /\ k # n
        BY <1>0
      <4> QED
        BY <1>2, <1>4, <4>1 DEF Alike
    <3> QED
      BY <1>2, <3>1 DEF Alike
  <2>3. <<left>> \in Seq(Seq(Word)) /\ Len(<<left>>) = 1 /\ <<left>>[1] = left
    BY <1>3
  <2>4. \A k \in 1..Len(<<left>>) : d[Len(before) + k] = <<left>>[k]
    <3>1. \A k \in 1..Len(<<left>>) : k = 1
      BY <2>3
    <3>2. Len(before) + 1 = n /\ n \in 1..n
      BY <1>0, <1>1, <1>2
    <3>3. d[n] = left
      BY <1>4, <3>2
    <3> QED
      BY <2>3, <3>1, <3>2, <3>3
  <2>5. Len(d) = Len(before) + Len(<<left>>)
    BY <1>0, <1>2, <2>1, <2>3
  <2> HIDE DEF d
  <2>6. d = before \o <<left>>
    BY <1>2, <2>1, <2>2, <2>3, <2>4, <2>5, ConcatIs
  <2> QED
    BY <2>6 DEF d
<1> DEFINE B == RowsText(before)
           A == RowsText(after)
           N == <<Newline>>
           S == <<Space>>
           L == JoinText(left)
           R == JoinText(right)
           W == JoinText(row)
<1>8. /\ B \in Seq(Char) /\ A \in Seq(Char) /\ N \in Seq(Char) /\ S \in Seq(Char)
      /\ H \in Seq(Char) /\ I \in Seq(Char)
      /\ L \in Seq(Char) /\ R \in Seq(Char) /\ W \in Seq(Char)
  BY <1>1, <1>2, <1>3, PiecesAre, LinesAre, Delimiters DEF Text
<1>9. <<left>> \in Seq(Seq(Word)) /\ <<row>> \in Seq(Seq(Word))
      /\ <<row>> \o after \in Seq(Seq(Word))
  BY <1>1, <1>2, <1>3
<1>10. RowsText(part.rows) = B \o (N \o L)
  <2>1. RowsText(before \o <<left>>) = B \o RowsText(<<left>>)
    BY <1>2, <1>9, RowsConcat
  <2>2. RowsText(<<left>>) = N \o L
    BY <1>3, RowsOne
  <2> QED
    BY <1>6, <2>1, <2>2
<1>11. RowsText(rows) = B \o ((N \o W) \o A)
  <2>1. RowsText(before \o (<<row>> \o after)) = B \o RowsText(<<row>> \o after)
    BY <1>2, <1>9, RowsConcat
  <2>2. RowsText(<<row>> \o after) = RowsText(<<row>>) \o A
    BY <1>2, <1>9, RowsConcat
  <2>3. RowsText(<<row>>) = N \o W
    BY <1>1, RowsOne
  <2> QED
    BY <1>2, <2>1, <2>2, <2>3
<1>12. TableText(t) = H \o I \o RowsText(rows) /\ TableText(part) = H \o I \o RowsText(part.rows)
  BY <1>4 DEF TableText, rows
<1> DEFINE G == H \o I
           M == N \o L
           X == S \o R
<1>13. /\ B \in Text /\ A \in Text /\ N \in Text /\ L \in Text
       /\ G \in Text /\ M \in Text /\ X \in Text
  <2>1. /\ B \in Text /\ A \in Text /\ N \in Text /\ L \in Text /\ H \in Text /\ I \in Text
        /\ S \in Text /\ R \in Text
    BY <1>8 DEF Text
  <2> HIDE DEF B, A, N, S, L, R, W, H, I
  <2> QED
    BY <2>1, TextsJoin
<1>14. CASE size = Len(row)
  <2>1. left = row
    <3>1. right = <<>>
      BY <1>3, <1>14
    <3> QED
      BY <1>3, <3>1
  <2>2. W = L
    BY <2>1
  <2>3. TextFrom(w, t) = <<>> \o A
    <3>1. ~(size < Len(row))
      BY <1>1, <1>14
    <3> QED
      BY <1>5, <3>1, Zenon
  <2>4. TextFrom(w, t) = A
    BY <1>8, <2>3, ConcatEmptySeq
  <2> HIDE DEF G, M
  <2>5. PartedBehind(G, B, M, A)
    <3> HIDE DEF A, B
    <3> QED
      BY <1>13, Regroup
  <2> QED
    BY <1>10, <1>11, <1>12, <1>13, <2>2, <2>4, <2>5 DEF part, G, M, PartedBehind
<1>15. CASE size # Len(row)
  <2>1. left # <<>> /\ right # <<>>
    BY <1>0, <1>1, <1>3, <1>15
  <2>2. W = L \o X
    BY <1>3, <2>1, JoinConcat
  <2>3. TextFrom(w, t) = X \o A
    <3>1. size < Len(row)
      BY <1>0, <1>1, <1>15
    <3> QED
      BY <1>5, <3>1, Zenon
  <2> HIDE DEF G, X
  <2>4. PartedWithin(G, B, N, L, X, A)
    <3> HIDE DEF A, B, N, L
    <3> QED
      BY <1>13, Regroup
  <2> QED
    BY <1>10, <1>11, <1>12, <2>2, <2>3, <2>4 DEF part, G, PartedWithin
<1> QED
  BY <1>14, <1>15

------------------------------------------------------------------------------
(* A text put at the end of a file stands behind what the file held. *)
LEMMA PutBehind ==
  ASSUME NEW c \in Text, NEW text \in Text
  PROVE  PutAt(c, Len(c), text) = c \o text
<1> DEFINE n == Len(c)
           m == Len(text)
           p == PutAt(c, n, text)
<1>1. n \in Nat /\ m \in Nat /\ c \in Seq(Char) /\ text \in Seq(Char)
  BY DEF Text
<1>2. p = [k \in 1..(IF n + m > n THEN n + m ELSE n) |->
             IF n < k /\ k <= n + m THEN text[k - n]
             ELSE IF k <= n THEN c[k] ELSE Nul]
  BY DEF PutAt
<1>3. (IF n + m > n THEN n + m ELSE n) = n + m
  BY <1>1
<1> HIDE DEF p, n, m
<1>4. p = [k \in 1..(n + m) |->
             IF n < k /\ k <= n + m THEN text[k - n]
             ELSE IF k <= n THEN c[k] ELSE Nul]
  BY <1>2, <1>3
<1>5. ASSUME NEW k \in 1..n
      PROVE  p[k] = c[k] /\ c[k] \in Char
  <2>1. k \in 1..(n + m) /\ ~(n < k) /\ k <= n
    BY <1>1
  <2>2. c[k] \in Char
    BY <1>1 DEF n
  <2> QED
    BY <1>4, <2>1, <2>2
<1>6. ASSUME NEW k \in 1..m
      PROVE  p[n + k] = text[k] /\ text[k] \in Char
  <2>1. n + k \in 1..(n + m) /\ n < n + k /\ n + k <= n + m /\ (n + k) - n = k
    BY <1>1
  <2>2. text[k] \in Char
    BY <1>1 DEF m
  <2> QED
    BY <1>4, <2>1, <2>2
<1>7. \A k \in 1..(n + m) : p[k] \in Char
  <2>1. ASSUME NEW k \in 1..(n + m)
        PROVE  p[k] \in Char
    <3>1. CASE k <= n
      <4>1. k \in 1..n
        BY <1>1, <3>1
      <4> QED
        BY <1>5, <4>1
    <3>2. CASE ~(k <= n)
      <4>1. k - n \in 1..m /\ n + (k - n) = k
        BY <1>1, <3>2
      <4> QED
        BY <1>6, <4>1
    <3> QED
      BY <3>1, <3>2
  <2> QED
    BY <2>1
<1>8. p \in Seq(Char) /\ Len(p) = n + m
  <2>1. p = [k \in 1..(n + m) |-> p[k]] /\ n + m \in Nat
    BY <1>1, <1>4
  <2> QED
    BY <1>7, <2>1
<1>9. Alike(p, c, Len(c)) /\ Len(p) = Len(c) + Len(text)
      /\ \A k \in 1..Len(text) : p[Len(c) + k] = text[k]
  BY <1>5, <1>6, <1>8 DEF Alike, n, m
<1>10. p = c \o text
  BY <1>1, <1>8, <1>9, ConcatIs
<1> QED
  BY <1>10 DEF p, n

(* A text put at the start of a file that is not longer is all the file holds. *)
LEMMA PutOver ==
  ASSUME NEW c \in Text, NEW text \in Text, Len(c) <= Len(text)
  PROVE  PutAt(c, 0, text) = text
<1> DEFINE n == Len(c)
           m == Len(text)
           p == PutAt(c, 0, text)
<1>1. n \in Nat /\ m \in Nat /\ n <= m /\ text \in Seq(Char)
  BY DEF Text
<1>2. p = [k \in 1..(IF 0 + m > n THEN 0 + m ELSE n) |->
             IF 0 < k /\ k <= 0 + m THEN text[k - 0]
             ELSE IF k <= n THEN c[k] ELSE Nul]
  BY DEF PutAt
<1> HIDE DEF p, n, m
<1>3. (IF 0 + m > n THEN 0 + m ELSE n) = m
  BY <1>1
<1>4. p = [k \in 1..m |->
             IF 0 < k /\ k <= 0 + m THEN text[k - 0]
             ELSE IF k <= n THEN c[k] ELSE Nul]
  BY <1>2, <1>3
<1>5. ASSUME NEW k \in 1..m
      PROVE  p[k] = text[k]
  <2>1. 0 < k /\ k <= 0 + m /\ k - 0 = k
    BY <1>1
  <2> QED
    BY <1>4, <2>1
<1>6. p = [k \in 1..m |-> text[k]]
  BY <1>4, <1>5
<1>7. text = [k \in 1..m |-> text[k]]
  BY <1>1 DEF m
<1>8. p = text
  BY <1>6, <1>7
<1> QED
  BY <1>8 DEF p

(* The newline of the destructor. *)
LEMMA PutNewline ==
  ASSUME NEW c \in Text
  PROVE  PutAt(c, Len(c), <<Newline>>) = Append(c, Newline) /\ Append(c, Newline) \in Text
<1>1. <<Newline>> \in Text /\ Newline \in Char
  BY Delimiters DEF Char
<1>2. PutAt(c, Len(c), <<Newline>>) = c \o <<Newline>>
  BY <1>1, PutBehind
<1> DEFINE x == Newline
<1>3. c \in Seq(Char) /\ x \in Char
  BY <1>1 DEF Text
<1> HIDE DEF x
<1>4. c \o <<x>> = Append(c, x) /\ Append(c, x) \in Seq(Char)
  BY <1>3
<1> QED
  BY <1>2, <1>4 DEF x, Text

(* There are no more rows than keys, fewer than a size_t counts. *)
LEMMA RowsCounted ==
  ASSUME NEW t, TableOK(t), t.rows # <<>>
  PROVE  LastRow(t) = Len(t.rows) - 1 /\ Len(t.rows) \in Nat /\ Len(t.rows) >= 1
<1> DEFINE n == Len(t.rows)
           f == [r \in 1..n |-> t.rows[r][1]]
<1>1. t.rows \in Seq(Seq(Word)) /\ n \in Nat /\ n >= 1 /\ DOMAIN t.rows = 1..n
  BY DEF TableOK
<1>2. f \in Injection(1..n, Keys)
  <2>1. \A r \in 1..n : t.rows[r][1] \in Keys
    BY <1>1 DEF TableOK
  <2>2. \A q, r \in 1..n : t.rows[q][1] = t.rows[r][1] => q = r
    BY <1>1 DEF TableOK
  <2>3. f \in [1..n -> Keys] /\ \A q, r \in 1..n : f[q] = f[r] => q = r
    BY <2>1, <2>2
  <2> HIDE DEF f, n
  <2> QED
    BY <2>3 DEF Injection, IsInjective
<1> HIDE DEF f, n
<1>3. Cardinality(1..n) <= Cardinality(Keys)
  BY <1>2, SizeAssumption, FS_Injection
<1>4. Cardinality(1..n) = n
  <2>1. Cardinality(1..n) = IF 1 > n THEN 0 ELSE n - 1 + 1
    BY <1>1, FS_Interval
  <2> QED
    BY <1>1, <2>1
<1>5. Cardinality(Keys) \in Nat
  BY SizeAssumption, FS_CardinalityType
<1>6. n - 1 \in 0..(SizeRange - 1) /\ SizeRange \in Nat
  BY <1>1, <1>3, <1>4, <1>5, SizeAssumption
<1>7. (n - 1) % SizeRange = n - 1
  BY <1>6
<1> QED
  BY <1>1, <1>7 DEF LastRow, n

------------------------------------------------------------------------------
(* The writers, of which last is a cell they wrote. *)
Writers == [name : Files, put : Nat, last : Nat \X Nat, full : BOOLEAN, since : Nat]

Marks(last, t) ==
  \E n \in 1..Len(t.rows) : \E size \in 1..Len(t.rows[n]) : last = <<n - 1, size>>

(* What a writer keeps of a file while its table grows. *)
Kept(contents, w, t) ==
  /\ w \in Writers /\ contents \in Text
  /\ w.put = Len(contents)
  /\ Len(contents) <= Len(TableText(t))
  /\ ~w.full => /\ Marks(w.last, t)
                /\ contents = TableText(Written(t, w.last))

(* What is so when a writer has written a table. *)
WroteOut(d, w, t, wrote) ==
  /\ wrote[1] = [d EXCEPT ![w.name] = TableText(t)]
  /\ wrote[2] \in Writers /\ wrote[2].name = w.name
  /\ wrote[2].put = Len(TableText(t))
  /\ t.rows # <<>> => Kept(TableText(t), wrote[2], t)

(* The place where a writer stops. *)
LEMMA LastPlace ==
  ASSUME NEW t, TableOK(t), NEW size \in Nat
  PROVE  /\ <<LastRow(t), LastSize(t, size)>> \in Nat \X Nat
         /\ t.rows # <<>> => /\ Marks(<<LastRow(t), LastSize(t, size)>>, t)
                             /\ Written(t, <<LastRow(t), LastSize(t, size)>>) = t
<1> DEFINE rows == t.rows
           n == Len(rows)
           last == <<LastRow(t), LastSize(t, size)>>
<1>1. t \in [cols : Seq(Word), rows : Seq(Seq(Word))] /\ rows \in Seq(Seq(Word)) /\ n \in Nat
  BY DEF TableOK
<1>2. CASE rows = <<>>
  <2>1. SizeRange \in Nat /\ SizeRange > 0
    BY SizeAssumption, FS_CardinalityType
  <2>2. n - 1 \in Int
    BY <1>1
  <2>3. (n - 1) % SizeRange \in Nat
    <3>1. \A i \in Int : i % SizeRange \in 0..(SizeRange - 1)
      BY <2>1
    <3> HIDE DEF n
    <3> QED
      BY <2>1, <2>2, <3>1
  <2>4. LastRow(t) \in Nat /\ LastSize(t, size) = size
    BY <1>2, <2>3 DEF LastRow, LastSize
  <2> QED
    BY <1>2, <2>4
<1>3. CASE rows # <<>>
  <2>1. LastRow(t) = n - 1 /\ n >= 1
    BY <1>3, RowsCounted
  <2> DEFINE row == rows[n]
  <2>2. LastSize(t, size) = Len(row)
    BY <1>3 DEF LastSize
  <2>3. n \in 1..n /\ row \in Seq(Word) /\ row # <<>>
    <3>1. n \in 1..n /\ DOMAIN rows = 1..n
      BY <1>1, <2>1
    <3>2. row # <<>>
      <4>1. \A r \in DOMAIN t.rows : t.rows[r] # <<>>
        BY DEF TableOK
      <4> QED
        BY <3>1, <4>1
    <3>3. row \in Seq(Word)
      BY <1>1, <3>1
    <3> QED
      BY <3>1, <3>2, <3>3
  <2> HIDE DEF row
  <2>4. Len(row) \in 1..Len(row) /\ Len(row) \in Nat
    BY <2>3
  <2>5. last = <<n - 1, Len(row)>>
    BY <2>1, <2>2
  <2>6. Marks(last, t)
    <3>1. n \in 1..Len(t.rows) /\ Len(row) \in 1..Len(t.rows[n])
      BY <2>3, <2>4 DEF row
    <3> HIDE DEF n, rows, last
    <3> QED
      BY <2>5, <3>1 DEF Marks
  <2>7. Written(t, last) = t
    <3> DEFINE X == [r \in 1..n |-> IF r = n THEN SubSeq(rows[r], 1, Len(row)) ELSE rows[r]]
    <3>1. last[1] + 1 = n /\ last[2] = Len(row)
      BY <1>1, <2>5
    <3>2. Written(t, last) = [t EXCEPT !.rows = X]
      BY <3>1 DEF Written
    <3>3. SubSeq(row, 1, Len(row)) = row
      BY <2>3
    <3>4. X = rows
      <4> HIDE DEF last
      <4>1. ASSUME NEW r \in 1..n
            PROVE  X[r] = rows[r]
        BY <3>3 DEF row
      <4>2. X = [r \in 1..n |-> rows[r]]
        BY <4>1
      <4>3. rows = [r \in 1..n |-> rows[r]]
        BY <1>1
      <4> QED
        BY <4>2, <4>3
    <3> HIDE DEF X
    <3>5. [t EXCEPT !.rows = rows] = t
      BY <1>1
    <3> QED
      BY <3>2, <3>4, <3>5
  <2>8. last \in Nat \X Nat
    BY <1>1, <2>1, <2>4, <2>5
  <2> QED
    BY <2>6, <2>7, <2>8
<1> QED
  BY <1>2, <1>3

(* A writer that has kept its file leaves the whole table in it, whether it
   writes everything or what is new. *)
LEMMA WriteKeeps ==
  ASSUME NEW d \in [Files -> Text], NEW w, NEW t,
         TableOK(t), Kept(d[w.name], w, t)
  PROVE  WroteOut(d, w, t, Write(d, w, t))
<1> DEFINE c == d[w.name]
           text == TableText(t)
           last == <<LastRow(t), LastSize(t, w.last[2])>>
           v == [w EXCEPT !.put = Len(text), !.last = last, !.full = FALSE, !.since = 0]
<1>1. /\ w \in Writers /\ c \in Text /\ w.put = Len(c) /\ Len(c) <= Len(text)
      /\ w.name \in Files
  BY DEF Kept, Writers
<1>2. text \in Text /\ Len(text) \in Nat
  BY TableIsText
<1>3. w.last[2] \in Nat
  BY <1>1 DEF Writers
<1>4. last \in Nat \X Nat /\ (t.rows # <<>> => Marks(last, t) /\ Written(t, last) = t)
  BY <1>3, LastPlace
<1>5. Write(d, w, t) = <<[d EXCEPT ![w.name] = text], v>>
  <2>1. CASE w.full
    <3>1. Write(d, w, t) = WriteFull(d, w, t)
      BY <2>1 DEF Write
    <3>2. PutAt(c, 0, text) = text
      BY <1>1, <1>2, PutOver
    <3>3. WriteFull(d, w, t) = <<[d EXCEPT ![w.name] = PutAt(c, 0, text)], v>>
      BY Zenon DEF WriteFull
    <3> QED
      BY <3>1, <3>2, <3>3
  <2>2. CASE ~w.full
    <3> DEFINE more == TextFrom(w, t)
               u == [w EXCEPT !.put = w.put + Len(more), !.last = last,
                              !.full = FALSE, !.since = 0]
    <3>1. Write(d, w, t) = WriteFrom(d, w, t)
      BY <2>2 DEF Write
    <3>2. Marks(w.last, t) /\ c = TableText(Written(t, w.last))
      BY <2>2 DEF Kept
    <3>3. PICK n \in 1..Len(t.rows) : \E size \in 1..Len(t.rows[n]) : w.last = <<n - 1, size>>
      BY <3>2 DEF Marks
    <3>4. PICK size \in 1..Len(t.rows[n]) : w.last = <<n - 1, size>>
      BY <3>3
    <3>5. text = c \o more /\ more \in Text
      BY <3>2, <3>4, TableSplit
    <3>6. PutAt(c, w.put, more) = text
      BY <1>1, <3>5, PutBehind
    <3>7. w.put + Len(more) = Len(text)
      <4> HIDE DEF c, more, text
      <4>1. Len(c \o more) = Len(c) + Len(more)
        BY <1>1, <3>5 DEF Text
      <4> QED
        BY <1>1, <3>5, <4>1
    <3>8. WriteFrom(d, w, t) = <<[d EXCEPT ![w.name] = PutAt(c, w.put, more)], u>>
      BY Zenon DEF WriteFrom
    <3>9. u = v
      BY <3>7
    <3> HIDE DEF u, v, c, more, text
    <3> QED
      BY <3>1, <3>6, <3>8, <3>9
  <2>3. w.full \in BOOLEAN
    BY <1>1 DEF Writers
  <2> QED
    BY <2>1, <2>2
<1> DEFINE wrote == Write(d, w, t)
<1> HIDE DEF last, text
<1>6. v \in Writers /\ v.name = w.name /\ v.put = Len(text) /\ v.last = last /\ v.full = FALSE
  BY <1>1, <1>2, <1>4 DEF Writers
<1>7. wrote[1] = [d EXCEPT ![w.name] = text] /\ wrote[2] = v
  BY <1>5
<1> HIDE DEF v, wrote
<1>8. t.rows # <<>> => Kept(text, v, t)
  <2>1. SUFFICES ASSUME t.rows # <<>>
                 PROVE  Kept(text, v, t)
    OBVIOUS
  <2>2. Marks(v.last, t) /\ text = TableText(Written(t, v.last))
    BY <1>4, <1>6, <2>1 DEF text
  <2>3. Len(text) <= Len(text)
    BY <1>2
  <2>4. Len(text) <= Len(TableText(t))
    BY <2>3 DEF text
  <2> QED
    BY <1>2, <1>6, <2>2, <2>4 DEF Kept
<1> QED
  BY <1>6, <1>7, <1>8 DEF WroteOut, text, wrote

------------------------------------------------------------------------------
(* p has the rows of t, and behind them rows of which only the key is set. *)
GrownFrom(t, p, key) ==
  /\ Len(t.rows) <= Len(p.rows)
  /\ Alike(t.rows, p.rows, Len(t.rows))
  /\ \A r \in 1..Len(p.rows) : r > Len(t.rows) => p.rows[r] = <<key>>

(* A row is found, or added behind the others. *)
LEMMA RowPlaced ==
  ASSUME NEW t, TableOK(t), NEW key \in Keys
  PROVE  LET p == WithRow(t, key)
         IN TableOK(p) /\ p.cols = t.cols /\ HasRow(p, key) /\ GrownFrom(t, p, key)
<1> DEFINE p == WithRow(t, key)
           rows == t.rows
           n == Len(rows)
<1>1. /\ t \in [cols : Seq(Word), rows : Seq(Seq(Word))] /\ rows \in Seq(Seq(Word))
      /\ n \in Nat /\ DOMAIN rows = 1..n
  BY DEF TableOK
<1>2. CASE HasRow(t, key)
  <2>1. p = t
    BY <1>2 DEF WithRow
  <2>2. GrownFrom(t, t, key)
    BY <1>1 DEF GrownFrom, Alike
  <2> HIDE DEF p
  <2>3. HasRow(p, key) /\ GrownFrom(t, p, key) /\ p.cols = t.cols
    BY <1>2, <2>1, <2>2
  <2> QED
    BY <2>1, <2>3 DEF p
<1>3. CASE ~HasRow(t, key)
  <2> DEFINE added == Append(rows, <<key>>)
  <2>1. p = [t EXCEPT !.rows = added]
    BY <1>3 DEF WithRow
  <2>2. <<key>> \in Seq(Word) /\ <<key>> # <<>> /\ <<key>>[1] = key
    BY DEF Word
  <2> DEFINE one == <<key>>
  <2> HIDE DEF one
  <2>3. /\ added \in Seq(Seq(Word)) /\ Len(added) = n + 1 /\ added[n + 1] = one
        /\ \A r \in 1..n : added[r] = rows[r]
    <3>1. one \in Seq(Word) /\ added = Append(rows, one)
      BY <2>2 DEF one
    <3> HIDE DEF added, rows
    <3>2. Append(rows, one) \in Seq(Seq(Word)) /\ Len(Append(rows, one)) = Len(rows) + 1
          /\ Append(rows, one)[Len(rows) + 1] = one
          /\ \A r \in 1..Len(rows) : Append(rows, one)[r] = rows[r]
      BY <1>1, <3>1
    <3> QED
      BY <3>1, <3>2
  <2> HIDE DEF added
  <2>4. p \in [cols : Seq(Word), rows : Seq(Seq(Word))] /\ p.cols = t.cols /\ p.rows = added
    BY <1>1, <2>1, <2>3
  <2>5. /\ \A r \in 1..n : rows[r] # <<>> /\ rows[r][1] \in Keys /\ rows[r][1] # key
        /\ \A q, r \in 1..n : rows[q][1] = rows[r][1] => q = r
    BY <1>1, <1>3 DEF TableOK, HasRow
  <2>6. one # <<>> /\ one[1] = key
    BY <2>2 DEF one
  <2> HIDE DEF p, rows, n
  <2>7. DOMAIN added = 1..(n + 1)
    BY <2>3
  <2>8. \A r \in 1..(n + 1) : r = n + 1 \/ r \in 1..n
    BY <1>1
  <2>9. \A r \in DOMAIN added : added[r] # <<>> /\ added[r][1] \in Keys
    BY <2>3, <2>5, <2>6, <2>7, <2>8
  <2>10. ASSUME NEW q \in DOMAIN added, NEW r \in DOMAIN added, added[q][1] = added[r][1]
         PROVE  q = r
    <3>1. q = n + 1 \/ q \in 1..n
      BY <2>7, <2>8
    <3>2. r = n + 1 \/ r \in 1..n
      BY <2>7, <2>8
    <3>3. CASE q \in 1..n /\ r \in 1..n
      BY <2>3, <2>5, <2>10, <3>3
    <3>4. CASE q \in 1..n /\ r = n + 1
      BY <2>3, <2>5, <2>6, <2>10, <3>4
    <3>5. CASE q = n + 1 /\ r \in 1..n
      BY <2>3, <2>5, <2>6, <2>10, <3>5
    <3> QED
      BY <3>1, <3>2, <3>3, <3>4, <3>5
  <2>11. p.cols # <<>>
    BY <2>4 DEF TableOK
  <2>12. TableOK(p)
    BY <2>4, <2>9, <2>10, <2>11 DEF TableOK
  <2>13. HasRow(p, key)
    <3>1. n + 1 \in DOMAIN added /\ added[n + 1][1] = key
      BY <1>1, <2>3, <2>6, <2>7
    <3> QED
      BY <2>4, <3>1 DEF HasRow
  <2>14. GrownFrom(t, p, key)
    <3>1. n <= Len(added) /\ \A r \in 1..n : rows[r] = added[r]
      BY <1>1, <2>3
    <3>2. \A r \in 1..Len(added) : r > n => added[r] = one
      BY <1>1, <2>3, <2>8
    <3> QED
      BY <2>4, <3>1, <3>2 DEF GrownFrom, Alike, one, n, rows
  <2> QED
    BY <2>4, <2>12, <2>13, <2>14 DEF p
<1> QED
  BY <1>2, <1>3

(* A column is found, or added behind the others. *)
LEMMA ColPlaced ==
  ASSUME NEW t, TableOK(t), NEW name \in Cols
  PROVE  LET p == WithCol(t, name)
         IN /\ TableOK(p) /\ p.rows = t.rows /\ HasCol(p, name)
            /\ NotNarrower(t.cols, p.cols)
            /\ HasCol(t, name) => p = t
<1> DEFINE p == WithCol(t, name)
           cols == t.cols
           n == Len(cols)
<1>1. /\ t \in [cols : Seq(Word), rows : Seq(Seq(Word))] /\ cols \in Seq(Word)
      /\ n \in Nat /\ n >= 1
  BY DEF TableOK
<1>2. ASSUME NEW k \in 1..n
      PROVE  Width[cols[k]] <= Width[cols[k]]
  <2>1. cols[k] \in Word
    BY <1>1
  <2>2. Width[cols[k]] \in Nat
    BY <2>1, WordIsText
  <2> QED
    BY <2>2
<1>3. CASE HasCol(t, name)
  <2>1. p = t
    BY <1>3 DEF WithCol
  <2>2. NotNarrower(cols, cols)
    <3> HIDE DEF cols
    <3>1. Len(cols) <= Len(cols)
      BY <1>1
    <3> QED
      BY <1>2, <3>1 DEF NotNarrower
  <2> HIDE DEF p
  <2>3. p.rows = t.rows /\ HasCol(p, name) /\ NotNarrower(t.cols, p.cols)
    BY <1>3, <2>1, <2>2
  <2> QED
    BY <2>1, <2>3 DEF p
<1>4. CASE ~HasCol(t, name)
  <2> DEFINE added == Append(cols, name)
  <2>1. p = [t EXCEPT !.cols = added]
    BY <1>4 DEF WithCol
  <2>2. name \in Word
    BY DEF Word
  <2>3. /\ added \in Seq(Word) /\ Len(added) = n + 1 /\ added[n + 1] = name
        /\ \A k \in 1..n : added[k] = cols[k]
    BY <1>1, <2>2
  <2> HIDE DEF added
  <2>4. p \in [cols : Seq(Word), rows : Seq(Seq(Word))] /\ p.rows = t.rows /\ p.cols = added
    BY <1>1, <2>1, <2>3
  <2> HIDE DEF p
  <2>5. p.cols # <<>>
    BY <1>1, <2>3, <2>4
  <2>6. TableOK(p)
    BY <2>4, <2>5 DEF TableOK
  <2>7. n + 1 \in 2..Len(p.cols) /\ p.cols[n + 1] = name
    BY <1>1, <2>3, <2>4
  <2>8. HasCol(p, name)
    BY <2>7 DEF HasCol
  <2>9. NotNarrower(cols, added)
    <3>1. n <= Len(added) /\ \A k \in 1..n : Width[cols[k]] <= Width[added[k]]
      BY <1>1, <1>2, <2>3
    <3> QED
      BY <3>1 DEF NotNarrower
  <2>10. p.rows = t.rows /\ NotNarrower(t.cols, p.cols)
    BY <2>4, <2>9
  <2> QED
    BY <1>4, <2>6, <2>8, <2>10 DEF p
<1> QED
  BY <1>3, <1>4

(* What an insert finds when the row and the column are there. *)
PlacedFrom(t, p, key, name) ==
  /\ TableOK(p) /\ HasRow(p, key) /\ HasCol(p, name)
  /\ Larger(t, p) /\ GrownFrom(t, p, key)
  /\ HasCol(t, name) => p.cols = t.cols

(* Finding the row and the column makes a table larger, if anything. *)
LEMMA Placed ==
  ASSUME NEW t, TableOK(t), NEW key \in Keys, NEW name \in Cols
  PROVE  PlacedFrom(t, WithCol(WithRow(t, key), name), key, name)
<1> DEFINE u == WithRow(t, key)
           p == WithCol(u, name)
<1>1. TableOK(u) /\ u.cols = t.cols /\ HasRow(u, key) /\ GrownFrom(t, u, key)
  BY RowPlaced
<1> HIDE DEF u
<1>2. /\ TableOK(p) /\ p.rows = u.rows /\ HasCol(p, name)
      /\ NotNarrower(u.cols, p.cols)
      /\ HasCol(u, name) => p = u
  BY <1>1, ColPlaced
<1> HIDE DEF p
<1>3. HasRow(p, key)
  BY <1>1, <1>2 DEF HasRow
<1>4. GrownFrom(t, p, key)
  BY <1>1, <1>2 DEF GrownFrom
<1>5. HasCol(t, name) => p.cols = t.cols
  BY <1>1, <1>2 DEF HasCol
<1>6. Larger(t, p)
  <2>1. t.rows \in Seq(Seq(Word))
    BY DEF TableOK
  <2>2. ASSUME NEW r \in 1..Len(t.rows)
        PROVE  NotNarrower(t.rows[r], p.rows[r])
    <3> DEFINE row == t.rows[r]
    <3>1. row \in Seq(Word) /\ p.rows[r] = row
      BY <1>4, <2>1 DEF GrownFrom, Alike
    <3> HIDE DEF row
    <3>2. \A k \in 1..Len(row) : Width[row[k]] \in Nat
      <4>1. \A k \in 1..Len(row) : row[k] \in Word
        BY <3>1
      <4> QED
        BY <4>1, WordIsText
    <3>3. Len(row) <= Len(row) /\ \A k \in 1..Len(row) : Width[row[k]] <= Width[row[k]]
      BY <3>1, <3>2
    <3>4. NotNarrower(row, row)
      BY <3>3 DEF NotNarrower
    <3> QED
      BY <3>1, <3>4 DEF row
  <2>3. Len(t.rows) <= Len(p.rows)
    BY <1>4 DEF GrownFrom
  <2> QED
    BY <1>1, <1>2, <2>2, <2>3 DEF Larger
<1>7. PlacedFrom(t, p, key, name)
  BY <1>2, <1>3, <1>4, <1>5, <1>6 DEF PlacedFrom
<1> QED
  BY <1>7 DEF p, u

(* The cell an insert sets lies in a row and a column, behind the row's key. *)
LEMMA CellPlaced ==
  ASSUME NEW p, TableOK(p), NEW key, HasRow(p, key), NEW name, HasCol(p, name)
  PROVE  \E r \in 1..Len(p.rows), c \in Nat \ {0} :
           CoordsOf(p, key, name) = <<r - 1, c>> /\ c + 1 <= Len(p.cols)
<1>1. DOMAIN p.rows = 1..Len(p.rows) /\ Len(p.cols) \in Nat
  BY DEF TableOK
<1> DEFINE r == CHOOSE r \in DOMAIN p.rows : p.rows[r][1] = key
           c == CHOOSE c \in 2..Len(p.cols) : p.cols[c] = name
<1>2. r \in 1..Len(p.rows)
  BY <1>1 DEF HasRow
<1>3. c \in 2..Len(p.cols)
  BY DEF HasCol
<1>4. CoordsOf(p, key, name) = <<r - 1, c - 1>>
  BY Zenon DEF CoordsOf
<1> HIDE DEF r, c
<1>5. c - 1 \in Nat \ {0} /\ (c - 1) + 1 <= Len(p.cols)
  BY <1>1, <1>3
<1> QED
  BY <1>2, <1>4, <1>5

(* s is p but for cell c of row r, both counted from one, and what was missing
   before it in the row. *)
StoredAt(p, s, r, c) ==
  /\ s.cols = p.cols
  /\ Len(s.rows) = Len(p.rows)
  /\ \A q \in 1..Len(p.rows) : q # r => s.rows[q] = p.rows[q]
  /\ Len(p.rows[r]) <= Len(s.rows[r])
  /\ Len(s.rows[r]) \in {Len(p.rows[r]), c}
  /\ \A k \in 1..Len(p.rows[r]) : k # c => s.rows[r][k] = p.rows[r][k]

(* Storing a value behind a key leaves a table, in which nothing else moved. *)
LEMMA ValueStored ==
  ASSUME NEW p, TableOK(p), NEW r \in 1..Len(p.rows), NEW c \in Nat \ {0},
         NEW value \in Values
  PROVE  LET s == WithValue(p, <<r - 1, c>>, value)
         IN TableOK(s) /\ StoredAt(p, s, r, c + 1)
<1> DEFINE rows == p.rows
           row == rows[r]
           n == Len(row)
           m == IF n > c THEN n ELSE c + 1
           wide == [k \in 1..m |-> IF k = c + 1 THEN value
                                   ELSE IF k <= n THEN row[k] ELSE NoValue]
           s == WithValue(p, <<r - 1, c>>, value)
<1>1. /\ p \in [cols : Seq(Word), rows : Seq(Seq(Word))] /\ rows \in Seq(Seq(Word))
      /\ r \in Nat /\ DOMAIN rows = 1..Len(rows)
  BY DEF TableOK
<1>2. row \in Seq(Word) /\ row # <<>> /\ row[1] \in Keys
  <2>1. row \in Seq(Word)
    BY <1>1
  <2>2. \A q \in DOMAIN p.rows : p.rows[q] # <<>> /\ p.rows[q][1] \in Keys
    BY DEF TableOK
  <2> QED
    BY <1>1, <2>1, <2>2
<1>3. s = [p EXCEPT !.rows[r] = wide]
  <2>1. (r - 1) + 1 = r
    BY <1>1
  <2>2. s = [p EXCEPT !.rows[(r - 1) + 1] =
              [k \in 1..(IF Len(p.rows[(r - 1) + 1]) > c THEN Len(p.rows[(r - 1) + 1]) ELSE c + 1) |->
                 IF k = c + 1 THEN value
                 ELSE IF k <= Len(p.rows[(r - 1) + 1]) THEN p.rows[(r - 1) + 1][k] ELSE NoValue]]
    BY DEF WithValue
  <2> QED
    BY <2>1, <2>2
<1> HIDE DEF row, s
<1>4. n \in Nat /\ n >= 1 /\ m \in Nat /\ n <= m /\ c + 1 <= m /\ c + 1 # 1 /\ 1 \in 1..n
  BY <1>2
<1>5. ASSUME NEW k \in 1..n, k # c + 1
      PROVE  wide[k] = row[k]
  <2>1. k \in 1..m /\ k <= n
    BY <1>4
  <2> QED
    BY <1>5, <2>1
<1>6. wide \in Seq(Word) /\ Len(wide) = m
  <2>1. ASSUME NEW k \in 1..m
        PROVE  wide[k] \in Word
    <3>1. value \in Word /\ NoValue \in Word
      BY DEF Word
    <3>2. k <= n => row[k] \in Word
      <4>1. k <= n => k \in 1..n
        BY <1>4
      <4> QED
        BY <1>2, <4>1 DEF n
    <3> QED
      BY <3>1, <3>2
  <2>2. wide = [k \in 1..m |-> wide[k]]
    OBVIOUS
  <2> HIDE DEF wide, m
  <2> QED
    BY <1>4, <2>1, <2>2
<1>7. wide[1] = row[1] /\ wide # <<>>
  <2>1. wide[1] = row[1]
    BY <1>4, <1>5
  <2>2. Len(wide) # 0
    BY <1>4, <1>6
  <2> QED
    BY <2>1, <2>2
<1> HIDE DEF wide, m, n
<1>8. s.cols = p.cols /\ s.rows = [rows EXCEPT ![r] = wide]
      /\ s \in [cols : Seq(Word), rows : Seq(Seq(Word))]
  <2>1. s = [p EXCEPT !.rows = [rows EXCEPT ![r] = wide]]
    BY <1>1, <1>3
  <2>2. [rows EXCEPT ![r] = wide] \in Seq(Seq(Word))
    <3> DEFINE T == Seq(Word)
    <3>1. rows \in Seq(T) /\ wide \in T /\ r \in 1..Len(rows)
      BY <1>1, <1>6
    <3> HIDE DEF T, rows
    <3>2. [rows EXCEPT ![r] = wide] \in Seq(T)
      BY <3>1, ExceptSeq
    <3> QED
      BY <3>2 DEF T
  <2> QED
    BY <1>1, <2>1, <2>2
<1> DEFINE new == s.rows
<1>9. /\ DOMAIN new = DOMAIN rows /\ Len(new) = Len(rows) /\ new[r] = wide
      /\ \A q \in DOMAIN rows : q # r => new[q] = rows[q]
  BY <1>1, <1>8
<1>10. \A q \in DOMAIN new : new[q] # <<>> /\ new[q][1] = rows[q][1]
  <2>1. \A q \in DOMAIN rows : rows[q] # <<>>
    BY DEF TableOK
  <2> HIDE DEF new, rows
  <2>2. new[r] # <<>> /\ new[r][1] = rows[r][1]
    BY <1>7, <1>9 DEF row
  <2> QED
    BY <1>9, <2>1, <2>2
<1>11. TableOK(s)
  <2>1. /\ \A q \in DOMAIN rows : rows[q][1] \in Keys
        /\ \A i, j \in DOMAIN rows : rows[i][1] = rows[j][1] => i = j
        /\ p.cols # <<>>
    BY DEF TableOK
  <2> HIDE DEF new, rows
  <2>2. \A q \in DOMAIN new : new[q] # <<>> /\ new[q][1] \in Keys
    BY <1>9, <1>10, <2>1
  <2>3. \A i, j \in DOMAIN new : new[i][1] = new[j][1] => i = j
    BY <1>9, <1>10, <2>1
  <2> QED
    BY <1>8, <2>1, <2>2, <2>3 DEF TableOK, new
<1>12. StoredAt(p, s, r, c + 1)
  <2> HIDE DEF new
  <2>1. \A q \in 1..Len(rows) : q # r => new[q] = rows[q]
    BY <1>1, <1>9
  <2>2. Len(row) <= Len(new[r]) /\ \A k \in 1..Len(row) : k # c + 1 => new[r][k] = row[k]
    BY <1>4, <1>5, <1>6, <1>9 DEF n
  <2>3. Len(new[r]) \in {Len(row), c + 1}
    BY <1>6, <1>9 DEF m, n
  <2> QED
    BY <1>8, <1>9, <2>1, <2>2, <2>3 DEF StoredAt, new, rows, row
<1> QED
  BY <1>11, <1>12 DEF s

(* No cell of t has fewer characters in s. *)
Widened(t, s) ==
  \A r \in DOMAIN t.rows : \A c \in DOMAIN t.rows[r] :
    Width[t.rows[r][c]] <= Width[s.rows[r][c]]

(* Then the table with the value stored is larger than the one it was stored
   in, of which the cells that t has not are keys. *)
LEMMA StoredLarger ==
  ASSUME NEW t, TableOK(t), NEW p, TableOK(p), NEW key, GrownFrom(t, p, key),
         NEW s, TableOK(s), NEW r \in 1..Len(p.rows), NEW c \in Nat, c > 1,
         StoredAt(p, s, r, c), Widened(t, s)
  PROVE  Larger(p, s)
<1>1. /\ t.rows \in Seq(Seq(Word)) /\ DOMAIN t.rows = 1..Len(t.rows) /\ Len(t.rows) \in Nat
      /\ p.rows \in Seq(Seq(Word)) /\ DOMAIN p.rows = 1..Len(p.rows) /\ Len(p.rows) \in Nat
      /\ p.cols \in Seq(Word)
  BY DEF TableOK
<1>2. ASSUME NEW q \in 1..Len(p.rows)
      PROVE  NotNarrower(p.rows[q], s.rows[q])
  <2> DEFINE u == p.rows[q]
             v == s.rows[q]
  <2>1. u \in Seq(Word) /\ Len(u) \in Nat /\ DOMAIN u = 1..Len(u)
    BY <1>1
  <2>2. q # r => v = u
    BY DEF StoredAt
  <2>3. q = r => Len(u) <= Len(v) /\ \A k \in 1..Len(u) : k # c => v[k] = u[k]
    BY DEF StoredAt
  <2> HIDE DEF u, v
  <2>4. Len(u) <= Len(v) /\ \A k \in 1..Len(u) : k # c => v[k] = u[k]
    BY <2>1, <2>2, <2>3
  <2>5. \A k \in 1..Len(u) : Width[u[k]] \in Nat
    <3>1. \A k \in 1..Len(u) : u[k] \in Word
      BY <2>1
    <3> QED
      BY <3>1, WordIsText
  <2>6. ASSUME NEW k \in 1..Len(u)
        PROVE  Width[u[k]] <= Width[v[k]]
    <3>1. CASE q <= Len(t.rows)
      <4>1. q \in DOMAIN t.rows /\ t.rows[q] = u
        BY <1>1, <3>1 DEF GrownFrom, Alike, u
      <4>2. k \in DOMAIN t.rows[q]
        BY <2>1, <4>1
      <4>3. Width[t.rows[q][k]] <= Width[s.rows[q][k]]
        BY <4>1, <4>2 DEF Widened
      <4> QED
        BY <4>1, <4>3 DEF v
    <3>2. CASE q > Len(t.rows)
      <4>1. u = <<key>>
        BY <3>2 DEF GrownFrom, u
      <4>2. k = 1
        BY <4>1
      <4>3. v[k] = u[k]
        BY <2>4, <4>2
      <4>4. Width[u[k]] \in Nat
        BY <2>5
      <4> QED
        BY <4>3, <4>4
    <3> QED
      BY <1>1, <3>1, <3>2
  <2>7. NotNarrower(u, v)
    BY <2>4, <2>6 DEF NotNarrower
  <2> QED
    BY <2>7 DEF u, v
<1>3. NotNarrower(p.cols, s.cols)
  <2> DEFINE u == p.cols
  <2>1. u \in Seq(Word) /\ s.cols = u
    BY <1>1 DEF StoredAt
  <2> HIDE DEF u
  <2>2. \A k \in 1..Len(u) : u[k] \in Word
    BY <2>1
  <2>3. \A k \in 1..Len(u) : Width[u[k]] \in Nat
    BY <2>2, WordIsText
  <2>4. Len(u) <= Len(u) /\ \A k \in 1..Len(u) : Width[u[k]] <= Width[u[k]]
    BY <2>1, <2>3
  <2>5. NotNarrower(u, u)
    BY <2>4 DEF NotNarrower
  <2> QED
    BY <2>1, <2>5 DEF u
<1>4. Len(p.rows) <= Len(s.rows)
  BY <1>1 DEF StoredAt
<1> QED
  BY <1>2, <1>3, <1>4 DEF Larger

------------------------------------------------------------------------------
(* What was written of t up to last is what there is of u. *)
Follows(t, u, last) == Marks(last, u) /\ Written(u, last) = Written(t, last)

(* So it is when u has the rows before, and of the last row the cells. *)
LEMMA SameWritten ==
  ASSUME NEW t, TableOK(t), NEW u, TableOK(u), u.cols = t.cols, NEW last,
         NEW n \in 1..Len(t.rows), NEW size \in 1..Len(t.rows[n]), last = <<n - 1, size>>,
         n <= Len(u.rows), Alike(t.rows, u.rows, n - 1),
         size <= Len(u.rows[n]), Alike(t.rows[n], u.rows[n], size)
  PROVE  Follows(t, u, last)
<1>1. /\ t \in [cols : Seq(Word), rows : Seq(Seq(Word))]
      /\ u \in [cols : Seq(Word), rows : Seq(Seq(Word))]
  BY DEF TableOK
<1>2. n \in Nat /\ Len(u.rows) \in Nat /\ n \in 1..Len(u.rows)
  BY <1>1
<1>3. t.rows[n] \in Seq(Word) /\ u.rows[n] \in Seq(Word)
  BY <1>1, <1>2
<1>4. size \in Nat /\ size \in 1..Len(u.rows[n])
  BY <1>3
<1>5. Marks(last, u)
  BY <1>2, <1>4 DEF Marks
<1> DEFINE X == [r \in 1..n |-> IF r = n THEN SubSeq(t.rows[r], 1, size) ELSE t.rows[r]]
           Y == [r \in 1..n |-> IF r = n THEN SubSeq(u.rows[r], 1, size) ELSE u.rows[r]]
<1>6. Written(t, last) = [t EXCEPT !.rows = X] /\ Written(u, last) = [u EXCEPT !.rows = Y]
  <2>1. last[1] + 1 = n /\ last[2] = size
    BY <1>2
  <2> QED
    BY <2>1 DEF Written
<1>7. SubSeq(t.rows[n], 1, size) = SubSeq(u.rows[n], 1, size)
  <2> DEFINE v == t.rows[n]
             w == u.rows[n]
  <2>1. \A k \in 1..size : v[k] = w[k]
    BY DEF Alike
  <2> HIDE DEF v, w
  <2>2. SubSeq(v, 1, size) = [k \in 1..size |-> v[k]]
    BY <1>3, <1>4 DEF v
  <2>3. SubSeq(w, 1, size) = [k \in 1..size |-> w[k]]
    BY <1>3, <1>4 DEF w
  <2> QED
    BY <2>1, <2>2, <2>3 DEF v, w
<1>8. X = Y
  <2>1. ASSUME NEW r \in 1..n
        PROVE  X[r] = Y[r]
    <3>1. r = n \/ r \in 1..(n - 1)
      BY <1>2
    <3> QED
      BY <1>7, <3>1 DEF Alike
  <2>2. X = [r \in 1..n |-> X[r]] /\ Y = [r \in 1..n |-> Y[r]]
    OBVIOUS
  <2> HIDE DEF X, Y
  <2> QED
    BY <2>1, <2>2
<1> HIDE DEF X, Y
<1>9. [t EXCEPT !.rows = X] = [u EXCEPT !.rows = Y]
  BY <1>1, <1>8
<1> QED
  BY <1>5, <1>6, <1>9 DEF Follows

(* A row added behind the others moves nothing that was written. *)
LEMMA GrownFollows ==
  ASSUME NEW t, TableOK(t), NEW p, TableOK(p), NEW key, GrownFrom(t, p, key),
         p.cols = t.cols, NEW last, Marks(last, t)
  PROVE  Follows(t, p, last)
<1>1. t.rows \in Seq(Seq(Word)) /\ p.rows \in Seq(Seq(Word))
  BY DEF TableOK
<1>2. PICK n \in 1..Len(t.rows) : \E size \in 1..Len(t.rows[n]) : last = <<n - 1, size>>
  BY DEF Marks
<1>3. PICK size \in 1..Len(t.rows[n]) : last = <<n - 1, size>>
  BY <1>2
<1>4. t.rows[n] = p.rows[n] /\ t.rows[n] \in Seq(Word)
  BY <1>1 DEF GrownFrom, Alike
<1>5. n <= Len(p.rows) /\ size <= Len(p.rows[n])
  BY <1>1, <1>4 DEF GrownFrom
<1>6. Alike(t.rows, p.rows, n - 1) /\ Alike(t.rows[n], p.rows[n], size)
  <2>1. \A r \in 1..(n - 1) : r \in 1..Len(t.rows)
    BY <1>1
  <2> QED
    BY <1>4, <2>1 DEF GrownFrom, Alike
<1> QED
  BY <1>3, <1>5, <1>6, SameWritten

(* Nor does a value stored in a cell that is not before the last one. *)
LEMMA StoredFollows ==
  ASSUME NEW p, TableOK(p), NEW s, TableOK(s), NEW r \in 1..Len(p.rows), NEW c \in Nat,
         StoredAt(p, s, r, c + 1), NEW last, Marks(last, p), ~Before(<<r - 1, c>>, last)
  PROVE  Follows(p, s, last)
<1>1. p.rows \in Seq(Seq(Word)) /\ s.rows \in Seq(Seq(Word))
  BY DEF TableOK
<1>2. PICK n \in 1..Len(p.rows) : \E size \in 1..Len(p.rows[n]) : last = <<n - 1, size>>
  BY DEF Marks
<1>3. PICK size \in 1..Len(p.rows[n]) : last = <<n - 1, size>>
  BY <1>2
<1>a. Len(s.rows) = Len(p.rows) /\ Len(p.rows) \in Nat
  BY <1>1 DEF StoredAt
<1>b. n \in Nat /\ r \in Nat /\ n \in DOMAIN s.rows
  <2>1. DOMAIN s.rows = 1..Len(s.rows)
    BY <1>1
  <2>2. n \in DOMAIN s.rows
    BY <1>a, <2>1
  <2>3. n \in Nat /\ r \in Nat
    BY <1>a
  <2> QED
    BY <2>2, <2>3
<1>c. p.rows[n] \in Seq(Word) /\ s.rows[n] \in Seq(Word)
  <2>1. \A rows \in Seq(Seq(Word)) : \A q \in DOMAIN rows : rows[q] \in Seq(Word)
    <3> DEFINE T == Seq(Word)
    <3>1. \A rows \in Seq(T) : \A q \in DOMAIN rows : rows[q] \in T
      OBVIOUS
    <3> QED
      BY <3>1
  <2>2. n \in DOMAIN p.rows
    BY <1>1
  <2> QED
    BY Zenon, <1>1, <1>b, <2>1, <2>2
<1>d. size \in Nat
  BY <1>c
<1>4. /\ Len(p.rows) \in Nat /\ n \in Nat /\ r \in Nat /\ size \in Nat
      /\ n \in DOMAIN s.rows /\ p.rows[n] \in Seq(Word) /\ s.rows[n] \in Seq(Word)
  BY <1>a, <1>b, <1>c, <1>d
<1>5. ~(r - 1 < n - 1) /\ ~(r - 1 = n - 1 /\ c < size)
  BY <1>3 DEF Before
<1>6. Alike(p.rows, s.rows, n - 1)
  <2>1. \A q \in 1..(n - 1) : q \in 1..Len(p.rows) /\ q # r
    BY <1>4, <1>5
  <2> QED
    BY <2>1 DEF StoredAt, Alike
<1>7. size <= Len(s.rows[n]) /\ Alike(p.rows[n], s.rows[n], size)
  <2>1. CASE n # r
    <3>1. s.rows[n] = p.rows[n]
      BY <2>1 DEF StoredAt
    <3>2. size <= Len(p.rows[n])
      BY <1>4
    <3> QED
      BY <3>1, <3>2 DEF Alike
  <2>2. CASE n = r
    <3>1. /\ Len(p.rows[n]) <= Len(s.rows[n])
          /\ \A k \in 1..Len(p.rows[n]) : k # c + 1 => s.rows[n][k] = p.rows[n][k]
      BY <2>2 DEF StoredAt
    <3>a. c >= size
      BY <1>5, <1>b, <1>d, <2>2
    <3>b. Len(p.rows[n]) \in Nat /\ Len(s.rows[n]) \in Nat
      <4>1. \A row \in Seq(Word) : Len(row) \in Nat
        BY LenProperties
      <4> QED
        BY Zenon, <1>c, <4>1
    <3>2. c >= size /\ Len(p.rows[n]) \in Nat /\ Len(s.rows[n]) \in Nat
      BY <3>a, <3>b
    <3>3. \A k \in 1..size : k \in 1..Len(p.rows[n]) /\ k # c + 1
      BY <1>d, <3>2
    <3>4. size <= Len(s.rows[n])
      BY <1>d, <3>1, <3>2
    <3> QED
      BY <3>1, <3>3, <3>4 DEF Alike
  <2> QED
    BY <2>1, <2>2
<1>8. n <= Len(s.rows) /\ s.cols = p.cols
  BY <1>4 DEF StoredAt
<1> QED
  BY <1>3, <1>6, <1>7, <1>8, SameWritten

------------------------------------------------------------------------------
(* What is so when a writer has been told of a change. *)
KeptFor(d, name, t, wrote) ==
  /\ wrote[1] \in [Files -> Text]
  /\ \A f \in Files : f # name => wrote[1][f] = d[f]
  /\ wrote[2].name = name
  /\ Kept(wrote[1][name], wrote[2], t)

(* A table that becomes larger keeps what was written, if the writer notes
   that it has to write everything or what was written has not moved. *)
LEMMA KeptLarger ==
  ASSUME NEW c, NEW w, NEW t, NEW u, TableOK(t), TableOK(u), Kept(c, w, t), Larger(t, u),
         NEW v \in Writers, v.put = w.put, v.last = w.last,
         ~v.full => ~w.full /\ Follows(t, u, w.last)
  PROVE  Kept(c, v, u)
<1>1. Len(TableText(t)) <= Len(TableText(u))
  BY TableLonger
<1>2. Len(TableText(t)) \in Nat /\ Len(TableText(u)) \in Nat
  BY TableIsText
<1>3. c \in Text /\ w.put = Len(c) /\ Len(c) <= Len(TableText(t)) /\ Len(c) \in Nat
  BY DEF Kept, Text
<1>4. Len(c) <= Len(TableText(u))
  BY <1>1, <1>2, <1>3
<1>5. ~v.full => Marks(v.last, u) /\ c = TableText(Written(u, v.last))
  <2>1. SUFFICES ASSUME ~v.full
                 PROVE  Marks(v.last, u) /\ c = TableText(Written(u, v.last))
    OBVIOUS
  <2>2. Marks(w.last, u) /\ Written(u, w.last) = Written(t, w.last)
    BY <2>1 DEF Follows
  <2>3. c = TableText(Written(t, w.last))
    BY <2>1 DEF Kept
  <2>4. TableText(Written(t, w.last)) = TableText(Written(u, w.last))
    BY <2>2
  <2> QED
    BY <2>2, <2>3, <2>4
<1> QED
  BY <1>3, <1>4, <1>5 DEF Kept

(* A write that waits until it is due. *)
LEMMA DueKeeps ==
  ASSUME NEW d \in [Files -> Text], NEW w, NEW t, TableOK(t), t.rows # <<>>,
         Kept(d[w.name], w, t)
  PROVE  KeptFor(d, w.name, t, WriteIfDue(d, w, t))
<1>1. w.name \in Files
  BY DEF Kept, Writers
<1>2. CASE w.since > WriteDelay
  <2> DEFINE wrote == Write(d, w, t)
  <2>1. WriteIfDue(d, w, t) = wrote
    BY <1>2 DEF WriteIfDue
  <2>2. WroteOut(d, w, t, wrote)
    BY WriteKeeps
  <2> HIDE DEF wrote
  <2>3. wrote[1] = [d EXCEPT ![w.name] = TableText(t)] /\ wrote[2].name = w.name
        /\ Kept(TableText(t), wrote[2], t)
    BY <2>2 DEF WroteOut
  <2>4. TableText(t) \in Text
    BY TableIsText
  <2>5. wrote[1] \in [Files -> Text] /\ wrote[1][w.name] = TableText(t)
        /\ \A f \in Files : f # w.name => wrote[1][f] = d[f]
    BY <1>1, <2>3, <2>4
  <2>6. KeptFor(d, w.name, t, wrote)
    BY <2>3, <2>5 DEF KeptFor
  <2> QED
    BY <2>1, <2>6
<1>3. CASE ~(w.since > WriteDelay)
  <2> DEFINE wrote == <<d, w>>
  <2>1. WriteIfDue(d, w, t) = wrote
    BY <1>3 DEF WriteIfDue
  <2>2. wrote[1] = d /\ wrote[2] = w
    OBVIOUS
  <2> HIDE DEF wrote
  <2>3. KeptFor(d, w.name, t, wrote)
    BY <2>2 DEF KeptFor
  <2> QED
    BY <2>1, <2>3
<1> QED
  BY <1>2, <1>3

(* A new column: everything has to be written. *)
LEMMA ColumnKeeps ==
  ASSUME NEW d \in [Files -> Text], NEW w, NEW t, NEW u, TableOK(t), TableOK(u),
         u.rows # <<>>, Larger(t, u), Kept(d[w.name], w, t), NEW name \in Cols
  PROVE  KeptFor(d, w.name, u, ColumnChanged(d, w, u, name))
<1> DEFINE v == [w EXCEPT !.since = w.since + Width[name], !.full = TRUE]
<1>1. w \in Writers /\ Width[name] \in Nat
  <2>1. name \in Word
    BY DEF Word
  <2> QED
    BY <2>1, WordIsText DEF Kept
<1>2. v \in Writers /\ v.name = w.name /\ v.put = w.put /\ v.last = w.last /\ v.full = TRUE
  <2>1. w.since \in Nat
    BY <1>1 DEF Writers
  <2> DEFINE since == w.since + Width[name]
  <2>2. since \in Nat
    BY <1>1, <2>1
  <2> HIDE DEF since
  <2>3. LET x == [w EXCEPT !.since = since, !.full = TRUE]
        IN x \in Writers /\ x.name = w.name /\ x.put = w.put /\ x.last = w.last /\ x.full = TRUE
    BY <1>1, <2>2 DEF Writers
  <2> QED
    BY <2>3 DEF since
<1>3. ColumnChanged(d, w, u, name) = WriteIfDue(d, v, u)
  BY Zenon DEF ColumnChanged
<1> HIDE DEF v
<1>4. Kept(d[v.name], v, u)
  BY <1>2, KeptLarger
<1>5. KeptFor(d, v.name, u, WriteIfDue(d, v, u))
  BY <1>4, DueKeeps
<1> QED
  BY <1>2, <1>3, <1>5

(* A value in a cell: everything has to be written when it is one before the
   last that was. *)
LEMMA ValueKeeps ==
  ASSUME NEW d \in [Files -> Text], NEW w, NEW p, NEW s, TableOK(p), TableOK(s),
         NEW r \in 1..Len(p.rows), NEW c \in Nat, StoredAt(p, s, r, c + 1), Larger(p, s),
         Kept(d[w.name], w, p), NEW old \in Word, NEW new \in Word
  PROVE  KeptFor(d, w.name, s, ValueChanged(d, w, s, <<r - 1, c>>, old, new))
<1> DEFINE coords == <<r - 1, c>>
           late == Before(coords, w.last)
           v == [w EXCEPT !.since = w.since + Diff(old, new), !.full = w.full \/ late]
<1>1. w \in Writers /\ Diff(old, new) \in Nat
  <2>1. Width[old] \in Nat /\ Width[new] \in Nat
    BY WordIsText
  <2> QED
    BY <2>1 DEF Kept, Diff
<1>2. ValueChanged(d, w, s, coords, old, new) = WriteIfDue(d, v, s)
  BY Zenon DEF ValueChanged
<1>3. late \in BOOLEAN
  BY DEF Before
<1>4. ~late => ~Before(coords, w.last)
  OBVIOUS
<1> HIDE DEF late, coords
<1>5. /\ v \in Writers /\ v.name = w.name /\ v.put = w.put /\ v.last = w.last
      /\ v.full = (w.full \/ late)
  <2>1. w.full \in BOOLEAN /\ w.since \in Nat
    BY <1>1 DEF Writers
  <2>2. (w.full \/ late) \in BOOLEAN /\ w.since + Diff(old, new) \in Nat
    BY <1>1, <1>3, <2>1
  <2> QED
    BY <1>1, <2>2 DEF Writers
<1> HIDE DEF v
<1>6. ~v.full => ~w.full /\ Follows(p, s, w.last)
  <2>1. SUFFICES ASSUME ~v.full
                 PROVE  ~w.full /\ Follows(p, s, w.last)
    OBVIOUS
  <2>2. ~w.full /\ ~late
    BY <1>5, <2>1
  <2>3. Marks(w.last, p) /\ ~Before(<<r - 1, c>>, w.last)
    BY <1>4, <2>2 DEF Kept, coords
  <2> QED
    BY <2>2, <2>3, StoredFollows
<1>7. Kept(d[v.name], v, s)
  BY <1>5, <1>6, KeptLarger
<1>8. s.rows # <<>>
  <2>1. s.rows \in Seq(Seq(Word)) /\ Len(s.rows) = Len(p.rows) /\ Len(p.rows) \in Nat
    BY DEF TableOK, StoredAt
  <2> QED
    BY <2>1
<1>9. KeptFor(d, v.name, s, WriteIfDue(d, v, s))
  BY <1>7, <1>8, DueKeeps
<1> QED
  BY <1>2, <1>5, <1>9 DEF coords

(* Whether the row or the column is found first, the same table comes of it. *)
LEMMA PlacesCommute ==
  ASSUME NEW t, TableOK(t), NEW key \in Keys, NEW name \in Cols
  PROVE  WithCol(WithRow(WithCol(t, name), key), name) = WithCol(WithRow(t, key), name)
<1> DEFINE seen == WithCol(t, name)
           u == WithRow(t, key)
           v == WithRow(seen, key)
<1>1. TableOK(seen) /\ seen.rows = t.rows /\ HasCol(seen, name) /\ (HasCol(t, name) => seen = t)
  BY ColPlaced
<1>2. CASE HasCol(t, name)
  BY <1>1, <1>2
<1>3. CASE ~HasCol(t, name)
  <2> DEFINE cols == Append(t.cols, name)
             rows == IF HasRow(t, key) THEN t.rows ELSE Append(t.rows, <<key>>)
  <2>1. t = [cols |-> t.cols, rows |-> t.rows]
    BY DEF TableOK
  <2>2. seen = [cols |-> cols, rows |-> t.rows]
    BY <1>3, <2>1 DEF WithCol
  <2>3. u = [cols |-> t.cols, rows |-> rows]
    BY <2>1 DEF WithRow
  <2> HIDE DEF seen
  <2>4. HasRow(seen, key) <=> HasRow(t, key)
    BY <1>1 DEF HasRow
  <2>5. v = [cols |-> cols, rows |-> rows]
    BY <2>2, <2>4 DEF WithRow
  <2> HIDE DEF u, v, cols, rows
  <2>6. HasCol(v, name)
    BY <1>1, <2>2, <2>5 DEF HasCol
  <2>7. ~HasCol(u, name)
    BY <1>3, <2>3 DEF HasCol
  <2>8. WithCol(v, name) = v
    BY <2>6 DEF WithCol
  <2>9. WithCol(u, name) = [cols |-> cols, rows |-> rows]
    BY <2>3, <2>7 DEF WithCol, cols
  <2> QED
    BY <2>5, <2>8, <2>9 DEF u, v, seen
<1> QED
  BY <1>2, <1>3

(* A table is larger for the column. *)
LEMMA ColLarger ==
  ASSUME NEW t, TableOK(t), NEW name \in Cols
  PROVE  Larger(t, WithCol(t, name))
<1> DEFINE p == WithCol(t, name)
<1>1. p.rows = t.rows /\ NotNarrower(t.cols, p.cols)
  BY ColPlaced
<1> HIDE DEF p
<1>2. t.rows \in Seq(Seq(Word)) /\ Len(t.rows) \in Nat
  BY DEF TableOK
<1>3. ASSUME NEW r \in 1..Len(t.rows)
      PROVE  NotNarrower(t.rows[r], p.rows[r])
  <2> DEFINE row == t.rows[r]
  <2>1. row \in Seq(Word) /\ p.rows[r] = row
    BY <1>1, <1>2
  <2> HIDE DEF row
  <2>2. \A k \in 1..Len(row) : Width[row[k]] \in Nat
    <3>1. \A k \in 1..Len(row) : row[k] \in Word
      BY <2>1
    <3> QED
      BY <3>1, WordIsText
  <2>3. Len(row) <= Len(row) /\ \A k \in 1..Len(row) : Width[row[k]] <= Width[row[k]]
    BY <2>1, <2>2
  <2> QED
    BY <2>1, <2>3 DEF NotNarrower, row
<1>4. Len(t.rows) <= Len(p.rows)
  BY <1>1, <1>2
<1> QED
  BY <1>1, <1>3, <1>4 DEF Larger, p

(* The row an insert finds in a table that had none is the first. *)
LEMMA FirstRow ==
  ASSUME NEW t, TableOK(t), t.rows = <<>>, NEW key \in Keys, NEW p, TableOK(p),
         GrownFrom(t, p, key), NEW r \in 1..Len(p.rows)
  PROVE  r = 1
<1>1. p.rows \in Seq(Seq(Word)) /\ Len(p.rows) \in Nat /\ DOMAIN p.rows = 1..Len(p.rows)
  BY DEF TableOK
<1>2. Len(t.rows) = 0
  OBVIOUS
<1>3. r \in 1..Len(p.rows) /\ 1 \in 1..Len(p.rows)
  BY <1>1
<1>4. \A q \in 1..Len(p.rows) : p.rows[q] = <<key>>
  BY <1>2 DEF GrownFrom
<1>5. p.rows[r][1] = p.rows[1][1]
  BY <1>3, <1>4
<1> QED
  BY <1>1, <1>3, <1>5 DEF TableOK

(* A writer told of a new column in a table without rows: it writes everything
   next, or it has written the header and counts its last row below zero. *)
LEMMA EmptyTold ==
  ASSUME NEW d, NEW w \in Writers, NEW u, TableOK(u), u.rows = <<>>, NEW name \in Cols
  PROVE  LET v == ColumnChanged(d, w, u, name)[2]
         IN /\ v \in Writers /\ v.name = w.name
            /\ v.full \/ v.last[1] = SizeRange - 1
<1> DEFINE since == w.since + Width[name]
           v == [w EXCEPT !.since = since, !.full = TRUE]
<1>1. ColumnChanged(d, w, u, name) = WriteIfDue(d, v, u)
  BY Zenon DEF ColumnChanged
<1>2. since \in Nat
  <2>1. name \in Word
    BY DEF Word
  <2>2. Width[name] \in Nat
    BY <2>1, WordIsText
  <2> QED
    BY <2>2 DEF Writers
<1> HIDE DEF since
<1>3. v \in Writers /\ v.name = w.name /\ v.full = TRUE
  BY <1>2 DEF Writers
<1> HIDE DEF v
<1>4. CASE ~(v.since > WriteDelay)
  BY <1>1, <1>3, <1>4 DEF WriteIfDue
<1>5. CASE v.since > WriteDelay
  <2> DEFINE text == TableText(u)
             last == <<LastRow(u), LastSize(u, v.last[2])>>
             x == [v EXCEPT !.put = Len(text), !.last = last, !.full = FALSE, !.since = 0]
  <2>1. WriteIfDue(d, v, u) = WriteFull(d, v, u)
    BY <1>3, <1>5 DEF WriteIfDue, Write
  <2>2. WriteFull(d, v, u) = <<[d EXCEPT ![v.name] = PutAt(d[v.name], 0, text)], x>>
    BY Zenon DEF WriteFull
  <2>3. Len(text) \in Nat
    BY TableIsText
  <2>4. v.last[2] \in Nat
    BY <1>3 DEF Writers
  <2>5. last \in Nat \X Nat /\ last[1] = LastRow(u)
    BY <2>4, LastPlace
  <2>6. LastRow(u) = SizeRange - 1
    <3>1. SizeRange \in Nat /\ SizeRange > 0
      BY SizeAssumption, FS_CardinalityType
    <3>2. LastRow(u) = (0 - 1) % SizeRange
      BY DEF LastRow
    <3>3. (0 - 1) % SizeRange = SizeRange - 1
      BY <3>1
    <3> QED
      BY <3>2, <3>3
  <2> HIDE DEF text, last
  <2>7. x \in Writers /\ x.name = v.name /\ x.last = last
    BY <1>3, <2>3, <2>5 DEF Writers
  <2> HIDE DEF x
  <2> QED
    BY <1>1, <1>3, <2>1, <2>2, <2>5, <2>6, <2>7
<1> QED
  BY <1>4, <1>5

(* In either case what it has written is the table without rows. *)
LEMMA EmptyColumnKeeps ==
  ASSUME NEW d \in [Files -> Text], NEW w, NEW t, NEW u, TableOK(t), TableOK(u),
         u.rows = <<>>, Larger(t, u), Kept(d[w.name], w, t), NEW name \in Cols
  PROVE  LET told == ColumnChanged(d, w, u, name)
         IN KeptFor(d, w.name, u, <<told[1], [told[2] EXCEPT !.full = TRUE]>>)
<1> DEFINE since == w.since + Width[name]
           v == [w EXCEPT !.since = since, !.full = TRUE]
           told == ColumnChanged(d, w, u, name)
           all == [told[2] EXCEPT !.full = TRUE]
<1>1. told = WriteIfDue(d, v, u)
  BY Zenon DEF ColumnChanged
<1>2. w \in Writers
  BY DEF Kept
<1>3. told[2] \in Writers /\ told[2].name = w.name
  BY <1>2, EmptyTold
<1>4. since \in Nat
  <2>1. name \in Word
    BY DEF Word
  <2>2. Width[name] \in Nat
    BY <2>1, WordIsText
  <2> QED
    BY <1>2, <2>2 DEF Writers
<1> HIDE DEF since, told
<1>5. v \in Writers /\ v.name = w.name /\ v.put = w.put /\ v.last = w.last /\ v.full = TRUE
  BY <1>2, <1>4 DEF Writers
<1>6. /\ all \in Writers /\ all.name = w.name /\ all.put = told[2].put /\ all.full = TRUE
  BY <1>3 DEF Writers
<1> HIDE DEF v, all
<1>7. Kept(d[v.name], v, u)
  BY <1>5, KeptLarger
<1>8. w.name \in Files /\ TableText(u) \in Text
  BY <1>2, TableIsText DEF Writers
<1>9. CASE ~(v.since > WriteDelay)
  <2>1. told[1] = d /\ told[2] = v
    BY <1>1, <1>9 DEF WriteIfDue
  <2>2. Kept(d[w.name], all, u)
    BY <1>5, <1>6, <1>7, <2>1 DEF Kept
  <2> QED
    BY <1>6, <2>1, <2>2 DEF KeptFor, all, told
<1>10. CASE v.since > WriteDelay
  <2>1. told = Write(d, v, u)
    BY <1>1, <1>10 DEF WriteIfDue
  <2>2. WroteOut(d, v, u, told)
    BY <1>7, <2>1, WriteKeeps
  <2>3. told[1] = [d EXCEPT ![w.name] = TableText(u)] /\ told[2].put = Len(TableText(u))
    BY <1>5, <2>2 DEF WroteOut
  <2>4. /\ told[1] \in [Files -> Text] /\ told[1][w.name] = TableText(u)
        /\ \A f \in Files : f # w.name => told[1][f] = d[f]
    BY <1>8, <2>3
  <2>5. Len(TableText(u)) \in Nat
    BY TableIsText
  <2>6. Kept(told[1][w.name], all, u)
    BY <1>6, <1>8, <2>3, <2>4, <2>5 DEF Kept
  <2> QED
    BY <1>6, <2>4, <2>6 DEF KeptFor, all, told
<1> QED
  BY <1>9, <1>10

(* Told of a value before the last cell it wrote, or before it wrote any, a
   writer writes everything next, as it does when it meant to. *)
LEMMA ToldAll ==
  ASSUME NEW d, NEW v \in Writers, NEW s, NEW coords, NEW old, NEW new,
         v.full \/ Before(coords, v.last)
  PROVE  ValueChanged(d, v, s, coords, old, new)
           = ValueChanged(d, [v EXCEPT !.full = TRUE], s, coords, old, new)
<1> DEFINE all == [v EXCEPT !.full = TRUE]
           late == Before(coords, v.last)
           since == v.since + Diff(old, new)
<1>1. ValueChanged(d, v, s, coords, old, new)
        = WriteIfDue(d, [v EXCEPT !.since = since, !.full = v.full \/ late], s)
  BY Zenon DEF ValueChanged
<1>2. ValueChanged(d, all, s, coords, old, new)
        = WriteIfDue(d, [all EXCEPT !.since = all.since + Diff(old, new),
                                    !.full = all.full \/ Before(coords, all.last)], s)
  BY Zenon DEF ValueChanged
<1>3. (v.full \/ late) = TRUE
  <2>1. v.full \in BOOLEAN /\ late \in BOOLEAN
    BY DEF Writers, Before
  <2> QED
    BY <2>1
<1>4. all.full = TRUE /\ all.since = v.since /\ all.last = v.last
  BY DEF Writers
<1>5. (all.full \/ Before(coords, all.last)) = TRUE
  BY <1>4
<1> HIDE DEF since, late
<1>6. [all EXCEPT !.since = since, !.full = TRUE] = [v EXCEPT !.since = since, !.full = TRUE]
  BY DEF Writers
<1> HIDE DEF all
<1> QED
  BY <1>1, <1>2, <1>3, <1>4, <1>5, <1>6 DEF all, since

(* An insert that finds the row first, and what the writer makes of it. *)
LEMMA RowFirstKeeps ==
  ASSUME NEW d \in [Files -> Text], NEW w, NEW t, TableOK(t),
         NEW key \in Keys, NEW name \in Cols, NEW value \in Values
  PROVE  LET placed == WithCol(WithRow(t, key), name)
             coords == CoordsOf(placed, key, name)
             stored == WithValue(placed, coords, value)
             told == IF HasCol(t, name) THEN <<d, w>>
                     ELSE ColumnChanged(d, w, placed, name)
             wrote == ValueChanged(told[1], told[2], stored, coords,
                                   OldValue(placed, coords), value)
         IN /\ TableOK(stored)
            /\ Kept(d[w.name], w, t) /\ Widened(t, stored) =>
                 KeptFor(d, w.name, stored, wrote)
<1> DEFINE placed == WithCol(WithRow(t, key), name)
           coords == CoordsOf(placed, key, name)
           stored == WithValue(placed, coords, value)
           told == IF HasCol(t, name) THEN <<d, w>>
                   ELSE ColumnChanged(d, w, placed, name)
           old == OldValue(placed, coords)
           wrote == ValueChanged(told[1], told[2], stored, coords, old, value)
<1>1. PlacedFrom(t, placed, key, name)
  BY Placed
<1> HIDE DEF placed
<1>2. /\ TableOK(placed) /\ HasRow(placed, key) /\ HasCol(placed, name)
      /\ Larger(t, placed) /\ GrownFrom(t, placed, key)
      /\ HasCol(t, name) => placed.cols = t.cols
  BY <1>1 DEF PlacedFrom
<1>3. PICK r \in 1..Len(placed.rows), c \in Nat \ {0} :
        coords = <<r - 1, c>> /\ c + 1 <= Len(placed.cols)
  BY <1>2, CellPlaced
<1> HIDE DEF coords
<1>4. TableOK(stored) /\ StoredAt(placed, stored, r, c + 1)
  BY <1>2, <1>3, ValueStored
<1> HIDE DEF stored
<1>5. old \in Word
  <2>1. placed.rows \in Seq(Seq(Word))
    BY <1>2 DEF TableOK
  <2>2. coords[1] + 1 = r /\ coords[2] = c
    BY <1>3, <2>1
  <2> DEFINE row == placed.rows[r]
  <2>3. row \in Seq(Word)
    BY <2>1
  <2>4. old = IF c < Len(row) THEN row[c + 1] ELSE NoValue
    BY <2>2 DEF OldValue
  <2> HIDE DEF row, old
  <2>5. NoValue \in Word
    BY DEF Word
  <2>6. c < Len(row) => row[c + 1] \in Word
    <3>1. c < Len(row) => c + 1 \in 1..Len(row)
      BY <2>3
    <3> QED
      BY <2>3, <3>1
  <2> QED
    BY <2>4, <2>5, <2>6
<1>6. value \in Word
  BY DEF Word
<1>7. placed.rows # <<>>
  BY <1>2 DEF TableOK
<1> HIDE DEF old
<1>8. ASSUME Kept(d[w.name], w, t), Widened(t, stored)
      PROVE  KeptFor(d, w.name, stored, wrote)
  <2>1. Larger(placed, stored)
    <3>1. c + 1 \in Nat /\ c + 1 > 1
      OBVIOUS
    <3> QED
      BY <1>2, <1>4, <1>8, <3>1, StoredLarger
  <2>2. KeptFor(d, w.name, placed, told)
    <3>1. CASE HasCol(t, name)
      <4>1. told[1] = d /\ told[2] = w
        BY <3>1
      <4>2. ~w.full => ~w.full /\ Follows(t, placed, w.last)
        <5>1. SUFFICES ASSUME ~w.full
                       PROVE  Follows(t, placed, w.last)
          OBVIOUS
        <5>2. Marks(w.last, t)
          BY <1>8, <5>1 DEF Kept
        <5> QED
          BY <1>2, <3>1, <5>2, GrownFollows
      <4>3. w \in Writers
        BY <1>8 DEF Kept
      <4>4. Kept(d[w.name], w, placed)
        BY <1>2, <1>8, <4>2, <4>3, KeptLarger
      <4> HIDE DEF told
      <4> QED
        BY <4>1, <4>4 DEF KeptFor
    <3>2. CASE ~HasCol(t, name)
      <4>1. told = ColumnChanged(d, w, placed, name)
        BY <3>2
      <4>2. KeptFor(d, w.name, placed, ColumnChanged(d, w, placed, name))
        BY <1>2, <1>7, <1>8, ColumnKeeps
      <4> QED
        BY <4>1, <4>2
    <3> QED
      BY <3>1, <3>2
  <2> DEFINE e == told[1]
             v == told[2]
  <2>3. /\ e \in [Files -> Text] /\ v.name = w.name /\ Kept(e[v.name], v, placed)
        /\ \A f \in Files : f # w.name => e[f] = d[f]
    BY <2>2 DEF KeptFor
  <2> HIDE DEF e, v, told
  <2>4. KeptFor(e, v.name, stored, ValueChanged(e, v, stored, <<r - 1, c>>, old, value))
    BY <1>2, <1>4, <1>5, <1>6, <2>1, <2>3, ValueKeeps
  <2>5. KeptFor(e, w.name, stored, wrote)
    BY <1>3, <2>3, <2>4 DEF e, v
  <2> HIDE DEF wrote
  <2> QED
    BY <2>3, <2>5 DEF KeptFor
<1> QED
  BY <1>4, <1>8 DEF wrote, told, old, stored, coords, placed

(* A size_t counts past the rows of a table that has none. *)
LEMMA ManySizes ==
  ASSUME NEW key \in Keys
  PROVE  SizeRange \in Nat /\ 0 < SizeRange - 1
<1>1. Cardinality(Keys) \in Nat /\ Cardinality(Keys) # 0
  BY SizeAssumption, FS_EmptySet, FS_CardinalityType
<1> QED
  BY <1>1, SizeAssumption

(* An insert that finds the column first: the writer is told of it in a table
   that may not have the row yet, and perhaps none. *)
LEMMA ColFirstKeeps ==
  ASSUME NEW d \in [Files -> Text], NEW w, NEW t, TableOK(t),
         NEW key \in Keys, NEW name \in Cols, NEW value \in Values, ~HasCol(t, name),
         Kept(d[w.name], w, t)
  PROVE  LET placed == WithCol(WithRow(t, key), name)
             coords == CoordsOf(placed, key, name)
             stored == WithValue(placed, coords, value)
             told == ColumnChanged(d, w, WithCol(t, name), name)
             wrote == ValueChanged(told[1], told[2], stored, coords,
                                   OldValue(placed, coords), value)
         IN Widened(t, stored) => KeptFor(d, w.name, stored, wrote)
<1> DEFINE seen == WithCol(t, name)
           placed == WithCol(WithRow(t, key), name)
           coords == CoordsOf(placed, key, name)
           stored == WithValue(placed, coords, value)
           old == OldValue(placed, coords)
           told == ColumnChanged(d, w, seen, name)
           e == told[1]
           v == told[2]
           wrote == ValueChanged(e, v, stored, coords, old, value)
<1>1. /\ TableOK(seen) /\ seen.rows = t.rows /\ HasCol(seen, name) /\ Larger(t, seen)
  BY ColPlaced, ColLarger
<1>2. WithCol(WithRow(seen, key), name) = placed
  BY PlacesCommute
<1>3. PlacedFrom(t, placed, key, name)
  BY Placed
<1> HIDE DEF seen, placed
<1>4. ASSUME NEW f \in [Files -> Text], NEW x, Kept(f[x.name], x, seen), Widened(t, stored)
      PROVE  KeptFor(f, x.name, stored, ValueChanged(f, x, stored, coords, old, value))
  <2>1. Widened(seen, stored)
    BY <1>1, <1>4 DEF Widened
  <2> DEFINE none == <<f, x>>
  <2>2. KeptFor(f, x.name, stored, ValueChanged(none[1], none[2], stored, coords, old, value))
    BY <1>1, <1>2, <1>4, <2>1, RowFirstKeeps
  <2> QED
    BY <2>2
<1>5. PICK r \in 1..Len(placed.rows), c \in Nat \ {0} :
        coords = <<r - 1, c>> /\ c + 1 <= Len(placed.cols)
  BY <1>3, CellPlaced DEF PlacedFrom
<1> HIDE DEF coords, stored, old
<1>6. ASSUME t.rows # <<>>, Widened(t, stored)
      PROVE  KeptFor(d, w.name, stored, wrote)
  <2>1. KeptFor(d, w.name, seen, told)
    BY <1>1, <1>6, ColumnKeeps
  <2> HIDE DEF told
  <2>2. /\ e \in [Files -> Text] /\ v.name = w.name /\ Kept(e[v.name], v, seen)
        /\ \A f \in Files : f # w.name => e[f] = d[f]
    BY <2>1 DEF KeptFor
  <2> HIDE DEF e, v
  <2>3. KeptFor(e, w.name, stored, wrote)
    BY <1>4, <1>6, <2>2
  <2> HIDE DEF wrote
  <2> QED
    BY <2>2, <2>3 DEF KeptFor
<1>7. ASSUME t.rows = <<>>, Widened(t, stored)
      PROVE  KeptFor(d, w.name, stored, wrote)
  <2> DEFINE all == [v EXCEPT !.full = TRUE]
  <2>1. KeptFor(d, w.name, seen, <<e, all>>)
    BY <1>1, <1>7, EmptyColumnKeeps
  <2>2. v \in Writers /\ (v.full \/ v.last[1] = SizeRange - 1)
    <3>1. w \in Writers
      BY DEF Kept
    <3> QED
      BY <1>1, <1>7, <3>1, EmptyTold
  <2> HIDE DEF e, v
  <2>3. v.full \/ Before(coords, v.last)
    <3>1. r = 1
      BY <1>3, <1>7, FirstRow DEF PlacedFrom
    <3>2. 0 < SizeRange - 1
      BY ManySizes
    <3> QED
      BY <1>5, <2>2, <3>1, <3>2 DEF Before
  <2>4. wrote = ValueChanged(e, all, stored, coords, old, value)
    BY <2>2, <2>3, ToldAll
  <2> HIDE DEF all, wrote
  <2>5. /\ e \in [Files -> Text] /\ all.name = w.name /\ Kept(e[all.name], all, seen)
        /\ \A f \in Files : f # w.name => e[f] = d[f]
    BY <2>1 DEF KeptFor
  <2>6. KeptFor(e, w.name, stored, wrote)
    BY <1>4, <1>7, <2>4, <2>5
  <2> QED
    BY <2>5, <2>6 DEF KeptFor
<1> QED
  BY <1>6, <1>7 DEF wrote, e, v, told, seen, placed, coords, stored, old

(* An insert as a whole, and what the writer makes of it. *)
LEMMA InsertKeeps ==
  ASSUME NEW d \in [Files -> Text], NEW w, NEW t, TableOK(t), NEW rowFirst \in BOOLEAN,
         NEW key \in Keys, NEW name \in Cols, NEW value \in Values
  PROVE  LET placed == WithCol(WithRow(t, key), name)
             coords == CoordsOf(placed, key, name)
             stored == WithValue(placed, coords, value)
             told == IF HasCol(t, name) THEN <<d, w>>
                     ELSE ColumnChanged(d, w, Announced(t, key, name, rowFirst), name)
             wrote == ValueChanged(told[1], told[2], stored, coords,
                                   OldValue(placed, coords), value)
         IN /\ TableOK(stored)
            /\ Kept(d[w.name], w, t) /\ Widened(t, stored) =>
                 KeptFor(d, w.name, stored, wrote)
<1>1. CASE rowFirst
  <2>1. Announced(t, key, name, rowFirst) = WithCol(WithRow(t, key), name)
    BY <1>1 DEF Announced
  <2> QED
    BY <2>1, RowFirstKeeps
<1>2. CASE ~rowFirst /\ HasCol(t, name)
  BY <1>2, RowFirstKeeps
<1>3. CASE ~rowFirst /\ ~HasCol(t, name)
  <2>1. Announced(t, key, name, rowFirst) = WithCol(t, name)
    BY <1>3 DEF Announced
  <2> DEFINE placed == WithCol(WithRow(t, key), name)
             coords == CoordsOf(placed, key, name)
             stored == WithValue(placed, coords, value)
  <2>2. TableOK(stored)
    BY RowFirstKeeps
  <2> QED
    BY <1>3, <2>1, <2>2, ColFirstKeeps
<1> QED
  BY <1>1, <1>2, <1>3

------------------------------------------------------------------------------
(* The variables, as far as the writer's work depends on them. *)
StateOK ==
  /\ filename \in Files \cup {NoFile}
  /\ TableOK(table)
  /\ disk \in [Files -> Text]
  /\ expected \in [Files -> Text \cup {NoText}]

(* A support that has a writer has a file name; the writer's file is kept while
   the pipeline runs, and holds what is promised once it has finished. *)
WriterKeeps ==
  /\ filename = NoFile => writer = NoWriter
  /\ engine = "idle" => writer = NoWriter
  /\ engine = "running" /\ writer # NoWriter =>
       /\ writer.name = filename
       /\ expected[filename] = NoText
       /\ Kept(disk[filename], writer, table)
  /\ engine = "finished" /\ writer # NoWriter =>
       /\ writer.name \in Files
       /\ writer.put = Len(disk[writer.name])
       /\ disk[writer.name] = expected[writer.name]

IInv == StateOK /\ WriterKeeps /\ FinalFileIsTable

(* Initially there is a table without rows, and no writer. *)
LEMMA InitKeeps == Init => IInv
<1> SUFFICES ASSUME Init
             PROVE  IInv
  OBVIOUS
<1>1. TableOK(table)
  <2>1. table = [cols |-> <<KeyColumn>>, rows |-> <<>>]
    BY DEF Init, EmptyTable
  <2>2. KeyColumn \in Word
    BY DEF Word
  <2>3. <<KeyColumn>> \in Seq(Word) /\ <<>> \in Seq(Seq(Word)) /\ <<KeyColumn>> # <<>>
    BY <2>2
  <2>4. DOMAIN table.rows = {} /\ table.cols # <<>>
    BY <2>1, <2>3
  <2>5. table \in [cols : Seq(Word), rows : Seq(Seq(Word))]
    BY <2>1, <2>3
  <2> QED
    BY <2>4, <2>5 DEF TableOK
<1>2. disk \in [Files -> Text] /\ expected \in [Files -> Text \cup {NoText}]
  <2>1. <<>> \in Text
    BY Delimiters
  <2> QED
    BY <2>1 DEF Init
<1> QED
  BY <1>1, <1>2 DEF Init, IInv, StateOK, WriterKeeps, FinalFileIsTable

------------------------------------------------------------------------------
(* A file name set between two runs. *)
LEMMA SetFilenameKeeps ==
  ASSUME IInv, NEW f \in Files, SetFilename(f)
  PROVE  IInv'
<1>1. filename' = f /\ engine \in {"idle", "finished"}
      /\ UNCHANGED <<engine, table, writer, disk, expected>>
  BY DEF SetFilename
<1>2. StateOK'
  BY <1>1 DEF IInv, StateOK
<1>3. WriterKeeps'
  <2>1. f # NoFile
    BY TableAssumption
  <2> QED
    BY <1>1, <2>1 DEF IInv, WriterKeeps
<1>4. FinalFileIsTable'
  BY <1>1 DEF IInv, FinalFileIsTable
<1> QED
  BY <1>2, <1>3, <1>4 DEF IInv

(* A file that is opened, while the file of the old writer, another one, is
   closed with a newline. *)
LEMMA CreateKeeps ==
  ASSUME NEW d \in [Files -> Text], NEW old, NEW f \in Files, CreateWriter(d, old, f),
         old # NoWriter => old.name \in Files /\ old.name # f /\ old.put = Len(d[old.name])
  PROVE  /\ writer' = NewWriter(f)
         /\ disk' \in [Files -> Text]
         /\ disk'[f] = <<>>
         /\ \A g \in Files : g # f /\ (old # NoWriter => g # old.name) => disk'[g] = d[g]
         /\ old # NoWriter => disk'[old.name] = Append(d[old.name], Newline)
<1> DEFINE o == Opened(d, f)
<1>1. writer' = NewWriter(f) /\ disk' = IF old = NoWriter THEN o ELSE Closed(o, old)
  BY DEF CreateWriter
<1>2. o \in [Files -> Text] /\ o[f] = <<>> /\ \A g \in Files : g # f => o[g] = d[g]
  BY Delimiters DEF Opened
<1> HIDE DEF o
<1>3. CASE old = NoWriter
  BY <1>1, <1>2, <1>3
<1>4. CASE old # NoWriter
  <2> DEFINE c == o[old.name]
  <2>1. disk' = [o EXCEPT ![old.name] = PutAt(c, old.put, <<Newline>>)]
    BY <1>1, <1>4 DEF Closed
  <2>2. c \in Text /\ old.put = Len(c) /\ c = d[old.name] /\ old.name \in Files
    BY <1>2, <1>4
  <2>3. PutAt(c, old.put, <<Newline>>) = Append(c, Newline) /\ Append(c, Newline) \in Text
    BY <2>2, PutNewline
  <2>4. disk' = [o EXCEPT ![old.name] = Append(c, Newline)]
    BY <2>1, <2>3
  <2> DEFINE a == Append(c, Newline)
  <2>5. a = Append(d[old.name], Newline) /\ a \in Text /\ disk' = [o EXCEPT ![old.name] = a]
    BY <2>2, <2>3, <2>4
  <2> HIDE DEF a, c
  <2>6. disk' \in [Files -> Text] /\ disk'[f] = <<>> /\ disk'[old.name] = a
        /\ \A g \in Files : g # f /\ g # old.name => disk'[g] = d[g]
    BY <1>2, <1>4, <2>2, <2>5
  <2> QED
    BY <1>1, <1>4, <2>5, <2>6
<1> QED
  BY <1>3, <1>4

(* What a new writer keeps of its empty file. *)
LEMMA NewKeeps ==
  ASSUME NEW f \in Files, NEW t, TableOK(t)
  PROVE  Kept(<<>>, NewWriter(f), t)
<1> DEFINE w == NewWriter(f)
<1>1. w \in Writers /\ w.put = 0 /\ w.full = TRUE
  BY DEF NewWriter, Writers
<1> HIDE DEF w
<1>2. <<>> \in Text /\ Len(<<>>) = 0
  BY Delimiters
<1>3. Len(<<>>) <= Len(TableText(t))
  BY <1>2, TableIsText
<1>4. Kept(<<>>, w, t)
  BY <1>1, <1>2, <1>3 DEF Kept
<1> QED
  BY <1>4 DEF w

(* A run starts, on another file than the last one. *)
LEMMA StartKeeps ==
  ASSUME IInv, StartRunning, FreshFile
  PROVE  IInv'
<1>1. /\ engine \in {"idle", "finished"} /\ engine' = "running"
      /\ filename' = filename /\ table' = table
  BY DEF StartRunning
<1>2. CASE filename = NoFile
  <2>1. UNCHANGED <<writer, disk, expected>> /\ writer = NoWriter
    BY <1>2 DEF StartRunning, IInv, WriterKeeps
  <2>2. StateOK'
    BY <1>1, <2>1 DEF IInv, StateOK
  <2>3. WriterKeeps'
    BY <1>1, <2>1 DEF WriterKeeps
  <2>4. FinalFileIsTable'
    BY <2>1 DEF IInv, FinalFileIsTable
  <2> QED
    BY <2>2, <2>3, <2>4 DEF IInv
<1>3. CASE filename # NoFile
  <2>1. CreateWriter(disk, writer, filename)
        /\ expected' = [expected EXCEPT ![filename] = NoText]
    BY <1>3 DEF StartRunning
  <2>2. /\ filename \in Files /\ TableOK(table) /\ disk \in [Files -> Text]
        /\ expected \in [Files -> Text \cup {NoText}]
    BY <1>3 DEF IInv, StateOK
  <2>3. writer # NoWriter => /\ writer.name \in Files /\ writer.name # filename
                             /\ writer.put = Len(disk[writer.name])
                             /\ disk[writer.name] = expected[writer.name]
    BY <1>1 DEF IInv, WriterKeeps, FreshFile
  <2>4. /\ writer' = NewWriter(filename)
        /\ disk' \in [Files -> Text]
        /\ disk'[filename] = <<>>
        /\ \A g \in Files : g # filename /\ (writer # NoWriter => g # writer.name) =>
             disk'[g] = disk[g]
        /\ writer # NoWriter => disk'[writer.name] = Append(disk[writer.name], Newline)
    BY <2>1, <2>2, <2>3, CreateKeeps
  <2>5. /\ expected' \in [Files -> Text \cup {NoText}]
        /\ expected'[filename] = NoText
        /\ \A g \in Files : g # filename => expected'[g] = expected[g]
    BY <2>1, <2>2
  <2>6. StateOK'
    BY <1>1, <2>2, <2>4, <2>5 DEF StateOK
  <2>7. WriterKeeps'
    <3>1. NewWriter(filename).name = filename
      BY DEF NewWriter
    <3>2. Kept(<<>>, NewWriter(filename), table)
      BY <2>2, NewKeeps
    <3>3. Kept(disk'[filename'], writer', table')
      BY <1>1, <2>4, <3>2
    <3> QED
      BY <1>1, <1>3, <2>4, <2>5, <3>1, <3>3 DEF WriterKeeps
  <2>8. FinalFileIsTable'
    <3>1. ASSUME NEW g \in Files, expected'[g] # NoText
          PROVE  disk'[g] \in {expected'[g], Append(expected'[g], Newline)}
      <4>1. g # filename /\ expected'[g] = expected[g]
        BY <2>5, <3>1
      <4>2. CASE writer # NoWriter /\ g = writer.name
        BY <2>3, <2>4, <4>1, <4>2
      <4>3. CASE ~(writer # NoWriter /\ g = writer.name)
        <5>1. disk'[g] = disk[g]
          BY <2>4, <4>1, <4>3
        <5>2. disk[g] \in {expected[g], Append(expected[g], Newline)}
          BY <3>1, <4>1 DEF IInv, FinalFileIsTable
        <5> QED
          BY <4>1, <5>1, <5>2
      <4> QED
        BY <4>2, <4>3
    <3> QED
      BY <3>1 DEF FinalFileIsTable
  <2> QED
    BY <2>6, <2>7, <2>8 DEF IInv
<1> QED
  BY <1>2, <1>3

(* What a running writer leaves when it writes. *)
LEMMA RunningWrites ==
  ASSUME IInv, engine = "running", writer # NoWriter
  PROVE  LET wrote == Write(disk, writer, table)
         IN /\ filename \in Files /\ writer.name = filename
            /\ wrote[1] \in [Files -> Text] /\ wrote[1][filename] = TableText(table)
            /\ \A g \in Files : g # filename => wrote[1][g] = disk[g]
            /\ wrote[2].name = filename /\ wrote[2].put = Len(TableText(table))
            /\ TableText(table) \in Text
<1> DEFINE wrote == Write(disk, writer, table)
<1>1. writer.name = filename /\ Kept(disk[filename], writer, table)
      /\ TableOK(table) /\ disk \in [Files -> Text]
  BY DEF IInv, WriterKeeps, StateOK
<1>2. filename \in Files
  BY <1>1 DEF Kept, Writers
<1>3. WroteOut(disk, writer, table, wrote)
  BY <1>1, WriteKeeps
<1>4. TableText(table) \in Text
  BY <1>1, TableIsText
<1> HIDE DEF wrote
<1>5. /\ wrote[1] = [disk EXCEPT ![filename] = TableText(table)]
      /\ wrote[2].name = filename /\ wrote[2].put = Len(TableText(table))
  BY <1>1, <1>3 DEF WroteOut
<1>6. /\ wrote[1] \in [Files -> Text] /\ wrote[1][filename] = TableText(table)
      /\ \A g \in Files : g # filename => wrote[1][g] = disk[g]
  BY <1>1, <1>2, <1>4, <1>5
<1> QED
  BY <1>1, <1>2, <1>4, <1>5, <1>6 DEF wrote

(* The file is changed for another during a run. *)
LEMMA SwitchKeeps ==
  ASSUME IInv, NEW f \in Files, SwitchFile(f)
  PROVE  IInv'
<1> DEFINE wrote == IF writer = NoWriter THEN <<disk, writer>>
                    ELSE Write(disk, writer, table)
           d == wrote[1]
           old == wrote[2]
<1>1. /\ engine = "running" /\ filename # f /\ filename' = f
      /\ engine' = engine /\ table' = table
      /\ CreateWriter(d, old, f)
      /\ expected' = [g \in Files |->
                        IF g = f THEN NoText
                        ELSE IF writer # NoWriter /\ g = writer.name THEN TableText(table)
                        ELSE expected[g]]
  BY DEF SwitchFile
<1>2. /\ TableOK(table) /\ disk \in [Files -> Text] /\ TableText(table) \in Text
      /\ expected \in [Files -> Text \cup {NoText}]
      /\ FinalFileIsTable
  <2>1. TableOK(table)
    BY DEF IInv, StateOK
  <2> QED
    BY <2>1, TableIsText DEF IInv, StateOK
<1>3. /\ d \in [Files -> Text]
      /\ writer = NoWriter => d = disk /\ old = NoWriter
      /\ writer # NoWriter =>
           /\ filename \in Files /\ writer.name = filename /\ old.name = filename
           /\ d[filename] = TableText(table) /\ old.put = Len(TableText(table))
           /\ \A g \in Files : g # filename => d[g] = disk[g]
  <2>1. CASE writer = NoWriter
    BY <1>2, <2>1
  <2>2. CASE writer # NoWriter
    <3> DEFINE all == Write(disk, writer, table)
    <3>1. d = all[1] /\ old = all[2]
      BY <2>2
    <3>2. /\ filename \in Files /\ writer.name = filename
          /\ all[1] \in [Files -> Text] /\ all[1][filename] = TableText(table)
          /\ \A g \in Files : g # filename => all[1][g] = disk[g]
          /\ all[2].name = filename /\ all[2].put = Len(TableText(table))
      BY <1>1, <2>2, RunningWrites
    <3> HIDE DEF all, d, old
    <3> QED
      BY <2>2, <3>1, <3>2
  <2> QED
    BY <2>1, <2>2
<1> HIDE DEF d, old
<1>4. old # NoWriter => writer # NoWriter
  BY <1>3
<1>5. old # NoWriter => old.name \in Files /\ old.name # f /\ old.put = Len(d[old.name])
  BY <1>1, <1>3, <1>4
<1>6. /\ writer' = NewWriter(f)
      /\ disk' \in [Files -> Text]
      /\ disk'[f] = <<>>
      /\ \A g \in Files : g # f /\ (old # NoWriter => g # old.name) => disk'[g] = d[g]
      /\ old # NoWriter => disk'[old.name] = Append(d[old.name], Newline)
  BY <1>1, <1>3, <1>5, CreateKeeps
<1>7. expected' \in [Files -> Text \cup {NoText}] /\ expected'[f] = NoText
  BY <1>1, <1>2
<1>8. StateOK'
  BY <1>1, <1>2, <1>6, <1>7 DEF StateOK
<1>9. WriterKeeps'
  <2>1. NewWriter(f).name = f
    BY DEF NewWriter
  <2>2. Kept(<<>>, NewWriter(f), table)
    BY <1>2, NewKeeps
  <2>3. Kept(disk'[filename'], writer', table') /\ writer'.name = f
    BY <1>1, <1>6, <2>1, <2>2
  <2>4. filename' # NoFile
    BY <1>1, TableAssumption
  <2> QED
    BY <1>1, <1>7, <2>3, <2>4 DEF WriterKeeps
<1>10. FinalFileIsTable'
  <2>1. ASSUME NEW g \in Files, expected'[g] # NoText
        PROVE  disk'[g] \in {expected'[g], Append(expected'[g], Newline)}
    <3>1. g # f
      BY <1>7, <2>1
    <3>2. CASE writer # NoWriter /\ g = filename
      <4>1. expected'[g] = TableText(table) /\ d[g] = TableText(table)
        BY <1>1, <1>3, <3>1, <3>2
      <4>2. CASE old # NoWriter
        <5>1. old.name = g
          BY <1>3, <3>2
        <5> QED
          BY <1>6, <4>1, <4>2, <5>1
      <4>3. CASE old = NoWriter
        BY <1>6, <3>1, <4>1, <4>3
      <4> QED
        BY <4>2, <4>3
    <3>3. CASE ~(writer # NoWriter /\ g = filename)
      <4>1. expected'[g] = expected[g]
        BY <1>1, <1>3, <3>1, <3>3
      <4>2. old # NoWriter => g # old.name
        BY <1>3, <1>4, <3>3
      <4>3. disk'[g] = d[g] /\ d[g] = disk[g]
        BY <1>3, <1>6, <3>1, <3>3, <4>2
      <4>4. disk[g] \in {expected[g], Append(expected[g], Newline)}
        BY <1>2, <2>1, <4>1 DEF FinalFileIsTable
      <4> QED
        BY <4>1, <4>3, <4>4
    <3> QED
      BY <3>2, <3>3
  <2> QED
    BY <2>1 DEF FinalFileIsTable
<1> QED
  BY <1>8, <1>9, <1>10 DEF IInv

(* A value is inserted that has no fewer characters than the one it replaces. *)
LEMMA InsertingKeeps ==
  ASSUME IInv, NEW key \in Keys, NEW name \in Cols, NEW value \in Values,
         Insert(key, name, value), NothingShrinks
  PROVE  IInv'
<1> DEFINE placed == WithCol(WithRow(table, key), name)
           coords == CoordsOf(placed, key, name)
           stored == WithValue(placed, coords, value)
           told(rowFirst) ==
             IF HasCol(table, name) THEN <<disk, writer>>
             ELSE ColumnChanged(disk, writer, Announced(table, key, name, rowFirst), name)
           wroteIf(rowFirst) == ValueChanged(told(rowFirst)[1], told(rowFirst)[2], stored, coords,
                                             OldValue(placed, coords), value)
<1>0. PICK rowFirst \in BOOLEAN :
        /\ engine = "running" /\ table' = stored
        /\ IF writer = NoWriter
           THEN UNCHANGED <<writer, disk>>
           ELSE disk' = wroteIf(rowFirst)[1] /\ writer' = wroteIf(rowFirst)[2]
        /\ UNCHANGED <<engine, filename, expected, ran>>
  BY DEF Insert
<1> DEFINE wrote == wroteIf(rowFirst)
<1>1. /\ engine = "running" /\ table' = stored
      /\ engine' = engine /\ filename' = filename /\ expected' = expected
      /\ writer = NoWriter => writer' = writer /\ disk' = disk
      /\ writer # NoWriter => disk' = wrote[1] /\ writer' = wrote[2]
  BY <1>0
<1>2. /\ TableOK(table) /\ disk \in [Files -> Text]
      /\ expected \in [Files -> Text \cup {NoText}]
  BY DEF IInv, StateOK
<1>3. /\ TableOK(stored)
      /\ Kept(disk[writer.name], writer, table) /\ Widened(table, stored) =>
           KeptFor(disk, writer.name, stored, wrote)
  BY <1>2, InsertKeeps
<1> HIDE DEF stored, wrote, wroteIf
<1>4. Widened(table, stored)
  BY <1>1 DEF NothingShrinks, Widened
<1>5. CASE writer = NoWriter
  <2>1. StateOK'
    BY <1>1, <1>2, <1>3, <1>5 DEF IInv, StateOK
  <2>2. WriterKeeps'
    BY <1>1, <1>5 DEF WriterKeeps
  <2>3. FinalFileIsTable'
    BY <1>1, <1>5 DEF IInv, FinalFileIsTable
  <2> QED
    BY <2>1, <2>2, <2>3 DEF IInv
<1>6. CASE writer # NoWriter
  <2>1. writer.name = filename /\ expected[filename] = NoText
        /\ Kept(disk[filename], writer, table)
    BY <1>1, <1>6 DEF IInv, WriterKeeps
  <2>2. filename \in Files
    BY <2>1 DEF Kept, Writers
  <2>3. KeptFor(disk, filename, table', <<disk', writer'>>)
    <3>1. KeptFor(disk, filename, stored, wrote)
      BY <1>3, <1>4, <2>1
    <3> QED
      BY <1>1, <1>6, <3>1 DEF KeptFor
  <2>4. /\ disk' \in [Files -> Text] /\ writer'.name = filename
        /\ \A g \in Files : g # filename => disk'[g] = disk[g]
        /\ Kept(disk'[filename], writer', table')
    BY <2>3 DEF KeptFor
  <2>5. StateOK'
    BY <1>1, <1>2, <1>3, <2>4 DEF IInv, StateOK
  <2>6. WriterKeeps'
    <3>1. filename # NoFile
      BY <2>2, TableAssumption
    <3> QED
      BY <1>1, <2>1, <2>4, <3>1 DEF WriterKeeps
  <2>7. FinalFileIsTable'
    BY <1>1, <2>1, <2>4 DEF IInv, FinalFileIsTable
  <2> QED
    BY <2>5, <2>6, <2>7 DEF IInv
<1> QED
  BY <1>5, <1>6

(* The table without rows. *)
LEMMA EmptyOK == TableOK(EmptyTable)
<1>1. KeyColumn \in Word
  BY DEF Word
<1>2. <<KeyColumn>> \in Seq(Word) /\ <<>> \in Seq(Seq(Word)) /\ <<KeyColumn>> # <<>>
  BY <1>1
<1> DEFINE e == EmptyTable
<1>3. e = [cols |-> <<KeyColumn>>, rows |-> <<>>]
  BY DEF EmptyTable
<1> HIDE DEF e
<1>4. DOMAIN e.rows = {} /\ e.cols # <<>> /\ e \in [cols : Seq(Word), rows : Seq(Seq(Word))]
  BY <1>2, <1>3
<1> QED
  BY <1>4 DEF TableOK, e

(* A run finishes. *)
LEMMA FinishKeeps ==
  ASSUME IInv, FinishRunning
  PROVE  IInv'
<1> DEFINE wrote == Write(disk, writer, table)
<1>1. /\ engine = "running" /\ engine' = "finished" /\ filename' = filename
      /\ table' = IF ClearOnFinish THEN EmptyTable ELSE table
      /\ writer = NoWriter => writer' = writer /\ disk' = disk /\ expected' = expected
      /\ writer # NoWriter =>
           /\ disk' = wrote[1] /\ writer' = wrote[2]
           /\ expected' = [expected EXCEPT ![writer.name] = TableText(table)]
  BY DEF FinishRunning
<1>2. /\ TableOK(table) /\ disk \in [Files -> Text]
      /\ expected \in [Files -> Text \cup {NoText}]
  BY DEF IInv, StateOK
<1>3. TableOK(table')
  BY <1>1, <1>2, EmptyOK
<1> HIDE DEF wrote
<1>4. CASE writer = NoWriter
  <2>1. StateOK'
    BY <1>1, <1>2, <1>3, <1>4 DEF IInv, StateOK
  <2>2. WriterKeeps'
    BY <1>1, <1>4 DEF WriterKeeps
  <2>3. FinalFileIsTable'
    BY <1>1, <1>4 DEF IInv, FinalFileIsTable
  <2> QED
    BY <2>1, <2>2, <2>3 DEF IInv
<1>5. CASE writer # NoWriter
  <2> DEFINE text == TableText(table)
  <2>1. /\ filename \in Files /\ writer.name = filename
        /\ wrote[1] \in [Files -> Text] /\ wrote[1][filename] = text
        /\ \A g \in Files : g # filename => wrote[1][g] = disk[g]
        /\ wrote[2].name = filename /\ wrote[2].put = Len(text)
        /\ text \in Text
    BY <1>1, <1>5, RunningWrites DEF wrote
  <2>2. /\ disk' = wrote[1] /\ writer' = wrote[2]
        /\ expected' = [expected EXCEPT ![filename] = text]
    BY <1>1, <1>5, <2>1
  <2> HIDE DEF text
  <2>3. /\ expected' \in [Files -> Text \cup {NoText}] /\ expected'[filename] = text
        /\ \A g \in Files : g # filename => expected'[g] = expected[g]
    BY <1>2, <2>1, <2>2
  <2>4. StateOK'
    BY <1>1, <1>3, <2>1, <2>2, <2>3 DEF IInv, StateOK
  <2>5. WriterKeeps'
    <3>1. filename # NoFile
      BY <2>1, TableAssumption
    <3> QED
      BY <1>1, <2>1, <2>2, <2>3, <3>1 DEF WriterKeeps
  <2>6. FinalFileIsTable'
    <3>1. ASSUME NEW g \in Files, expected'[g] # NoText
          PROVE  disk'[g] \in {expected'[g], Append(expected'[g], Newline)}
      <4>1. CASE g = filename
        BY <2>1, <2>2, <2>3, <4>1
      <4>2. CASE g # filename
        <5>1. expected'[g] = expected[g] /\ disk'[g] = disk[g]
          BY <2>1, <2>2, <2>3, <4>2
        <5>2. disk[g] \in {expected[g], Append(expected[g], Newline)}
          BY <3>1, <5>1 DEF IInv, FinalFileIsTable
        <5> QED
          BY <5>1, <5>2
      <4> QED
        BY <4>1, <4>2
    <3> QED
      BY <3>1 DEF FinalFileIsTable
  <2> QED
    BY <2>4, <2>5, <2>6 DEF IInv
<1> QED
  BY <1>4, <1>5

(* The support is deleted, and its writer closes its file. *)
LEMMA DestroyKeeps ==
  ASSUME IInv, Destroy
  PROVE  IInv'
<1>1. /\ engine = "finished" /\ engine' = "destroyed" /\ writer' = NoWriter
      /\ disk' = IF writer = NoWriter THEN disk ELSE Closed(disk, writer)
      /\ UNCHANGED <<filename, table, expected>>
  BY DEF Destroy
<1>2. disk \in [Files -> Text]
  BY DEF IInv, StateOK
<1>3. WriterKeeps'
  BY <1>1 DEF WriterKeeps
<1>4. CASE writer = NoWriter
  <2>1. StateOK' /\ FinalFileIsTable'
    BY <1>1, <1>4 DEF IInv, StateOK, FinalFileIsTable
  <2> QED
    BY <1>3, <2>1 DEF IInv
<1>5. CASE writer # NoWriter
  <2> DEFINE name == writer.name
             c == disk[name]
  <2>1. name \in Files /\ writer.put = Len(c) /\ c = expected[name]
    BY <1>1, <1>5 DEF IInv, WriterKeeps
  <2>2. c \in Text
    BY <1>2, <2>1
  <2>3. PutAt(c, writer.put, <<Newline>>) = Append(c, Newline) /\ Append(c, Newline) \in Text
    BY <2>1, <2>2, PutNewline
  <2>4. disk' = [disk EXCEPT ![name] = PutAt(c, writer.put, <<Newline>>)]
    BY <1>1, <1>5 DEF Closed
  <2> DEFINE a == Append(c, Newline)
  <2>5. disk' = [disk EXCEPT ![name] = a] /\ a \in Text /\ a = Append(expected[name], Newline)
    BY <2>1, <2>3, <2>4
  <2> HIDE DEF a, c, name
  <2>6. disk' \in [Files -> Text] /\ disk'[name] = a
        /\ \A g \in Files : g # name => disk'[g] = disk[g]
    BY <1>2, <2>1, <2>5
  <2>7. StateOK'
    BY <1>1, <2>6 DEF IInv, StateOK
  <2>8. FinalFileIsTable'
    BY <1>1, <2>5, <2>6 DEF IInv, FinalFileIsTable
  <2> QED
    BY <1>3, <2>7, <2>8 DEF IInv
<1> QED
  BY <1>4, <1>5

(* Every step keeps the invariant. *)
LEMMA NextKeeps ==
  ASSUME IInv, [Next /\ FreshFile /\ NothingShrinks]_vars
  PROVE  IInv'
<1>1. CASE UNCHANGED vars
  BY <1>1 DEF vars, IInv, StateOK, WriterKeeps, FinalFileIsTable
<1>2. ASSUME Next, FreshFile, NothingShrinks
      PROVE  IInv'
  <2>1. ASSUME NEW f \in Files, SetFilename(f)
        PROVE  IInv'
    BY <2>1, SetFilenameKeeps
  <2>2. ASSUME NEW f \in Files, SwitchFile(f)
        PROVE  IInv'
    BY <2>2, SwitchKeeps
  <2>3. CASE StartRunning
    BY <1>2, <2>3, StartKeeps
  <2>4. ASSUME NEW key \in Keys, NEW name \in Cols, NEW value \in Values,
               Insert(key, name, value)
        PROVE  IInv'
    BY <1>2, <2>4, InsertingKeeps
  <2>5. CASE FinishRunning
    BY <2>5, FinishKeeps
  <2>6. CASE Destroy
    BY <2>6, DestroyKeeps
  <2> QED
    BY <1>2, <2>1, <2>2, <2>3, <2>4, <2>5, <2>6 DEF Next
<1> QED
  BY <1>1, <1>2

(* In every run in which no cell loses characters and every run of the
   pipeline has a file of its own, the state is as described. *)
THEOREM SteadyInvariant == SteadySpec => []IInv
<1>1. Init => IInv
  BY InitKeeps
<1>2. IInv /\ [Next /\ FreshFile /\ NothingShrinks]_vars => IInv'
  BY NextKeeps
<1> QED
  BY <1>1, <1>2, PTL DEF SteadySpec

(* A writer that may append has, in its file, the part of the table it
   remembers to have written: onDataTableValueChanged asks for everything to
   be written whenever a cell before that place changes. *)
THEOREM WrittenPartOfTable == SteadySpec => []FileIsWrittenPart
<1>1. IInv => FileIsWrittenPart
  <2> SUFFICES ASSUME IInv, engine = "running", writer # NoWriter, ~writer.full
               PROVE  /\ table.rows # <<>>
                      /\ disk[writer.name] = TableText(Written(table, writer.last))
    BY DEF FileIsWrittenPart
  <2>1. writer.name = filename /\ Kept(disk[filename], writer, table) /\ TableOK(table)
    BY DEF IInv, WriterKeeps, StateOK
  <2>2. Marks(writer.last, table)
        /\ disk[writer.name] = TableText(Written(table, writer.last))
    BY <2>1 DEF Kept
  <2>3. table.rows # <<>>
    BY <2>2 DEF Marks
  <2> QED
    BY <2>2, <2>3
<1> QED
  BY <1>1, SteadyInvariant, PTL

(* The file that a run leaves holds the table as it was when the run finished
   or the file was changed for another, whatever was appended before. *)
THEOREM FinalFileHoldsTable == SteadySpec => []FinalFileIsTable
<1>1. IInv => FinalFileIsTable
  BY DEF IInv
<1> QED
  BY <1>1, SteadyInvariant, PTL

------------------------------------------------------------------------------
(* The types hold in every run, also where the file does not.  No row is wider
   than the table. *)
Fits(t) ==
  /\ t.cols[1] = KeyColumn
  /\ \A r \in DOMAIN t.rows : Len(t.rows[r]) <= Len(t.cols)

(* A writer that does not write everything next stands in the table. *)
Stands(w, t) == w \in Writers /\ (~w.full => Marks(w.last, t))

TypeInv ==
  /\ engine \in {"idle", "running", "finished", "destroyed"}
  /\ filename \in Files \cup {NoFile}
  /\ TableOK(table) /\ Fits(table)
  /\ filename = NoFile => writer = NoWriter
  /\ writer = NoWriter \/ writer \in Writers
  /\ engine = "running" /\ writer # NoWriter => Stands(writer, table)
  /\ ran \in 0..MaxRuns

(* Rows and columns that are placed fit. *)
LEMMA PlacedFits ==
  ASSUME NEW t, TableOK(t), Fits(t), NEW key \in Keys, NEW name \in Cols
  PROVE  Fits(WithCol(WithRow(t, key), name))
<1> DEFINE u == WithRow(t, key)
           p == WithCol(u, name)
<1>1. TableOK(u) /\ u.cols = t.cols /\ GrownFrom(t, u, key)
  BY RowPlaced
<1> HIDE DEF u
<1>2. p.rows = u.rows /\ NotNarrower(u.cols, p.cols) /\ TableOK(p)
  BY <1>1, ColPlaced
<1>3. p.cols[1] = u.cols[1]
  <2>1. u \in [cols : Seq(Word), rows : Seq(Seq(Word))] /\ u.cols # <<>>
    BY <1>1 DEF TableOK
  <2>2. CASE HasCol(u, name)
    BY <2>2 DEF WithCol
  <2>3. CASE ~HasCol(u, name)
    <3>1. p.cols = Append(u.cols, name)
      BY <2>1, <2>3 DEF WithCol
    <3> DEFINE cols == u.cols
    <3>2. cols \in Seq(Word) /\ cols # <<>> /\ name \in Word
      BY <2>1 DEF Word
    <3> HIDE DEF cols
    <3>3. Append(cols, name)[1] = cols[1]
      BY <3>2
    <3> QED
      BY <3>1, <3>3 DEF cols
  <2> QED
    BY <2>2, <2>3
<1> HIDE DEF p
<1>4. /\ Len(u.cols) \in Nat /\ Len(p.cols) \in Nat /\ Len(u.cols) >= 1
      /\ Len(u.cols) <= Len(p.cols)
      /\ DOMAIN p.rows = 1..Len(p.rows) /\ DOMAIN t.rows = 1..Len(t.rows)
      /\ Len(t.rows) \in Nat
  <2>1. Len(u.cols) \in Nat /\ Len(u.cols) >= 1
    BY <1>1 DEF TableOK
  <2>2. Len(p.cols) \in Nat /\ DOMAIN p.rows = 1..Len(p.rows)
    BY <1>2 DEF TableOK
  <2>3. DOMAIN t.rows = 1..Len(t.rows) /\ Len(t.rows) \in Nat
    BY DEF TableOK
  <2>4. Len(u.cols) <= Len(p.cols)
    BY <1>2 DEF NotNarrower
  <2> QED
    BY <2>1, <2>2, <2>3, <2>4
<1>5. ASSUME NEW r \in 1..Len(p.rows)
      PROVE  Len(p.rows[r]) <= Len(p.cols)
  <2>1. CASE r <= Len(t.rows)
    <3>1. r \in 1..Len(t.rows) /\ p.rows[r] = t.rows[r]
      BY <1>1, <1>2, <1>4, <2>1 DEF GrownFrom, Alike
    <3>2. Len(t.rows[r]) <= Len(u.cols)
      BY <1>1, <1>4, <3>1 DEF Fits
    <3>3. Len(t.rows[r]) \in Nat
      <4>1. t.rows \in Seq(Seq(Word))
        BY DEF TableOK
      <4> QED
        BY <3>1, <4>1
    <3> QED
      BY <1>4, <3>1, <3>2, <3>3
  <2>2. CASE r > Len(t.rows)
    <3>1. p.rows[r] = <<key>>
      BY <1>1, <1>2, <2>2 DEF GrownFrom
    <3>2. Len(<<key>>) = 1
      OBVIOUS
    <3> QED
      BY <1>4, <3>1, <3>2
  <2> QED
    BY <1>4, <2>1, <2>2
<1>6. Fits(p)
  BY <1>1, <1>3, <1>4, <1>5 DEF Fits
<1> QED
  BY <1>6 DEF p, u

(* So does a column that is found, or added. *)
LEMMA ColFits ==
  ASSUME NEW t, TableOK(t), Fits(t), NEW name \in Cols
  PROVE  Fits(WithCol(t, name))
<1> DEFINE p == WithCol(t, name)
           n == Len(t.cols)
<1>1. TableOK(p) /\ p.rows = t.rows /\ n <= Len(p.cols)
  BY ColPlaced DEF NotNarrower
<1>2. /\ t.cols \in Seq(Word) /\ n \in Nat /\ n >= 1
      /\ t.rows \in Seq(Seq(Word)) /\ DOMAIN t.rows = 1..Len(t.rows)
      /\ Len(p.cols) \in Nat
  BY <1>1 DEF TableOK
<1>3. p.cols[1] = t.cols[1]
  <2>1. CASE HasCol(t, name)
    BY <2>1 DEF WithCol
  <2>2. CASE ~HasCol(t, name)
    <3>1. p.cols = Append(t.cols, name)
      BY <2>2 DEF WithCol, TableOK
    <3> HIDE DEF p
    <3> QED
      BY <1>2, <3>1
  <2> QED
    BY <2>1, <2>2
<1> HIDE DEF p
<1>4. ASSUME NEW r \in 1..Len(t.rows)
      PROVE  Len(p.rows[r]) <= Len(p.cols)
  <2>1. Len(t.rows[r]) <= n
    <3>1. r \in DOMAIN t.rows
      BY <1>2
    <3> QED
      BY <3>1 DEF Fits
  <2>2. Len(t.rows[r]) \in Nat
    <3>1. t.rows[r] \in Seq(Word)
      BY <1>2
    <3> HIDE DEF n
    <3> QED
      BY <3>1
  <2> QED
    BY <1>1, <1>2, <2>1, <2>2
<1> QED
  BY <1>1, <1>2, <1>3, <1>4 DEF Fits, p

(* And so does a value that is stored in a column of the table. *)
LEMMA StoredFits ==
  ASSUME NEW p, TableOK(p), Fits(p), NEW s, TableOK(s), NEW r \in 1..Len(p.rows),
         NEW c, c <= Len(p.cols), StoredAt(p, s, r, c)
  PROVE  Fits(s)
<1>1. DOMAIN p.rows = 1..Len(p.rows) /\ DOMAIN s.rows = 1..Len(s.rows)
  BY DEF TableOK
<1>2. /\ s.cols = p.cols /\ Len(s.rows) = Len(p.rows)
      /\ \A q \in 1..Len(p.rows) : q # r => s.rows[q] = p.rows[q]
      /\ Len(s.rows[r]) \in {Len(p.rows[r]), c}
  BY DEF StoredAt
<1>3. p.cols[1] = KeyColumn /\ \A q \in 1..Len(p.rows) : Len(p.rows[q]) <= Len(p.cols)
  BY <1>1 DEF Fits
<1>4. ASSUME NEW q \in 1..Len(p.rows)
      PROVE  Len(s.rows[q]) <= Len(s.cols)
  <2>1. CASE q = r
    BY <1>2, <1>3, <2>1
  <2>2. CASE q # r
    BY <1>2, <1>3, <2>2
  <2> QED
    BY <2>1, <2>2
<1> QED
  BY <1>1, <1>2, <1>3, <1>4 DEF Fits

(* What a writer is when it has written, whatever its file holds. *)
LEMMA WriteStands ==
  ASSUME NEW d, NEW w, NEW t, TableOK(t), Stands(w, t)
  PROVE  LET v == Write(d, w, t)[2]
         IN v \in Writers /\ v.name = w.name /\ (t.rows # <<>> => Stands(v, t))
<1> DEFINE text == TableText(t)
           more == TextFrom(w, t)
           last == <<LastRow(t), LastSize(t, w.last[2])>>
           put == IF w.full THEN Len(text) ELSE w.put + Len(more)
           v == [w EXCEPT !.put = put, !.last = last, !.full = FALSE, !.since = 0]
           wrote == Write(d, w, t)
<1>1. w \in Writers /\ w.put \in Nat /\ w.last[2] \in Nat /\ w.full \in BOOLEAN
  BY DEF Stands, Writers
<1>2. last \in Nat \X Nat /\ (t.rows # <<>> => Marks(last, t))
  BY <1>1, LastPlace
<1>3. put \in Nat
  <2>1. CASE w.full
    BY <2>1, TableIsText
  <2>2. CASE ~w.full
    <3>1. Marks(w.last, t)
      BY <2>2 DEF Stands
    <3>2. PICK n \in 1..Len(t.rows) : \E size \in 1..Len(t.rows[n]) : w.last = <<n - 1, size>>
      BY <3>1 DEF Marks
    <3>3. PICK size \in 1..Len(t.rows[n]) : w.last = <<n - 1, size>>
      BY <3>2
    <3>4. more \in Text
      BY <3>3, TableSplit
    <3> HIDE DEF more
    <3>5. Len(more) \in Nat
      BY <3>4 DEF Text
    <3> QED
      BY <1>1, <2>2, <3>5
  <2> QED
    BY <1>1, <2>1, <2>2
<1>4. wrote[2] = v
  <2>1. CASE w.full
    <3>1. put = Len(text)
      BY <2>1
    <3>2. wrote = WriteFull(d, w, t)
      BY <2>1 DEF Write
    <3>3. WriteFull(d, w, t) = <<[d EXCEPT ![w.name] = PutAt(d[w.name], 0, text)],
            [w EXCEPT !.put = Len(text), !.last = last, !.full = FALSE, !.since = 0]>>
      BY Zenon DEF WriteFull
    <3> HIDE DEF text, last, put, wrote
    <3> QED
      BY <3>1, <3>2, <3>3
  <2>2. CASE ~w.full
    <3>1. put = w.put + Len(more)
      BY <2>2
    <3>2. wrote = WriteFrom(d, w, t)
      BY <2>2 DEF Write
    <3>3. WriteFrom(d, w, t) = <<[d EXCEPT ![w.name] = PutAt(d[w.name], w.put, more)],
            [w EXCEPT !.put = w.put + Len(more), !.last = last, !.full = FALSE, !.since = 0]>>
      BY Zenon DEF WriteFrom
    <3> HIDE DEF more, last, put, wrote
    <3> QED
      BY <3>1, <3>2, <3>3
  <2> QED
    BY <1>1, <2>1, <2>2
<1> HIDE DEF put, last, wrote
<1>5. v \in Writers /\ v.name = w.name /\ v.last = last
  BY <1>1, <1>2, <1>3 DEF Writers
<1> HIDE DEF v
<1>6. t.rows # <<>> => Stands(v, t)
  BY <1>2, <1>5 DEF Stands
<1> QED
  BY <1>4, <1>5, <1>6 DEF wrote

(* And when a write waits until it is due. *)
LEMMA DueStands ==
  ASSUME NEW d, NEW w, NEW t, TableOK(t), t.rows # <<>>, Stands(w, t)
  PROVE  Stands(WriteIfDue(d, w, t)[2], t)
<1>1. CASE w.since > WriteDelay
  BY <1>1, WriteStands DEF WriteIfDue
<1>2. CASE ~(w.since > WriteDelay)
  BY <1>2 DEF WriteIfDue
<1> QED
  BY <1>1, <1>2

(* What an insert that finds the row first makes of the table and of the writer,
   whatever is on disk. *)
LEMMA RowFirstStands ==
  ASSUME NEW d, NEW w, NEW t, TableOK(t), Fits(t),
         NEW key \in Keys, NEW name \in Cols, NEW value \in Values
  PROVE  LET placed == WithCol(WithRow(t, key), name)
             coords == CoordsOf(placed, key, name)
             stored == WithValue(placed, coords, value)
             told == IF HasCol(t, name) THEN <<d, w>>
                     ELSE ColumnChanged(d, w, placed, name)
             wrote == ValueChanged(told[1], told[2], stored, coords,
                                   OldValue(placed, coords), value)
         IN /\ TableOK(stored) /\ Fits(stored)
            /\ Stands(w, t) => Stands(wrote[2], stored)
<1> DEFINE placed == WithCol(WithRow(t, key), name)
           coords == CoordsOf(placed, key, name)
           stored == WithValue(placed, coords, value)
           told == IF HasCol(t, name) THEN <<d, w>>
                   ELSE ColumnChanged(d, w, placed, name)
           old == OldValue(placed, coords)
           wrote == ValueChanged(told[1], told[2], stored, coords, old, value)
<1>1. PlacedFrom(t, placed, key, name) /\ Fits(placed)
  BY Placed, PlacedFits
<1> HIDE DEF placed
<1>2. /\ TableOK(placed) /\ HasRow(placed, key) /\ HasCol(placed, name)
      /\ GrownFrom(t, placed, key)
      /\ HasCol(t, name) => placed.cols = t.cols
  BY <1>1 DEF PlacedFrom
<1>3. PICK r \in 1..Len(placed.rows), c \in Nat \ {0} :
        coords = <<r - 1, c>> /\ c + 1 <= Len(placed.cols)
  BY <1>2, CellPlaced
<1> HIDE DEF coords
<1>4. TableOK(stored) /\ StoredAt(placed, stored, r, c + 1)
  BY <1>2, <1>3, ValueStored
<1> HIDE DEF stored
<1>5. Fits(stored)
  BY <1>1, <1>2, <1>3, <1>4, StoredFits
<1>6. old \in Word /\ value \in Word
  <2>1. placed.rows \in Seq(Seq(Word))
    BY <1>2 DEF TableOK
  <2>2. coords[1] + 1 = r /\ coords[2] = c
    BY <1>3, <2>1
  <2> DEFINE row == placed.rows[r]
  <2>3. row \in Seq(Word)
    BY <2>1
  <2>4. old = IF c < Len(row) THEN row[c + 1] ELSE NoValue
    BY <2>2 DEF OldValue
  <2> HIDE DEF row, old
  <2>5. NoValue \in Word /\ value \in Word
    BY DEF Word
  <2>6. c < Len(row) => row[c + 1] \in Word
    <3>1. c < Len(row) => c + 1 \in 1..Len(row)
      BY <2>3
    <3> QED
      BY <2>3, <3>1
  <2> QED
    BY <2>4, <2>5, <2>6
<1>7. placed.rows # <<>> /\ stored.rows # <<>>
  <2>1. placed.rows \in Seq(Seq(Word)) /\ stored.rows \in Seq(Seq(Word))
        /\ Len(stored.rows) = Len(placed.rows) /\ Len(placed.rows) \in Nat
    BY <1>2, <1>4 DEF TableOK, StoredAt
  <2> QED
    BY <2>1
<1> HIDE DEF old
<1>8. ASSUME Stands(w, t)
      PROVE  Stands(wrote[2], stored)
  <2>1. Stands(told[2], placed)
    <3>1. CASE HasCol(t, name)
      <4>1. told[2] = w
        BY <3>1
      <4>2. ~w.full => Marks(w.last, placed)
        <5>1. SUFFICES ASSUME ~w.full
                       PROVE  Marks(w.last, placed)
          OBVIOUS
        <5>2. Marks(w.last, t)
          BY <1>8, <5>1 DEF Stands
        <5>3. Follows(t, placed, w.last)
          BY <1>2, <3>1, <5>2, GrownFollows
        <5> QED
          BY <5>3 DEF Follows
      <4> HIDE DEF told
      <4> QED
        BY <1>8, <4>1, <4>2 DEF Stands
    <3>2. CASE ~HasCol(t, name)
      <4> DEFINE since == w.since + Width[name]
                 v == [w EXCEPT !.since = since, !.full = TRUE]
      <4>1. told = ColumnChanged(d, w, placed, name)
        BY <3>2
      <4>2. ColumnChanged(d, w, placed, name) = WriteIfDue(d, v, placed)
        BY Zenon DEF ColumnChanged
      <4>3. w \in Writers /\ since \in Nat
        <5>1. name \in Word
          BY DEF Word
        <5>2. Width[name] \in Nat
          BY <5>1, WordIsText
        <5> QED
          BY <1>8, <5>2 DEF Stands, Writers
      <4> HIDE DEF since
      <4>4. v \in Writers /\ v.full = TRUE
        BY <4>3 DEF Writers
      <4> HIDE DEF v, told
      <4>5. Stands(v, placed)
        BY <4>4 DEF Stands
      <4> QED
        BY <1>2, <1>7, <4>1, <4>2, <4>5, DueStands
    <3> QED
      BY <3>1, <3>2
  <2> DEFINE e == told[1]
             u == told[2]
             late == Before(coords, u.last)
             since == u.since + Diff(old, value)
             v == [u EXCEPT !.since = since, !.full = u.full \/ late]
  <2>2. Stands(u, placed)
    BY <2>1
  <2> HIDE DEF e, u, told
  <2>3. wrote = WriteIfDue(e, v, stored)
    BY Zenon DEF ValueChanged, e, u
  <2>4. u \in Writers /\ since \in Nat /\ late \in BOOLEAN
    <3>1. Width[old] \in Nat /\ Width[value] \in Nat
      BY <1>6, WordIsText
    <3>2. Diff(old, value) \in Nat
      BY <3>1 DEF Diff
    <3>3. late \in BOOLEAN
      BY DEF Before
    <3>4. u \in Writers /\ u.since \in Nat
      BY <2>2 DEF Stands, Writers
    <3> HIDE DEF late
    <3> QED
      BY <3>2, <3>3, <3>4
  <2>5. ~late => ~Before(coords, u.last)
    OBVIOUS
  <2> HIDE DEF since, late, wrote
  <2>6. v \in Writers /\ v.last = u.last /\ v.full = (u.full \/ late)
    <3>1. u.full \in BOOLEAN
      BY <2>4 DEF Writers
    <3>2. (u.full \/ late) \in BOOLEAN
      BY <2>4, <3>1
    <3> QED
      BY <2>4, <3>2 DEF Writers
  <2> HIDE DEF v
  <2>7. ~v.full => Marks(v.last, stored)
    <3>1. SUFFICES ASSUME ~v.full
                   PROVE  Marks(u.last, stored)
      BY <2>6
    <3>2. ~u.full /\ ~Before(<<r - 1, c>>, u.last)
      BY <1>3, <2>5, <2>6, <3>1
    <3>3. Marks(u.last, placed)
      BY <2>2, <3>2 DEF Stands
    <3>4. Follows(placed, stored, u.last)
      BY <1>2, <1>4, <3>2, <3>3, StoredFollows
    <3> QED
      BY <3>4 DEF Follows
  <2>8. Stands(v, stored)
    BY <2>6, <2>7 DEF Stands
  <2> QED
    BY <1>4, <1>7, <2>3, <2>8, DueStands
<1> QED
  BY <1>4, <1>5, <1>8 DEF wrote, told, old, stored, coords, placed

(* The same where it finds the column first. *)
LEMMA ColFirstStands ==
  ASSUME NEW d, NEW w, NEW t, TableOK(t), Fits(t), Stands(w, t),
         NEW key \in Keys, NEW name \in Cols, NEW value \in Values, ~HasCol(t, name)
  PROVE  LET placed == WithCol(WithRow(t, key), name)
             coords == CoordsOf(placed, key, name)
             stored == WithValue(placed, coords, value)
             told == ColumnChanged(d, w, WithCol(t, name), name)
             wrote == ValueChanged(told[1], told[2], stored, coords,
                                   OldValue(placed, coords), value)
         IN Stands(wrote[2], stored)
<1> DEFINE seen == WithCol(t, name)
           placed == WithCol(WithRow(t, key), name)
           coords == CoordsOf(placed, key, name)
           stored == WithValue(placed, coords, value)
           old == OldValue(placed, coords)
           told == ColumnChanged(d, w, seen, name)
           e == told[1]
           v == told[2]
           wrote == ValueChanged(e, v, stored, coords, old, value)
<1>1. TableOK(seen) /\ seen.rows = t.rows /\ HasCol(seen, name) /\ NotNarrower(t.cols, seen.cols)
  BY ColPlaced
<1>2. WithCol(WithRow(seen, key), name) = placed
  BY PlacesCommute
<1>3. PlacedFrom(t, placed, key, name)
  BY Placed
<1>4. Fits(seen)
  <2>1. Fits(WithCol(t, name))
    BY ColFits
  <2> QED
    BY <2>1
<1>5. w \in Writers
  BY DEF Stands
<1> HIDE DEF seen, placed
<1>6. ASSUME NEW f, NEW x, Stands(x, seen)
      PROVE  Stands(ValueChanged(f, x, stored, coords, old, value)[2], stored)
  <2> DEFINE none == <<f, x>>
  <2>1. Stands(ValueChanged(none[1], none[2], stored, coords, old, value)[2], stored)
    BY <1>1, <1>2, <1>4, <1>6, RowFirstStands
  <2> QED
    BY <2>1
<1>7. PICK r \in 1..Len(placed.rows), c \in Nat \ {0} :
        coords = <<r - 1, c>> /\ c + 1 <= Len(placed.cols)
  BY <1>3, CellPlaced DEF PlacedFrom
<1> HIDE DEF coords, stored, old
<1>8. CASE t.rows # <<>>
  <2> DEFINE since == w.since + Width[name]
             x == [w EXCEPT !.since = since, !.full = TRUE]
  <2>1. told = WriteIfDue(d, x, seen)
    BY Zenon DEF ColumnChanged
  <2>2. since \in Nat
    <3>1. name \in Word
      BY DEF Word
    <3>2. Width[name] \in Nat
      BY <3>1, WordIsText
    <3> QED
      BY <1>5, <3>2 DEF Writers
  <2> HIDE DEF since
  <2>3. x \in Writers /\ x.full = TRUE
    BY <1>5, <2>2 DEF Writers
  <2> HIDE DEF x, told
  <2>4. Stands(x, seen)
    BY <2>3 DEF Stands
  <2>5. Stands(v, seen)
    BY <1>1, <1>8, <2>1, <2>4, DueStands
  <2> QED
    BY <1>6, <2>5 DEF wrote, e, v, told, seen, placed, coords, stored, old
<1>9. CASE t.rows = <<>>
  <2> DEFINE all == [v EXCEPT !.full = TRUE]
  <2>1. v \in Writers /\ (v.full \/ v.last[1] = SizeRange - 1)
    BY <1>1, <1>5, <1>9, EmptyTold
  <2> HIDE DEF v
  <2>2. v.full \/ Before(coords, v.last)
    <3>1. r = 1
      BY <1>3, <1>9, FirstRow DEF PlacedFrom
    <3>2. 0 < SizeRange - 1
      BY ManySizes
    <3> QED
      BY <1>7, <2>1, <3>1, <3>2 DEF Before
  <2>3. all \in Writers /\ all.full = TRUE
    BY <2>1 DEF Writers
  <2>4. wrote = ValueChanged(e, all, stored, coords, old, value)
    BY <2>1, <2>2, ToldAll
  <2> HIDE DEF all, wrote
  <2>5. Stands(all, seen)
    BY <2>3 DEF Stands
  <2>6. Stands(wrote[2], stored)
    BY <1>6, <2>4, <2>5
  <2> QED
    BY <2>6 DEF wrote, e, v, told, seen, placed, coords, stored, old
<1> QED
  BY <1>8, <1>9

(* What an insert makes of the table and of the writer. *)
LEMMA InsertStands ==
  ASSUME NEW d, NEW w, NEW t, TableOK(t), Fits(t), NEW rowFirst \in BOOLEAN,
         NEW key \in Keys, NEW name \in Cols, NEW value \in Values
  PROVE  LET placed == WithCol(WithRow(t, key), name)
             coords == CoordsOf(placed, key, name)
             stored == WithValue(placed, coords, value)
             told == IF HasCol(t, name) THEN <<d, w>>
                     ELSE ColumnChanged(d, w, Announced(t, key, name, rowFirst), name)
             wrote == ValueChanged(told[1], told[2], stored, coords,
                                   OldValue(placed, coords), value)
         IN /\ TableOK(stored) /\ Fits(stored)
            /\ Stands(w, t) => Stands(wrote[2], stored)
<1>1. CASE rowFirst
  <2>1. Announced(t, key, name, rowFirst) = WithCol(WithRow(t, key), name)
    BY <1>1 DEF Announced
  <2> QED
    BY <2>1, RowFirstStands
<1>2. CASE ~rowFirst /\ HasCol(t, name)
  BY <1>2, RowFirstStands
<1>3. CASE ~rowFirst /\ ~HasCol(t, name)
  <2>1. Announced(t, key, name, rowFirst) = WithCol(t, name)
    BY <1>3 DEF Announced
  <2> DEFINE placed == WithCol(WithRow(t, key), name)
             coords == CoordsOf(placed, key, name)
             stored == WithValue(placed, coords, value)
  <2>2. TableOK(stored) /\ Fits(stored)
    BY RowFirstStands
  <2> QED
    BY <1>3, <2>1, <2>2, ColFirstStands
<1> QED
  BY <1>1, <1>2, <1>3

(* Every step keeps the types. *)
LEMMA NextTyped ==
  ASSUME TypeInv, [Next]_vars
  PROVE  TypeInv'
<1>1. CASE UNCHANGED vars
  BY <1>1 DEF vars, TypeInv
<1>2. ASSUME NEW f \in Files, SetFilename(f)
      PROVE  TypeInv'
  <2>1. f # NoFile
    BY TableAssumption
  <2> QED
    BY <1>2, <2>1 DEF SetFilename, TypeInv
<1>3. ASSUME NEW f \in Files
      PROVE  NewWriter(f) \in Writers /\ Stands(NewWriter(f), table)
  <2> DEFINE w == NewWriter(f)
  <2>1. w \in Writers /\ w.full = TRUE
    BY DEF NewWriter, Writers
  <2> HIDE DEF w
  <2>2. Stands(w, table)
    BY <2>1 DEF Stands
  <2> QED
    BY <2>1, <2>2 DEF w
<1>4. ASSUME NEW f \in Files, SwitchFile(f)
      PROVE  TypeInv'
  <2>1. f # NoFile
    BY TableAssumption
  <2>2. /\ writer' = NewWriter(f) /\ filename' = f /\ engine' = engine
        /\ table' = table /\ ran' = ran
    BY <1>4 DEF SwitchFile, CreateWriter
  <2> QED
    BY <1>3, <2>1, <2>2 DEF TypeInv
<1>5. ASSUME StartRunning
      PROVE  TypeInv'
  <2>1. /\ engine' = "running" /\ filename' = filename /\ table' = table
        /\ ran' = ran + 1 /\ ran < MaxRuns
        /\ filename = NoFile => writer' = writer
        /\ filename # NoFile => writer' = NewWriter(filename)
    BY <1>5 DEF StartRunning, CreateWriter
  <2>2. ran' \in 0..MaxRuns
    BY <2>1, TableAssumption DEF TypeInv
  <2>3. CASE filename = NoFile
    BY <2>1, <2>2, <2>3 DEF TypeInv
  <2>4. CASE filename # NoFile
    <3>1. filename \in Files
      BY <2>4 DEF TypeInv
    <3> QED
      BY <1>3, <2>1, <2>2, <2>4, <3>1 DEF TypeInv
  <2> QED
    BY <2>3, <2>4
<1>6. ASSUME NEW key \in Keys, NEW name \in Cols, NEW value \in Values,
             Insert(key, name, value)
      PROVE  TypeInv'
  <2> DEFINE placed == WithCol(WithRow(table, key), name)
             coords == CoordsOf(placed, key, name)
             stored == WithValue(placed, coords, value)
             told(rowFirst) ==
               IF HasCol(table, name) THEN <<disk, writer>>
               ELSE ColumnChanged(disk, writer, Announced(table, key, name, rowFirst), name)
             wroteIf(rowFirst) == ValueChanged(told(rowFirst)[1], told(rowFirst)[2], stored, coords,
                                               OldValue(placed, coords), value)
  <2>0. PICK rowFirst \in BOOLEAN :
          /\ engine = "running" /\ table' = stored
          /\ IF writer = NoWriter
             THEN UNCHANGED <<writer, disk>>
             ELSE disk' = wroteIf(rowFirst)[1] /\ writer' = wroteIf(rowFirst)[2]
          /\ UNCHANGED <<engine, filename, expected, ran>>
    BY <1>6 DEF Insert
  <2> DEFINE wrote == wroteIf(rowFirst)
  <2>1. /\ engine = "running" /\ engine' = engine /\ filename' = filename
        /\ ran' = ran /\ table' = stored
        /\ writer = NoWriter => writer' = writer
        /\ writer # NoWriter => writer' = wrote[2]
    BY <2>0
  <2>2. TableOK(stored) /\ Fits(stored)
        /\ (Stands(writer, table) => Stands(wrote[2], stored))
    BY InsertStands DEF TypeInv
  <2> HIDE DEF stored, wrote, wroteIf
  <2>3. TableOK(table') /\ Fits(table')
    BY <2>1, <2>2
  <2>4. CASE writer = NoWriter
    BY <2>1, <2>3, <2>4 DEF TypeInv
  <2>5. CASE writer # NoWriter
    <3>1. Stands(writer', table')
      BY <2>1, <2>2, <2>5 DEF TypeInv
    <3>2. writer' \in Writers
      BY <3>1 DEF Stands
    <3> QED
      BY <2>1, <2>3, <2>5, <3>1, <3>2 DEF TypeInv
  <2> QED
    BY <2>4, <2>5
<1>7. ASSUME FinishRunning
      PROVE  TypeInv'
  <2> DEFINE wrote == Write(disk, writer, table)
  <2>1. /\ engine = "running" /\ engine' = "finished" /\ filename' = filename /\ ran' = ran
        /\ table' = IF ClearOnFinish THEN EmptyTable ELSE table
        /\ writer = NoWriter => writer' = writer
        /\ writer # NoWriter => writer' = wrote[2]
    BY <1>7 DEF FinishRunning
  <2>2. TableOK(EmptyTable) /\ Fits(EmptyTable)
    BY EmptyOK DEF EmptyTable, Fits
  <2>3. TableOK(table') /\ Fits(table')
    BY <2>1, <2>2 DEF TypeInv
  <2>4. writer # NoWriter => wrote[2] \in Writers
    BY <2>1, WriteStands DEF TypeInv
  <2> HIDE DEF wrote
  <2> QED
    BY <2>1, <2>3, <2>4 DEF TypeInv
<1>8. ASSUME Destroy
      PROVE  TypeInv'
  BY <1>8 DEF Destroy, TypeInv
<1> QED
  BY <1>1, <1>2, <1>4, <1>5, <1>6, <1>7, <1>8 DEF Next

(* The variables have their types in every run: no two rows have one key, each
   starts with it and is no wider than the table, and a writer's place lies in
   the table whenever it is going to append. *)
THEOREM TableTypeAlways == Spec => [](TypeOK /\ TypeInv)
<1>1. Init => TypeInv
  <2>1. EmptyTable.cols = <<KeyColumn>> /\ EmptyTable.rows = <<>>
    BY DEF EmptyTable
  <2>2. Fits(EmptyTable) /\ 0 \in 0..MaxRuns
    BY <2>1, TableAssumption DEF Fits
  <2> QED
    BY <2>2, EmptyOK DEF Init, TypeInv
<1>2. TypeInv /\ [Next]_vars => TypeInv'
  BY NextTyped
<1>3. TypeInv => TypeOK
  BY DEF TypeInv, TypeOK, TableOK, Fits, Writers
<1> QED
  BY <1>1, <1>2, <1>3, PTL DEF Spec
==============================================================================
