-------------------------- MODULE ParamsQueueProofs --------------------------
(***************************************************************************)
(* Proofs about ParamsQueue, for any number of processes, any queue file   *)
(* and any chunk and buffer sizes; and about WorkChunkLoop, the loop that  *)
(* ParamsQueue takes in one step.                                          *)
(***************************************************************************)
EXTENDS ParamsQueue, WorkChunkLoop, TLAPS, SequenceTheorems, FiniteSetTheorems

(***************************************************************************)
(* Lemmas about the work chunk and about the lines getWork writes.         *)
(***************************************************************************)

(* The next chunk is never empty. *)
LEMMA NextChunkPositive ==
  ASSUME NEW busyTime \in Nat, NEW n \in Nat \ {0}, n <= busyTime,
         NEW size \in Nat \ {0}
  PROVE  NextChunk(MeanDuration(busyTime, n), size, TargetTime) \in Nat \ {0}
<1> DEFINE mean == busyTime \div n
<1>1. mean \in Nat \ {0}
  OBVIOUS
<1> HIDE DEF mean
<1>2. ItemsToFill(mean, TargetTime) \in Int
  BY <1>1, ChunkAssumption DEF ItemsToFill
<1>3. SearchStart(mean, size, TargetTime) \in Nat \ {0}
  BY <1>1 DEF SearchStart
<1>4. NextChunk(mean, size, TargetTime) \in Nat \ {0}
  BY <1>2, <1>3 DEF NextChunk, LargerOf
<1> QED
  BY <1>4 DEF mean, MeanDuration

(* ItemsToFill is the least number of items that fill the target. *)
LEMMA ItemsFill ==
  ASSUME NEW mean \in Nat \ {0}, NEW target \in Nat
  PROVE  /\ ItemsToFill(mean, target) \in Int
         /\ mean * ItemsToFill(mean, target) >= target
         /\ mean * (ItemsToFill(mean, target) - 1) < target
<1> DEFINE least == ItemsToFill(mean, target)
<1>1. /\ least \in Int
      /\ mean * least <= target + mean - 1
      /\ target + mean - 1 < mean * (least + 1)
  BY DEF ItemsToFill
<1> HIDE DEF least
<1>2. /\ least \in Int
      /\ mean * least >= target
      /\ mean * (least - 1) < target
  BY <1>1
<1> QED
  BY <1>2 DEF least

(* When one item takes no longer than the target time, the next chunk is
   expected to fill the target, and to reach it only with its last item, unless
   the chunk before it fills the target exactly: then it is that chunk and one
   item more. *)
THEOREM NextChunkFillsTarget ==
  ASSUME NEW mean \in Nat \ {0}, NEW size \in Nat \ {0}, NEW target \in Nat,
         mean <= target
  PROVE  /\ mean * NextChunk(mean, size, target) >= target
         /\ \/ mean * (NextChunk(mean, size, target) - 1) < target
            \/ NextChunk(mean, size, target) = size + 1 /\ mean * size = target
<1> DEFINE least == ItemsToFill(mean, target)
           start == SearchStart(mean, size, target)
<1>1. /\ least \in Int
      /\ mean * least >= target
      /\ mean * (least - 1) < target
  BY ItemsFill
<1>2. /\ start \in Nat \ {0}
      /\ \/ mean * (start - 1) < target
         \/ start = size + 1 /\ mean * size = target
  <2>1. mean * size \in Int /\ mean * (1 - 1) = 0
    OBVIOUS
  <2>2. CASE mean * size > target
    BY <2>1, <2>2 DEF SearchStart
  <2>3. CASE ~(mean * size > target)
    <3>1. start = size + 1 /\ start - 1 = size
      BY <2>1, <2>3 DEF SearchStart
    <3> QED
      BY <2>1, <2>3, <3>1
  <2> QED
    BY <2>2, <2>3
<1>3. NextChunk(mean, size, target) = IF start >= least THEN start ELSE least
  BY DEF NextChunk, LargerOf
<1> HIDE DEF least, start
<1>4. CASE start >= least
  <2>1. mean * start >= mean * least
    BY <1>1, <1>2, <1>4
  <2>2. mean * start \in Int /\ mean * least \in Int
    BY <1>1, <1>2
  <2> QED
    BY <1>1, <1>2, <1>3, <1>4, <2>1, <2>2
<1>5. CASE ~(start >= least)
  BY <1>1, <1>3, <1>5
<1> QED
  BY <1>4, <1>5

(***************************************************************************)
(* WorkChunkLoop: the loop stops at the closed form.                       *)
(***************************************************************************)

(* While it multiplies, the loop has gone up from its start, and no number of
   items before the counter fills the target. *)
LoopInv ==
  /\ LoopTypeOK
  /\ at = "call" => numWorkItemsChunk = chunkBefore
  /\ at = "loop" =>
       LET start == SearchStart(meanDuration, chunkBefore, targetChunkTime)
       IN /\ meanDuration <= targetChunkTime
          /\ numWorkItemsChunk = chunkBefore
          /\ counter >= start
          /\ counter > start => meanDuration * (counter - 1) < targetChunkTime
  /\ LoopIsNextChunk

(* The counter at which the loop stops is the size of the next chunk. *)
LEMMA StopsAtNextChunk ==
  ASSUME NEW mean \in Nat \ {0}, NEW size \in Nat \ {0}, NEW target \in Nat, NEW n \in Nat,
         mean <= target, n >= SearchStart(mean, size, target),
         n > SearchStart(mean, size, target) => mean * (n - 1) < target,
         mean * n >= target
  PROVE  n = NextChunk(mean, size, target)
<1> DEFINE least == ItemsToFill(mean, target)
           start == SearchStart(mean, size, target)
<1>1. /\ least \in Int
      /\ mean * least >= target
      /\ mean * (least - 1) < target
  BY ItemsFill
<1>2. start \in Nat \ {0}
  BY DEF SearchStart
<1>3. NextChunk(mean, size, target) = IF start >= least THEN start ELSE least
  BY DEF NextChunk, LargerOf
<1>4. n >= start /\ (n > start => mean * (n - 1) < target)
  OBVIOUS
<1> HIDE DEF least, start
<1>5. ASSUME NEW j \in Int, NEW k \in Int, mean * j < mean * k
      PROVE  j < k
  <2>1. j >= k => mean * j >= mean * k
    OBVIOUS
  <2>2. mean * j \in Int /\ mean * k \in Int
    OBVIOUS
  <2> QED
    BY <1>5, <2>1, <2>2
<1>6. mean * n \in Int /\ mean * (n - 1) \in Int /\ mean * least \in Int
      /\ mean * (least - 1) \in Int
  BY <1>1
<1>7. least - 1 < n
  <2>1. mean * (least - 1) < mean * n
    BY <1>1, <1>6
  <2> QED
    BY <1>1, <1>5, <2>1
<1>8. CASE n > start
  <2>1. mean * (n - 1) < mean * least
    BY <1>1, <1>4, <1>6, <1>8
  <2>2. n - 1 < least
    BY <1>1, <1>5, <2>1
  <2> QED
    BY <1>1, <1>2, <1>3, <1>7, <1>8, <2>2
<1>9. CASE ~(n > start)
  BY <1>1, <1>2, <1>3, <1>4, <1>7, <1>9
<1> QED
  BY <1>8, <1>9

(* Every step of the loop keeps LoopInv. *)
LEMMA LoopStep ==
  ASSUME LoopInv, [LoopNext]_loopVars
  PROVE  LoopInv'
<1> USE DEF LoopInv, LoopTypeOK
<1>1. meanDuration \in Nat \ {0} /\ targetChunkTime \in Nat
  BY LoopAssumption
<1>2. CASE TooLong
  <2>1. NextChunk(meanDuration, chunkBefore, targetChunkTime) = 1
    BY <1>2 DEF TooLong, NextChunk
  <2> QED
    BY <1>2, <2>1 DEF TooLong, LoopIsNextChunk
<1>3. CASE EnterLoop
  <2>1. SearchStart(meanDuration, chunkBefore, targetChunkTime) \in Nat
    BY DEF SearchStart
  <2> QED
    BY <1>3, <2>1 DEF EnterLoop, LoopIsNextChunk
<1>4. CASE Multiply
  <2>1. SearchStart(meanDuration, chunkBefore, targetChunkTime) \in Nat
    BY DEF SearchStart
  <2>2. /\ counter' = counter + 1 /\ counter' - 1 = counter
        /\ meanDuration * counter < targetChunkTime /\ at = "loop"
        /\ UNCHANGED <<targetChunkTime, meanDuration, numWorkItemsChunk, at, chunkBefore>>
    BY <1>4 DEF Multiply
  <2> QED
    BY <1>1, <2>1, <2>2 DEF LoopIsNextChunk
<1>5. CASE LeaveLoop
  <2>1. /\ at = "loop" /\ meanDuration * counter >= targetChunkTime
        /\ numWorkItemsChunk' = counter /\ at' = "return"
        /\ UNCHANGED <<targetChunkTime, meanDuration, counter, chunkBefore>>
    BY <1>5 DEF LeaveLoop
  <2>2. counter = NextChunk(meanDuration, chunkBefore, targetChunkTime)
    BY <1>1, <2>1, StopsAtNextChunk
  <2>3. counter \in Nat \ {0}
    <3>1. SearchStart(meanDuration, chunkBefore, targetChunkTime) \in Nat \ {0}
      BY DEF SearchStart
    <3> QED
      BY <2>1, <3>1
  <2> QED
    BY <2>1, <2>2, <2>3 DEF LoopIsNextChunk
<1>6. CASE NextCall
  BY <1>6 DEF NextCall, LoopIsNextChunk
<1>7. CASE UNCHANGED loopVars
  BY <1>7 DEF loopVars, LoopIsNextChunk
<1> QED
  BY <1>2, <1>3, <1>4, <1>5, <1>6, <1>7 DEF LoopNext

(* No call has been made. *)
LEMMA LoopInitInv == LoopInit => LoopInv
BY LoopAssumption DEF LoopInit, LoopInv, LoopTypeOK, LoopIsNextChunk

(* The loop that cannot divide one time by another computes the quotient. *)
THEOREM LoopIsNextChunkAlways == LoopSpec => []LoopIsNextChunk
<1>1. LoopInv => LoopIsNextChunk
  BY DEF LoopInv
<1> QED
  BY <1>1, LoopInitInv, LoopStep, PTL DEF LoopSpec

(* The chunks it leaves fill the target time and reach it with their last item,
   or, behind a chunk that fills it exactly, with the last but one. *)
THEOREM ChunkAlwaysFillsTarget == LoopSpec => []ChunkFillsTarget
<1>1. LoopInv => ChunkFillsTarget
  <2> SUFFICES ASSUME LoopInv, at = "return", meanDuration <= targetChunkTime
               PROVE  /\ meanDuration * numWorkItemsChunk >= targetChunkTime
                      /\ \/ meanDuration * (numWorkItemsChunk - 1) < targetChunkTime
                         \/ /\ numWorkItemsChunk = chunkBefore + 1
                            /\ meanDuration * chunkBefore = targetChunkTime
    BY DEF ChunkFillsTarget
  <2>1. /\ meanDuration \in Nat \ {0} /\ targetChunkTime \in Nat
        /\ chunkBefore \in Nat \ {0}
        /\ numWorkItemsChunk = NextChunk(meanDuration, chunkBefore, targetChunkTime)
    BY LoopAssumption DEF LoopInv, LoopTypeOK, LoopIsNextChunk
  <2> QED
    BY <2>1, NextChunkFillsTarget
<1> QED
  BY <1>1, LoopInitInv, LoopStep, PTL DEF LoopSpec

(* What a stream has written never goes past the end and always advances. *)
LEMMA NextFlushAdvances ==
  ASSUME NEW written \in Nat, NEW length \in Nat, written < length
  PROVE  /\ NextFlush(written, length) \in Nat
         /\ written < NextFlush(written, length)
         /\ NextFlush(written, length) <= length
BY FlushAssumption DEF NextFlush

(* The lines of a claimed chunk. *)
LEMMA ClaimedLines ==
  ASSUME NEW w \in Worker, paramsQueue[w] \in Seq(Text)
  PROVE  /\ Claimed(w) \in Seq(Line)
         /\ Len(Claimed(w)) = Len(paramsQueue[w])
         /\ \A k \in 1..Len(paramsQueue[w]) :
              Claimed(w)[k] = [params |-> paramsQueue[w][k], by |-> w]
<1>1. /\ DOMAIN paramsQueue[w] = 1..Len(paramsQueue[w])
      /\ Len(paramsQueue[w]) \in Nat
      /\ \A k \in 1..Len(paramsQueue[w]) : paramsQueue[w][k] \in Text
  BY LenProperties, ElementOfSeq
<1>2. Claimed(w) \in [1..Len(paramsQueue[w]) -> Line]
  BY <1>1 DEF Claimed, Line
<1> QED
  BY <1>1, <1>2 DEF Claimed

(* A claimed chunk behind the lines kept, of which the last has an end or not. *)
LEMMA ContentsLines ==
  ASSUME NEW w \in Worker, paramsQueue[w] \in Seq(Text), paramsQueue[w] # <<>>,
         NEW old \in Seq(Line),
         NEW last \in Nat, last = Len(old), NEW n \in Nat, n = Len(paramsQueue[w])
  PROVE  /\ old \o Claimed(w) \in Seq(Line)
         /\ Len(old \o Claimed(w)) = last + n
         /\ GlueLast(old) \o Tail(Claimed(w)) \in Seq(Line)
         /\ Len(GlueLast(old) \o Tail(Claimed(w))) = last + n - 1
<1> DEFINE glued == GlueLast(old)
           claim == Claimed(w)
           rest == Tail(claim)
           m == n - 1
<1>1. claim \in Seq(Line) /\ Len(claim) = n
  BY ClaimedLines
<1>2. claim # <<>>
  <2>1. n # 0
    BY EmptySeq
  <2> QED
    BY <1>1, <2>1, EmptySeq
<1>3. glued \in Seq(Line) /\ Len(glued) = last
  <2>1. old \in [1..last -> Line]
    BY LenProperties
  <2>2. ASSUME last \in 1..last PROVE Glued(old[last]) \in Line
    <3>1. old[last] \in Line
      BY <2>1, <2>2
    <3> QED
      BY <3>1 DEF Glued, Line, Text
  <2>3. glued \in [1..last -> Line]
    BY <2>1, <2>2 DEF GlueLast
  <2> QED
    BY <1>1, <2>3
<1>4. rest \in Seq(Line) /\ Len(rest) = m
  BY <1>1, <1>2, HeadTailProperties
<1> HIDE DEF glued, claim, rest, m
<1>5. old \o claim \in Seq(Line) /\ Len(old \o claim) = last + n
  <2>1. old \o claim \in Seq(Line) /\ Len(old \o claim) = Len(old) + Len(claim)
    BY <1>1, ConcatProperties
  <2> QED
    BY <1>1, <2>1
<1>6. glued \o rest \in Seq(Line) /\ Len(glued \o rest) = last + m
  BY <1>3, <1>4, ConcatProperties
<1>7. last + m = last + n - 1
  BY DEF m
<1> QED
  BY <1>5, <1>6, <1>7 DEF glued, claim, rest

(* The file getWork writes back. *)
LEMMA NewContentsType ==
  ASSUME NEW w \in Worker, paramsQueue[w] \in Seq(Text), kept[w] \in Seq(Line),
         paramsQueue[w] # <<>>,
         NEW last \in Nat, last = Len(kept[w]), NEW n \in Nat, n = Len(paramsQueue[w])
  PROVE  /\ NewContents(w) \in Seq(Line)
         /\ Len(NewContents(w)) = last + n - (IF Unended(w) THEN 1 ELSE 0)
<1> DEFINE a == kept[w] \o Claimed(w)
           b == GlueLast(kept[w]) \o Tail(Claimed(w))
<1>1. /\ a \in Seq(Line) /\ Len(a) = last + n
      /\ b \in Seq(Line) /\ Len(b) = last + n - 1
  BY ContentsLines
<1>2. NewContents(w) = IF Unended(w) THEN b ELSE a
  BY DEF NewContents
<1> DEFINE c == NewContents(w)
<1> HIDE DEF a, b, c
<1>3. CASE Unended(w)
  <2>1. c = b
    BY <1>2, <1>3 DEF c
  <2> QED
    BY <1>1, <1>3, <2>1 DEF c
<1>4. CASE ~Unended(w)
  <2>1. c = a
    BY <1>2, <1>4 DEF c
  <2>2. last + n - 0 = last + n
    OBVIOUS
  <2> QED
    BY <1>1, <1>4, <2>1, <2>2 DEF c
<1> QED
  BY <1>3, <1>4

(* If the file had an end it is the lines kept, then those claimed. *)
LEMMA NewContentsLines ==
  ASSUME NEW w \in Worker, paramsQueue[w] \in Seq(Text), kept[w] \in Seq(Line),
         ~Unended(w)
  PROVE  /\ NewContents(w) \in Seq(Line)
         /\ Len(NewContents(w)) = Len(kept[w]) + Len(paramsQueue[w])
         /\ \A k \in 1..(Len(kept[w]) + Len(paramsQueue[w])) :
              NewContents(w)[k] =
                IF k <= Len(kept[w]) THEN kept[w][k]
                ELSE [params |-> paramsQueue[w][k - Len(kept[w])], by |-> w]
<1>1. /\ Claimed(w) \in Seq(Line)
      /\ Len(Claimed(w)) = Len(paramsQueue[w])
      /\ \A k \in 1..Len(paramsQueue[w]) :
           Claimed(w)[k] = [params |-> paramsQueue[w][k], by |-> w]
  BY ClaimedLines
<1>2. /\ NewContents(w) \in Seq(Line)
      /\ Len(NewContents(w)) = Len(kept[w]) + Len(Claimed(w))
      /\ \A k \in 1..(Len(kept[w]) + Len(Claimed(w))) :
           NewContents(w)[k] = IF k <= Len(kept[w]) THEN kept[w][k]
                               ELSE Claimed(w)[k - Len(kept[w])]
  BY <1>1, ConcatProperties DEF NewContents
<1> DEFINE a == Len(kept[w])
           b == Len(paramsQueue[w])
<1>3. a \in Nat /\ b \in Nat
  BY LenProperties
<1>4. /\ Len(NewContents(w)) = a + b
      /\ \A k \in 1..(a + b) :
           NewContents(w)[k] = IF k <= a THEN kept[w][k] ELSE Claimed(w)[k - a]
  BY <1>1, <1>2
<1>5. \A k \in 1..b : Claimed(w)[k] = [params |-> paramsQueue[w][k], by |-> w]
  BY <1>1
<1> HIDE DEF a, b
<1>6. \A k \in 1..(a + b) :
        NewContents(w)[k] = IF k <= a THEN kept[w][k]
                            ELSE [params |-> paramsQueue[w][k - a], by |-> w]
  <2> TAKE k \in 1..(a + b)
  <2>1. CASE k <= a
    BY <1>4, <2>1
  <2>2. CASE k > a
    <3>1. k - a \in 1..b
      BY <1>3, <2>2
    <3>2. NewContents(w)[k] = Claimed(w)[k - a]
      BY <1>3, <1>4, <2>2
    <3>3. Claimed(w)[k - a] = [params |-> paramsQueue[w][k - a], by |-> w]
      BY <1>5, <3>1
    <3> QED
      BY <1>3, <2>2, <3>2, <3>3
  <2> QED
    BY <1>3, <2>1, <2>2
<1> QED
  BY <1>2, <1>4, <1>6, Zenon DEF a, b

(* A piece of a sequence without repetitions: it has none either, and only what
   stands between its ends. *)
LEMMA PieceInjection ==
  ASSUME NEW S, NEW seq \in Seq(S), IsInjective(seq),
         NEW a \in Nat, NEW b \in Nat, a < b, b <= Len(seq)
  PROVE  /\ SubSeq(seq, a + 1, b) \in Seq(S)
         /\ IsInjective(SubSeq(seq, a + 1, b))
         /\ Range(SubSeq(seq, a + 1, b)) = {seq[j] : j \in (a + 1)..b}
<1> DEFINE piece == SubSeq(seq, a + 1, b)
           n == Len(seq)
<1>1. n \in Nat /\ DOMAIN seq = 1..n /\ \A i \in 1..n : seq[i] \in S
  BY LenProperties, ElementOfSeq
<1>2. \A i \in (a + 1)..b : i \in 1..n
  BY <1>1
<1>3. /\ piece \in Seq(S)
      /\ Len(piece) = IF a + 1 <= b THEN b - (a + 1) + 1 ELSE 0
      /\ \A i \in 1..(b - (a + 1) + 1) : piece[i] = seq[a + 1 + i - 1]
  <2>1. \A i \in (a + 1)..b : seq[i] \in S
    BY <1>1, <1>2
  <2> QED
    BY <2>1, SubSeqProperties
<1>4. DOMAIN piece = 1..(b - a) /\ \A i \in 1..(b - a) : piece[i] = seq[a + i]
  <2>1. Len(piece) = b - a
    BY <1>3
  <2>2. DOMAIN piece = 1..(b - a)
    BY <1>3, <2>1, LenProperties
  <2> HIDE DEF piece
  <2>3. \A i \in 1..(b - a) : i \in 1..(b - (a + 1) + 1) /\ a + 1 + i - 1 = a + i
    OBVIOUS
  <2> QED
    BY <1>3, <2>2, <2>3
<1> HIDE DEF piece, n
<1>5. \A i \in 1..(b - a) : a + i \in 1..n
  BY <1>1 DEF n
<1>6. IsInjective(piece)
  <2> SUFFICES ASSUME NEW i \in 1..(b - a), NEW j \in 1..(b - a), piece[i] = piece[j]
               PROVE  i = j
    BY <1>4 DEF IsInjective
  <2>1. a + i = a + j
    BY <1>1, <1>4, <1>5 DEF IsInjective
  <2> QED
    BY <2>1
<1>7. Range(piece) = {seq[j] : j \in (a + 1)..b}
  <2>1. \A i \in 1..(b - a) : a + i \in (a + 1)..b
    OBVIOUS
  <2>2. \A j \in (a + 1)..b : j - a \in 1..(b - a) /\ a + (j - a) = j
    OBVIOUS
  <2>3. \A x \in Range(piece) : x \in {seq[j] : j \in (a + 1)..b}
    BY <1>4, <2>1 DEF Range
  <2>4. \A j \in (a + 1)..b : seq[j] \in Range(piece)
    BY <1>4, <2>2 DEF Range
  <2> QED
    BY <2>3, <2>4
<1> QED
  BY <1>3, <1>6, <1>7 DEF piece

(* The lines a write() completes in the done file. *)
LEMMA AppendedLines ==
  ASSUME NEW w \in Worker, doneParams[w] \in Seq(Text), flushed[w] \in Nat,
         NEW upto \in Nat, flushed[w] < upto, upto <= Len(doneParams[w])
  PROVE  Appended(w, upto) \in Seq(Text \cup {Joined})
<1> DEFINE seg == SubSeq(doneParams[w], flushed[w] + 1, upto)
<1>1. seg \in Seq(Text) /\ seg # <<>>
  <2>1. \A i \in (flushed[w] + 1)..upto : doneParams[w][i] \in Text
    BY ElementOfSeq, LenProperties
  <2>2. /\ seg \in Seq(Text)
        /\ Len(seg) = IF flushed[w] + 1 <= upto THEN upto - (flushed[w] + 1) + 1 ELSE 0
    BY <2>1, SubSeqProperties
  <2>3. Len(seg) # 0
    BY <2>2
  <2> QED
    BY <2>2, <2>3, EmptySeq
<1> HIDE DEF seg
<1>2. seg \in Seq(Text \cup {Joined})
  BY <1>1
<1>3. <<Joined>> \in Seq(Text \cup {Joined}) /\ Tail(seg) \in Seq(Text \cup {Joined})
  BY <1>1, <1>2, HeadTailProperties
<1>4. <<Joined>> \o Tail(seg) \in Seq(Text \cup {Joined})
  BY <1>3, ConcatProperties
<1> QED
  BY <1>2, <1>4 DEF Appended, seg

(***************************************************************************)
(* Type correctness.  That the chunk size stays positive and that a file   *)
(* rewritten in place keeps its length needs, for each process, what holds *)
(* where it stands.                                                        *)
(***************************************************************************)

(* What getWork has read of the file it has kept or claimed, line by line. *)
LinesAccounted(w) ==
  /\ pc[w] = "reading" =>
       /\ pos[w] <= Len(queue)
       /\ Len(kept[w]) + Len(paramsQueue[w]) = pos[w]
  /\ pc[w] = "rewriting" =>
       /\ flushed[w] < Len(NewContents(w))
       /\ Len(kept[w]) + Len(paramsQueue[w]) = Len(queue)
       /\ paramsQueue[w] # <<>>
       /\ Unended(w) => spoiled

LocksHeld(w) ==
  /\ pc[w] \in {"reading", "rewriting"} => queueLock = w
  /\ pc[w] = "appending" => doneLock = w

(* Claims are held only from getWork to the end of the chunk. *)
ClaimsHeld(w) ==
  paramsQueue[w] # <<>> => pc[w] \in {"reading", "rewriting", "work"}

(* A chunk that has been worked off has been timed and is to be recorded. *)
ChunkTimed(w) ==
  /\ items[w] <= busy[w]
  /\ pc[w] \in {"appending", "resize"} => items[w] > 0
  /\ (pc[w] = "work" /\ paramsQueue[w] = <<>>) =>
       items[w] > 0 /\ doneParams[w] # <<>>
  /\ pc[w] = "appending" => flushed[w] < Len(doneParams[w])

PhaseInv(w) ==
  LinesAccounted(w) /\ LocksHeld(w) /\ ClaimsHeld(w) /\ ChunkTimed(w)

TypeInv == TypeOK /\ \A w \in Worker : PhaseInv(w)

(* What a step of another process leaves alone. *)
Untouched(w) ==
  /\ pc'[w] = pc[w]
  /\ pos'[w] = pos[w]
  /\ kept'[w] = kept[w]
  /\ flushed'[w] = flushed[w]
  /\ paramsQueue'[w] = paramsQueue[w]
  /\ doneParams'[w] = doneParams[w]
  /\ items'[w] = items[w]
  /\ busy'[w] = busy[w]
  /\ queueLock = w => queueLock' = w
  /\ doneLock = w => doneLock' = w

(* The queue file does not get shorter or longer under its reader. *)
FileStays(w) ==
  pc[w] \in {"reading", "rewriting"} =>
    Len(queue') = Len(queue) /\ ended' = ended /\ (spoiled => spoiled')

(* The step of another process that keeps the file this one reads keeps the
   phase of this one. *)
LEMMA PhaseFrame ==
  ASSUME NEW w \in Worker, PhaseInv(w), Untouched(w), FileStays(w)
  PROVE  PhaseInv(w)'
<1>1. LinesAccounted(w)'
  <2>1. CASE pc[w] \in {"reading", "rewriting"}
    <3>1. Unended(w)' = Unended(w)
      BY <2>1 DEF Unended, Untouched, FileStays
    <3>2. NewContents(w)' = NewContents(w)
      BY <3>1 DEF NewContents, Claimed, Untouched
    <3> QED
      BY <2>1, <3>1, <3>2 DEF PhaseInv, LinesAccounted, Untouched, FileStays
  <2>2. CASE pc[w] \notin {"reading", "rewriting"}
    BY <2>2 DEF Untouched, LinesAccounted
  <2> QED
    BY <2>1, <2>2
<1> QED
  BY <1>1 DEF PhaseInv, Untouched, LocksHeld, ClaimsHeld, ChunkTimed

(* The empty sequence is a list of parameter sets and of lines. *)
LEMMA EmptySeqs ==
  /\ <<>> \in Seq(Text) /\ <<>> \in Seq(Text \cup {Joined}) /\ <<>> \in Seq(Line)
  /\ Len(<<>>) = 0
BY EmptySeq

(* The initial states are well typed. *)
LEMMA InitTypeInv == Init => TypeInv
<1> SUFFICES ASSUME Init PROVE TypeInv
  OBVIOUS
<1>1. queue \in Seq(Line)
  BY QueueAssumption DEF Init
<1>2. TypeOK
  <2>1. runs \in [Text -> Nat] /\ chunk \in [Worker -> Nat \ {0}]
    BY ChunkAssumption DEF Init
  <2>2. /\ kept \in [Worker -> Seq(Line)]
        /\ paramsQueue \in [Worker -> Seq(Text)]
        /\ doneParams \in [Worker -> Seq(Text)]
        /\ done \in Seq(Text \cup {Joined})
    BY EmptySeqs DEF Init
  <2> QED
    BY <1>1, <2>1, <2>2 DEF Init, TypeOK
<1>3. ASSUME NEW w \in Worker PROVE PhaseInv(w)
  BY DEF Init, PhaseInv, LinesAccounted, LocksHeld, ClaimsHeld, ChunkTimed
<1> QED
  BY <1>2, <1>3 DEF TypeInv

(* Every action keeps the types. *)
LEMMA NextTypeInv == TypeInv /\ [Next]_vars => TypeInv'
<1> SUFFICES ASSUME TypeInv, [Next]_vars PROVE TypeInv'
  OBVIOUS
<1> USE DEF TypeInv
<1>0. \A w \in Worker :
        /\ kept[w] \in Seq(Line) /\ Len(kept[w]) \in Nat
        /\ paramsQueue[w] \in Seq(Text) /\ Len(paramsQueue[w]) \in Nat
        /\ doneParams[w] \in Seq(Text) /\ Len(doneParams[w]) \in Nat
        /\ Len(queue) \in Nat
  BY LenProperties DEF TypeOK
<1>1. ASSUME NEW w \in Worker, LockQueue(w) PROVE TypeInv'
  <2>1. TypeOK'
    BY <1>1, EmptySeqs DEF TypeOK, LockQueue, timing, history
  <2>2. PhaseInv(w)'
    <3>1. /\ pc'[w] = "reading" /\ queueLock' = w
          /\ pos'[w] = 0 /\ kept'[w] = <<>> /\ paramsQueue'[w] = <<>>
      BY <1>1 DEF TypeOK, LockQueue, PhaseInv, ClaimsHeld
    <3>2. Len(queue') \in Nat /\ Len(kept'[w]) = 0 /\ Len(paramsQueue'[w]) = 0
      BY <1>0, <1>1, <3>1, EmptySeqs DEF LockQueue
    <3>3. items'[w] <= busy'[w]
      BY <1>1 DEF LockQueue, timing, PhaseInv, ChunkTimed
    <3> QED
      BY <3>1, <3>2, <3>3 DEF PhaseInv, LinesAccounted, LocksHeld, ClaimsHeld, ChunkTimed
  <2>3. ASSUME NEW v \in Worker \ {w} PROVE PhaseInv(v)'
    <3>1. Untouched(v)
      BY <1>1, WorkerAssumption DEF TypeOK, LockQueue, Untouched, timing, history
    <3>2. FileStays(v)
      BY <1>1 DEF TypeOK, LockQueue, timing, history, FileStays
    <3> QED
      BY <3>1, <3>2, PhaseFrame
  <2> QED
    BY <2>1, <2>2, <2>3
<1>2. ASSUME NEW w \in Worker, ReadWork(w) PROVE TypeInv'
  <2>0. /\ queue[pos[w] + 1].params \in Text
        /\ Append(paramsQueue[w], queue[pos[w] + 1].params) \in Seq(Text)
        /\ Append(paramsQueue[w], queue[pos[w] + 1].params) # <<>>
        /\ Len(Append(paramsQueue[w], queue[pos[w] + 1].params)) = Len(paramsQueue[w]) + 1
    <3>1. queue[pos[w] + 1] \in Line
      BY <1>0, <1>2, ElementOfSeq DEF TypeOK, ReadWork, CanRead
    <3>2. queue[pos[w] + 1].params \in Text
      BY <1>2, <3>1 DEF ReadWork, IsWork, Line
    <3> QED
      BY <1>0, <3>2, AppendProperties
  <2>1. TypeOK'
    <3> DEFINE longer == Append(paramsQueue[w], queue[pos[w] + 1].params)
    <3>1. paramsQueue' = [paramsQueue EXCEPT ![w] = longer]
      BY <1>2 DEF ReadWork
    <3>2. longer \in Seq(Text)
      BY <2>0
    <3> HIDE DEF longer
    <3>3. paramsQueue' \in [Worker -> Seq(Text)]
      BY <3>1, <3>2 DEF TypeOK
    <3>4. pos' \in [Worker -> Nat]
      BY <1>2 DEF TypeOK, ReadWork
    <3> QED
      BY <1>2, <3>3, <3>4 DEF TypeOK, ReadWork, files, timing, history
  <2>2. PhaseInv(w)'
    BY <1>0, <1>2, <2>0 DEF TypeOK, ReadWork, CanRead, files, timing, history, PhaseInv, LinesAccounted, LocksHeld, ClaimsHeld, ChunkTimed
  <2>3. ASSUME NEW v \in Worker \ {w} PROVE PhaseInv(v)'
    <3>1. Untouched(v)
      BY <1>2 DEF TypeOK, ReadWork, Untouched, files, timing, history
    <3>2. FileStays(v)
      BY <1>2 DEF TypeOK, ReadWork, files, timing, history, FileStays
    <3> QED
      BY <3>1, <3>2, PhaseFrame
  <2> QED
    BY <2>1, <2>2, <2>3
<1>3. ASSUME NEW w \in Worker, ReadOther(w) PROVE TypeInv'
  <2>0. /\ Append(kept[w], queue[pos[w] + 1]) \in Seq(Line)
        /\ Len(Append(kept[w], queue[pos[w] + 1])) = Len(kept[w]) + 1
    <3>1. queue[pos[w] + 1] \in Line
      BY <1>0, <1>3, ElementOfSeq DEF TypeOK, ReadOther, CanRead
    <3> QED
      BY <1>0, <3>1, AppendProperties
  <2>1. TypeOK'
    <3> DEFINE longer == Append(kept[w], queue[pos[w] + 1])
    <3>1. kept' = [kept EXCEPT ![w] = longer]
      BY <1>3 DEF ReadOther
    <3>2. longer \in Seq(Line)
      BY <2>0
    <3> HIDE DEF longer
    <3>3. kept' \in [Worker -> Seq(Line)]
      BY <3>1, <3>2 DEF TypeOK
    <3>4. pos' \in [Worker -> Nat]
      BY <1>3 DEF TypeOK, ReadOther
    <3> QED
      BY <1>3, <3>3, <3>4 DEF TypeOK, ReadOther, files, timing, history
  <2>2. PhaseInv(w)'
    BY <1>0, <1>3, <2>0 DEF TypeOK, ReadOther, CanRead, files, timing, history, PhaseInv, LinesAccounted, LocksHeld, ClaimsHeld, ChunkTimed
  <2>3. ASSUME NEW v \in Worker \ {w} PROVE PhaseInv(v)'
    <3>1. Untouched(v)
      BY <1>3 DEF TypeOK, ReadOther, Untouched, files, timing, history
    <3>2. FileStays(v)
      BY <1>3 DEF TypeOK, ReadOther, files, timing, history, FileStays
    <3> QED
      BY <3>1, <3>2, PhaseFrame
  <2> QED
    BY <2>1, <2>2, <2>3
<1>4. ASSUME NEW w \in Worker, NoWorkLeft(w) PROVE TypeInv'
  <2>1. TypeOK'
    BY <1>4 DEF TypeOK, NoWorkLeft, timing, history
  <2>2. PhaseInv(w)'
    BY <1>0, <1>4 DEF TypeOK, NoWorkLeft, timing, history, PhaseInv, LinesAccounted, LocksHeld, ClaimsHeld, ChunkTimed
  <2>3. ASSUME NEW v \in Worker \ {w} PROVE PhaseInv(v)'
    <3>1. Untouched(v)
      BY <1>4 DEF TypeOK, NoWorkLeft, Untouched, timing, history, PhaseInv, LocksHeld
    <3>2. FileStays(v)
      BY <1>4 DEF TypeOK, NoWorkLeft, timing, history, FileStays
    <3> QED
      BY <3>1, <3>2, PhaseFrame
  <2> QED
    BY <2>1, <2>2, <2>3
<1>5. ASSUME NEW w \in Worker, StartRewrite(w) PROVE TypeInv'
  <2>0. /\ kept[w] \o SubSeq(queue, pos[w] + 1, Len(queue)) \in Seq(Line)
        /\ Len(kept[w] \o SubSeq(queue, pos[w] + 1, Len(queue)))
             = Len(kept[w]) + (Len(queue) - pos[w])
    <3> DEFINE rest == SubSeq(queue, pos[w] + 1, Len(queue))
    <3>1. pos[w] \in Nat /\ pos[w] <= Len(queue)
      BY <1>5 DEF TypeOK, StartRewrite, PhaseInv, LinesAccounted
    <3>2. \A i \in (pos[w] + 1)..Len(queue) : queue[i] \in Line
      BY <1>0, <3>1, ElementOfSeq DEF TypeOK
    <3>3. rest \in Seq(Line)
          /\ Len(rest) = IF pos[w] + 1 <= Len(queue)
                         THEN Len(queue) - (pos[w] + 1) + 1 ELSE 0
      BY <1>0, <3>1, <3>2, SubSeqProperties
    <3>4. Len(rest) = Len(queue) - pos[w]
      BY <1>0, <3>1, <3>3
    <3> HIDE DEF rest
    <3>5. kept[w] \o rest \in Seq(Line) /\ Len(kept[w] \o rest) = Len(kept[w]) + Len(rest)
      BY <1>0, <3>3, ConcatProperties
    <3> QED
      BY <3>4, <3>5 DEF rest
  <2>1. TypeOK'
    BY <1>5, <2>0 DEF TypeOK, StartRewrite, files, timing, history
  <2>2. PhaseInv(w)'
    <3>1. /\ pc[w] = "reading" /\ queueLock = w
          /\ pos[w] \in Nat /\ pos[w] <= Len(queue)
          /\ Len(kept[w]) + Len(paramsQueue[w]) = pos[w]
          /\ items[w] <= busy[w]
          /\ paramsQueue[w] # <<>>
      BY <1>5 DEF TypeOK, StartRewrite, PhaseInv, LinesAccounted, LocksHeld, ClaimsHeld, ChunkTimed
    <3>2. /\ pc'[w] = "rewriting" /\ queueLock' = w /\ flushed'[w] = 0
          /\ kept'[w] = kept[w] \o SubSeq(queue, pos[w] + 1, Len(queue))
          /\ paramsQueue'[w] = paramsQueue[w] /\ queue' = queue
          /\ items'[w] <= busy'[w]
      BY <1>5, <3>1 DEF TypeOK, StartRewrite, files, timing
    <3> DEFINE k == Len(kept[w])
               n == Len(paramsQueue[w])
               l == Len(queue)
               m == Len(kept'[w])
    <3>3. k \in Nat /\ n \in Nat /\ l \in Nat /\ k + n = pos[w] /\ m = k + (l - pos[w])
          /\ pos[w] <= l
      BY <1>0, <2>0, <3>1, <3>2
    <3>4. n # 0
      BY <1>0, <3>1, EmptySeq
    <3> DEFINE all == kept[w] \o SubSeq(queue, pos[w] + 1, Len(queue))
    <3>5. Unended(w)' = Unended(w) /\ (Unended(w)' => spoiled')
      BY <1>5 DEF TypeOK, StartRewrite, files, Unended
    <3>6. Claimed(w)' = Claimed(w)
      BY <3>2 DEF Claimed
    <3>7. NewContents(w)' = IF Unended(w)
                            THEN GlueLast(all) \o Tail(Claimed(w))
                            ELSE all \o Claimed(w)
      BY <3>2, <3>5, <3>6 DEF NewContents
    <3>8. all \in Seq(Line) /\ Len(all) = m
      BY <2>0, <3>2
    <3> HIDE DEF all
    <3>9. Len(NewContents(w)') = m + n - (IF Unended(w) THEN 1 ELSE 0)
      <4>1. /\ Len(all \o Claimed(w)) = m + n
            /\ Len(GlueLast(all) \o Tail(Claimed(w))) = m + n - 1
        <5> DEFINE i == Len(all)
        <5>1. /\ i \in Nat /\ i = Len(all) /\ i = m
              /\ n \in Nat /\ n = Len(paramsQueue[w])
          BY <1>0, <3>3, <3>8
        <5>2. paramsQueue[w] \in Seq(Text) /\ paramsQueue[w] # <<>> /\ all \in Seq(Line)
          BY <1>0, <3>1, <3>8
        <5> HIDE DEF i, m, n
        <5>3. /\ Len(all \o Claimed(w)) = i + n
              /\ Len(GlueLast(all) \o Tail(Claimed(w))) = i + n - 1
          BY <5>1, <5>2, ContentsLines
        <5> QED
          BY <5>1, <5>3
      <4>2. m \in Nat /\ n \in Nat
        BY <1>0, <3>3
      <4> HIDE DEF m, n
      <4> QED
        BY <3>7, <4>1, <4>2
    <3>10. Unended(w) => pos[w] < l
      BY DEF Unended
    <3> HIDE DEF k, n, l, m
    <3>11. m + n = l /\ 0 < Len(NewContents(w)')
      BY <3>1, <3>3, <3>4, <3>9, <3>10
    <3> QED
      BY <3>1, <3>2, <3>5, <3>11 DEF PhaseInv, LinesAccounted, LocksHeld, ClaimsHeld, ChunkTimed, m, n, l
  <2>3. ASSUME NEW v \in Worker \ {w} PROVE PhaseInv(v)'
    <3>1. Untouched(v)
      BY <1>5 DEF TypeOK, StartRewrite, Untouched, files, timing, history
    <3>2. FileStays(v)
      BY <1>5 DEF TypeOK, StartRewrite, files, timing, history, FileStays
    <3> QED
      BY <3>1, <3>2, PhaseFrame
  <2> QED
    BY <2>1, <2>2, <2>3
<1>6. ASSUME NEW w \in Worker, FlushQueue(w) PROVE TypeInv'
  <2> DEFINE text == NewContents(w)
             upto == NextFlush(flushed[w], Len(text))
  <2>a. /\ pc[w] = "rewriting" /\ flushed[w] \in Nat /\ flushed[w] < Len(text)
        /\ text \in Seq(Line) /\ Len(text) \in Nat /\ Len(text) <= Len(queue)
    <3> DEFINE last == Len(kept[w])
               n == Len(paramsQueue[w])
               l == Len(queue)
    <3>1. /\ pc[w] = "rewriting" /\ flushed[w] \in Nat /\ flushed[w] < Len(text)
          /\ last + n = l
          /\ paramsQueue[w] # <<>>
      BY <1>6 DEF TypeOK, FlushQueue, PhaseInv, LinesAccounted
    <3>2. last \in Nat /\ n \in Nat /\ l \in Nat
      BY <1>0
    <3>3. text \in Seq(Line) /\ Len(text) = last + n - (IF Unended(w) THEN 1 ELSE 0)
      BY <1>0, <3>1, <3>2, NewContentsType
    <3>4. Len(text) \in Nat
      BY <3>3, LenProperties
    <3> HIDE DEF text, last, n, l
    <3>5. Len(text) <= l
      BY <3>1, <3>2, <3>3
    <3> QED
      BY <3>1, <3>3, <3>4, <3>5 DEF l
  <2>b. upto \in Nat /\ flushed[w] < upto /\ upto <= Len(text)
    BY <2>a, NextFlushAdvances
  <2>c. /\ queue' \in Seq(Line)
        /\ upto # Len(text) => Len(queue') = Len(queue) /\ ended' = ended
        /\ ended' \in BOOLEAN
    <3>1. /\ \A k \in 1..Len(text) : text[k] \in Line
          /\ \A k \in 1..Len(queue) : queue[k] \in Line
      BY <1>0, <2>a, ElementOfSeq DEF TypeOK
    <3>2. DOMAIN queue = 1..Len(queue) /\ DOMAIN text = 1..Len(text)
      BY <2>a, LenProperties DEF TypeOK
    <3>3. /\ queue' = [k \in (IF upto = Len(text) THEN DOMAIN text ELSE DOMAIN queue) |->
                         IF k <= upto THEN text[k] ELSE queue[k]]
          /\ ended' = (ended \/ upto = Len(text))
      BY <1>6 DEF FlushQueue
    <3> HIDE DEF text, upto
    <3>4. CASE upto = Len(text)
      <4>1. queue' \in [1..Len(text) -> Line]
        BY <2>a, <3>1, <3>2, <3>3, <3>4
      <4> QED
        BY <2>a, <3>3, <3>4, <4>1
    <3>5. CASE upto # Len(text)
      <4>1. queue' = [k \in 1..Len(queue) |-> IF k <= upto THEN text[k] ELSE queue[k]]
        BY <3>2, <3>3, <3>5
      <4>2. \A k \in 1..Len(queue) : k <= upto => k \in 1..Len(text)
        BY <1>0, <2>a, <2>b
      <4>3. queue' \in [1..Len(queue) -> Line]
        BY <3>1, <4>1, <4>2
      <4>4. queue' \in Seq(Line) /\ Len(queue') = Len(queue)
        BY <1>0, <4>3
      <4> QED
        BY <3>3, <3>5, <4>4 DEF TypeOK
    <3> QED
      BY <3>4, <3>5
  <2>1. TypeOK'
    BY <1>6, <2>b, <2>c DEF TypeOK, FlushQueue, timing, history
  <2>2. PhaseInv(w)'
    <3>1. CASE upto = Len(text)
      BY <1>0, <1>6, <2>a, <3>1 DEF TypeOK, FlushQueue, timing, history, PhaseInv, LinesAccounted, LocksHeld, ClaimsHeld, ChunkTimed
    <3>2. CASE upto # Len(text)
      <4>1. /\ pc'[w] = "rewriting" /\ queueLock' = w /\ flushed'[w] = upto
            /\ kept'[w] = kept[w] /\ paramsQueue'[w] = paramsQueue[w] /\ pos' = pos
            /\ items'[w] = items[w] /\ busy'[w] = busy[w] /\ spoiled' = spoiled
        BY <1>6, <2>a, <3>2 DEF TypeOK, FlushQueue, timing, history, PhaseInv, LocksHeld
      <4>2. upto < Len(text)
        BY <2>a, <2>b, <3>2
      <4>3. Unended(w)' = Unended(w)
        BY <2>c, <3>2, <4>1 DEF Unended
      <4>4. NewContents(w)' = text
        BY <4>1, <4>3 DEF NewContents, Claimed
      <4> HIDE DEF upto, text
      <4> QED
        BY <2>a, <2>c, <3>2, <4>1, <4>2, <4>3, <4>4 DEF PhaseInv, LinesAccounted, LocksHeld, ClaimsHeld, ChunkTimed
    <3> QED
      BY <3>1, <3>2
  <2>3. ASSUME NEW v \in Worker \ {w} PROVE PhaseInv(v)'
    <3>1. Untouched(v)
      BY <1>6 DEF TypeOK, FlushQueue, Untouched, timing, history, PhaseInv, LocksHeld
    <3>2. FileStays(v)
      BY <2>a DEF FileStays, PhaseInv, LocksHeld
    <3> QED
      BY <3>1, <3>2, PhaseFrame
  <2> QED
    BY <2>1, <2>2, <2>3
<1>7. ASSUME NEW w \in Worker, NEW duration \in Durations, RunItem(w, duration) PROVE TypeInv'
  <2>0. /\ Head(paramsQueue[w]) \in Text
        /\ Tail(paramsQueue[w]) \in Seq(Text)
        /\ Append(doneParams[w], Head(paramsQueue[w])) \in Seq(Text)
        /\ Append(doneParams[w], Head(paramsQueue[w])) # <<>>
    <3>1. Head(paramsQueue[w]) \in Text /\ Tail(paramsQueue[w]) \in Seq(Text)
      BY <1>0, <1>7, HeadTailProperties DEF RunItem
    <3> QED
      BY <1>0, <3>1, AppendProperties
  <2>d. duration \in Nat \ {0}
    BY DurationAssumption
  <2>1. TypeOK'
    <3> DEFINE set == Head(paramsQueue[w])
               rest == Tail(paramsQueue[w])
               longer == Append(doneParams[w], set)
    <3>1. /\ paramsQueue' = [paramsQueue EXCEPT ![w] = rest]
          /\ doneParams' = [doneParams EXCEPT ![w] = longer]
          /\ runs' = [runs EXCEPT ![set] = @ + 1]
      BY <1>7 DEF RunItem
    <3>2. set \in Text /\ rest \in Seq(Text) /\ longer \in Seq(Text)
      BY <2>0
    <3> HIDE DEF set, rest, longer
    <3>3. /\ paramsQueue' \in [Worker -> Seq(Text)]
          /\ doneParams' \in [Worker -> Seq(Text)]
      BY <3>1, <3>2 DEF TypeOK
    <3>4. runs' \in [Text -> Nat]
      <4>1. runs \in [Text -> Nat]
        BY DEF TypeOK
      <4> QED
        BY <3>1, <3>2, <4>1
    <3>5. items' \in [Worker -> Nat]
      <4>1. items \in [Worker -> Nat]
        BY DEF TypeOK
      <4> QED
        BY <1>7, <4>1 DEF RunItem
    <3>6. busy' \in [Worker -> Nat]
      <4>1. busy \in [Worker -> Nat]
        BY DEF TypeOK
      <4> QED
        BY <1>7, <2>d, <4>1 DEF RunItem
    <3> QED
      BY <1>7, <3>3, <3>4, <3>5, <3>6 DEF TypeOK, RunItem, files
  <2>2. PhaseInv(w)'
    <3>1. pc[w] = "work" /\ pc'[w] = "work"
      BY <1>7 DEF RunItem
    <3>2. doneParams'[w] # <<>>
      BY <1>7, <2>0 DEF TypeOK, RunItem
    <3>3. items'[w] = items[w] + 1 /\ busy'[w] = busy[w] + duration
      BY <1>7 DEF TypeOK, RunItem
    <3>4. /\ items[w] \in Nat /\ busy[w] \in Nat /\ items[w] <= busy[w]
      BY DEF TypeOK, PhaseInv, ChunkTimed
    <3>5. items'[w] <= busy'[w] /\ items'[w] > 0
      BY <2>d, <3>3, <3>4
    <3> QED
      BY <3>1, <3>2, <3>5 DEF PhaseInv, LinesAccounted, LocksHeld, ClaimsHeld, ChunkTimed
  <2>3. ASSUME NEW v \in Worker \ {w} PROVE PhaseInv(v)'
    <3>1. Untouched(v)
      BY <1>7 DEF TypeOK, RunItem, Untouched, files
    <3>2. FileStays(v)
      BY <1>7 DEF TypeOK, RunItem, files, FileStays
    <3> QED
      BY <3>1, <3>2, PhaseFrame
  <2> QED
    BY <2>1, <2>2, <2>3
<1>8. ASSUME NEW w \in Worker, NoDoneFile(w) PROVE TypeInv'
  <2>1. TypeOK'
    BY <1>8 DEF TypeOK, NoDoneFile, files, timing, history
  <2>2. PhaseInv(w)'
    BY <1>0, <1>8 DEF TypeOK, NoDoneFile, files, timing, history, PhaseInv, LinesAccounted, LocksHeld, ClaimsHeld, ChunkTimed
  <2>3. ASSUME NEW v \in Worker \ {w} PROVE PhaseInv(v)'
    <3>1. Untouched(v)
      BY <1>8 DEF TypeOK, NoDoneFile, Untouched, files, timing, history
    <3>2. FileStays(v)
      BY <1>8 DEF TypeOK, NoDoneFile, files, timing, history, FileStays
    <3> QED
      BY <3>1, <3>2, PhaseFrame
  <2> QED
    BY <2>1, <2>2, <2>3
<1>9. ASSUME NEW w \in Worker, LockDone(w) PROVE TypeInv'
  <2>1. TypeOK'
    BY <1>9 DEF TypeOK, LockDone, timing, history
  <2>2. PhaseInv(w)'
    BY <1>0, <1>9, EmptySeq DEF TypeOK, LockDone, timing, history, PhaseInv, LinesAccounted, LocksHeld, ClaimsHeld, ChunkTimed
  <2>3. ASSUME NEW v \in Worker \ {w} PROVE PhaseInv(v)'
    <3>1. Untouched(v)
      BY <1>9, WorkerAssumption DEF TypeOK, LockDone, Untouched, timing, history
    <3>2. FileStays(v)
      BY <1>9 DEF TypeOK, LockDone, timing, history, FileStays
    <3> QED
      BY <3>1, <3>2, PhaseFrame
  <2> QED
    BY <2>1, <2>2, <2>3
<1>10. ASSUME NEW w \in Worker, FlushDone(w) PROVE TypeInv'
  <2> DEFINE upto == NextFlush(flushed[w], Len(doneParams[w]))
  <2>a. pc[w] = "appending" /\ flushed[w] \in Nat /\ flushed[w] < Len(doneParams[w])
    BY <1>10 DEF TypeOK, FlushDone, PhaseInv, ChunkTimed
  <2>b. upto \in Nat /\ flushed[w] < upto /\ upto <= Len(doneParams[w])
    BY <1>0, <2>a, NextFlushAdvances
  <2>c. done' \in Seq(Text \cup {Joined}) /\ doneHalf' \in BOOLEAN
    <3>1. /\ Appended(w, upto) \in Seq(Text \cup {Joined})
      BY <1>0, <2>a, <2>b, AppendedLines
    <3> HIDE DEF upto
    <3>2. done \o Appended(w, upto) \in Seq(Text \cup {Joined})
      BY <3>1, ConcatProperties DEF TypeOK
    <3> QED
      BY <1>10, <3>2 DEF FlushDone, upto
  <2>1. TypeOK'
    BY <1>10, <2>b, <2>c, EmptySeqs DEF TypeOK, FlushDone, timing, history
  <2>2. PhaseInv(w)'
    <3>1. CASE upto = Len(doneParams[w])
      BY <1>0, <1>10, <2>a, <3>1 DEF TypeOK, FlushDone, timing, history, PhaseInv, LinesAccounted, LocksHeld, ClaimsHeld, ChunkTimed
    <3>2. CASE upto # Len(doneParams[w])
      <4>1. /\ pc'[w] = "appending" /\ doneLock' = w /\ flushed'[w] = upto
            /\ doneParams'[w] = doneParams[w] /\ paramsQueue'[w] = paramsQueue[w]
            /\ items'[w] = items[w] /\ busy'[w] = busy[w]
        BY <1>10, <2>a, <3>2 DEF TypeOK, FlushDone, timing, PhaseInv, LocksHeld
      <4>2. upto < Len(doneParams[w])
        BY <1>0, <2>b, <3>2
      <4> HIDE DEF upto
      <4> QED
        BY <2>a, <4>1, <4>2 DEF PhaseInv, LinesAccounted, LocksHeld, ClaimsHeld, ChunkTimed
    <3> QED
      BY <3>1, <3>2
  <2>3. ASSUME NEW v \in Worker \ {w} PROVE PhaseInv(v)'
    <3>1. Untouched(v)
      BY <1>10 DEF TypeOK, FlushDone, Untouched, timing, history, PhaseInv, LocksHeld
    <3>2. FileStays(v)
      BY <1>10 DEF TypeOK, FlushDone, timing, history, FileStays
    <3> QED
      BY <3>1, <3>2, PhaseFrame
  <2> QED
    BY <2>1, <2>2, <2>3
<1>11. ASSUME NEW w \in Worker, ResizeChunk(w) PROVE TypeInv'
  <2>0. NextChunk(MeanDuration(busy[w], items[w]), chunk[w], TargetTime) \in Nat \ {0}
    BY <1>11, NextChunkPositive DEF TypeOK, ResizeChunk, PhaseInv, ChunkTimed
  <2>1. TypeOK'
    BY <1>11, <2>0 DEF TypeOK, ResizeChunk, files, history
  <2>2. PhaseInv(w)'
    BY <1>0, <1>11 DEF TypeOK, ResizeChunk, files, history, PhaseInv, LinesAccounted, LocksHeld, ClaimsHeld, ChunkTimed
  <2>3. ASSUME NEW v \in Worker \ {w} PROVE PhaseInv(v)'
    <3>1. Untouched(v)
      BY <1>11 DEF TypeOK, ResizeChunk, Untouched, files, history
    <3>2. FileStays(v)
      BY <1>11 DEF TypeOK, ResizeChunk, files, history, FileStays
    <3> QED
      BY <3>1, <3>2, PhaseFrame
  <2> QED
    BY <2>1, <2>2, <2>3
<1>12. CASE CreateDoneFile
  <2>1. TypeOK'
    BY <1>12 DEF TypeOK, CreateDoneFile, timing, history
  <2>2. ASSUME NEW v \in Worker PROVE PhaseInv(v)'
    BY <1>12, PhaseFrame DEF CreateDoneFile, Untouched, FileStays, history, timing
  <2> QED
    BY <2>1, <2>2
<1>13. ASSUME NEW w \in Worker, Crash(w) PROVE TypeInv'
  <2>1. TypeOK'
    <3>1. /\ kept' \in [Worker -> Seq(Line)]
          /\ paramsQueue' \in [Worker -> Seq(Text)]
          /\ doneParams' \in [Worker -> Seq(Text)]
      BY <1>13, EmptySeqs DEF TypeOK, Crash
    <3>2. spoiled' \in BOOLEAN /\ crashes' \in Nat
      BY <1>13 DEF TypeOK, Crash
    <3>3. /\ queueLock' \in Worker \cup {NoWorker}
          /\ doneLock' \in Worker \cup {NoWorker}
      BY <1>13 DEF TypeOK, Crash, Release
    <3> QED
      BY <1>13, <3>1, <3>2, <3>3 DEF TypeOK, Crash, timing
  <2>2. PhaseInv(w)'
    BY <1>0, <1>13, EmptySeqs DEF TypeOK, Crash, Release, timing, PhaseInv, LinesAccounted, LocksHeld, ClaimsHeld, ChunkTimed
  <2>3. ASSUME NEW v \in Worker \ {w} PROVE PhaseInv(v)'
    <3>1. Untouched(v)
      BY <1>13 DEF TypeOK, Crash, Untouched, Release, timing
    <3>2. FileStays(v)
      BY <1>13 DEF TypeOK, Crash, Release, timing, FileStays
    <3> QED
      BY <3>1, <3>2, PhaseFrame
  <2> QED
    BY <2>1, <2>2, <2>3
<1>14. ASSUME NEW w \in Worker, Restart(w) PROVE TypeInv'
  <2>1. TypeOK'
    BY <1>14, ChunkAssumption DEF TypeOK, Restart, files, history
  <2>2. PhaseInv(w)'
    <3>1. /\ pc'[w] = "getWork" /\ paramsQueue'[w] = <<>>
          /\ items'[w] = 0 /\ busy'[w] = 0
      BY <1>14 DEF TypeOK, Restart, PhaseInv, ClaimsHeld
    <3> QED
      BY <3>1 DEF PhaseInv, LinesAccounted, LocksHeld, ClaimsHeld, ChunkTimed
  <2>3. ASSUME NEW v \in Worker \ {w} PROVE PhaseInv(v)'
    <3>1. Untouched(v)
      BY <1>14 DEF TypeOK, Restart, Untouched, files, history
    <3>2. FileStays(v)
      BY <1>14 DEF TypeOK, Restart, files, history, FileStays
    <3> QED
      BY <3>1, <3>2, PhaseFrame
  <2> QED
    BY <2>1, <2>2, <2>3
<1>15. CASE UNCHANGED vars
  <2>1. TypeOK'
    BY <1>15 DEF TypeOK, vars
  <2>2. ASSUME NEW v \in Worker PROVE PhaseInv(v)'
    BY <1>15, PhaseFrame DEF vars, Untouched, FileStays
  <2> QED
    BY <2>1, <2>2
<1> QED
  BY <1>1, <1>2, <1>3, <1>4, <1>5, <1>6, <1>7, <1>8, <1>9, <1>10, <1>11, <1>12,
     <1>13, <1>14, <1>15 DEF Next, Step

(* In every reachable state the variables have their types, and the chunk a
   process takes next holds at least one parameter set. *)
THEOREM TypeCorrect == Spec => []TypeOK
<1>1. TypeInv => TypeOK
  BY DEF TypeInv
<1> QED
  BY <1>1, InitTypeInv, NextTypeInv, PTL DEF Spec

(***************************************************************************)
(* One owner for every parameter set.  OneOwner is not inductive: it says  *)
(* nothing of what getWork has read and not yet written.  OwnerInv adds    *)
(* where the lines read and kept come from, that the file about to be      *)
(* written names no set twice, and that until its first write() the file   *)
(* is still the one that was read.                                         *)
(***************************************************************************)

Held(w) == Range(paramsQueue[w])

(* No process has begun to overwrite the file it read. *)
QueueIntact == \A w \in Worker : pc[w] = "rewriting" => flushed[w] = 0

ClaimsDisjoint ==
  /\ \A p \in Text : runs[p] <= 1
  /\ \A w \in Worker : IsInjective(paramsQueue[w])
  /\ \A w \in Worker : \A p \in Held(w) : runs[p] = 0
  /\ \A w \in Worker : \A v \in Worker \ {w} : Held(v) \cap Held(w) = {}

(* A set on a work line has not been run, and is at most being claimed. *)
QueueUnclaimed ==
  /\ Distinct(queue)
  /\ \A k \in DOMAIN queue : IsWork(queue[k]) =>
       /\ runs[queue[k].params] = 0
       /\ \A w \in Worker : queue[k].params \in Held(w) =>
                              pc[w] \in {"reading", "rewriting"}

ReadFromQueue(w) ==
  /\ \A p \in Held(w) :
       \E i \in 1..pos[w] : IsWork(queue[i]) /\ queue[i].params = p
  /\ \A k \in DOMAIN kept[w] :
       ~IsWork(kept[w][k]) /\ \E i \in 1..pos[w] : queue[i] = kept[w][k]
  /\ Distinct(kept[w])

NewContentsUnclaimed(w) ==
  /\ Distinct(NewContents(w))
  /\ \A k \in DOMAIN NewContents(w) : IsWork(NewContents(w)[k]) =>
       /\ runs[NewContents(w)[k].params] = 0
       /\ \A v \in Worker : NewContents(w)[k].params \notin Held(v)

OwnerInv ==
  ~spoiled =>
    /\ ClaimsDisjoint
    /\ QueueIntact => QueueUnclaimed
    /\ \A w \in Worker : pc[w] = "reading" => ReadFromQueue(w)
    /\ \A w \in Worker : pc[w] = "rewriting" => NewContentsUnclaimed(w)

(* Appending a new element to a sequence without repetitions. *)
LEMMA AppendInjection ==
  ASSUME NEW S, NEW seq \in Seq(S), NEW e \in S
  PROVE  /\ Range(Append(seq, e)) = Range(seq) \cup {e}
         /\ (IsInjective(seq) /\ e \notin Range(seq)) => IsInjective(Append(seq, e))
<1> DEFINE longer == Append(seq, e)
           n == Len(seq)
<1>1. /\ n \in Nat /\ DOMAIN seq = 1..n
      /\ longer \in Seq(S) /\ Len(longer) = n + 1
      /\ \A i \in 1..n : longer[i] = seq[i]
      /\ longer[n + 1] = e
  BY LenProperties, AppendProperties
<1>2. DOMAIN longer = 1..(n + 1)
  BY <1>1, LenProperties
<1> HIDE DEF longer, n
<1>3. Range(longer) = Range(seq) \cup {e}
  <2>1. \A x \in Range(longer) : x \in Range(seq) \cup {e}
    <3> SUFFICES ASSUME NEW i \in 1..(n + 1) PROVE longer[i] \in Range(seq) \cup {e}
      BY <1>2 DEF Range
    <3>1. CASE i = n + 1
      BY <1>1, <3>1
    <3>2. CASE i # n + 1
      <4>1. i \in 1..n
        BY <1>1, <3>2
      <4> QED
        BY <1>1, <4>1 DEF Range
    <3> QED
      BY <3>1, <3>2
  <2>2. \A x \in Range(seq) : x \in Range(longer)
    <3> SUFFICES ASSUME NEW i \in 1..n PROVE seq[i] \in Range(longer)
      BY <1>1 DEF Range
    <3>1. i \in 1..(n + 1)
      BY <1>1
    <3> QED
      BY <1>1, <1>2, <3>1 DEF Range
  <2>3. e \in Range(longer)
    BY <1>1, <1>2 DEF Range
  <2> QED
    BY <2>1, <2>2, <2>3
<1>4. ASSUME IsInjective(seq), e \notin Range(seq) PROVE IsInjective(longer)
  <2> SUFFICES ASSUME NEW i \in 1..(n + 1), NEW j \in 1..(n + 1), longer[i] = longer[j]
               PROVE  i = j
    BY <1>2 DEF IsInjective
  <2>1. \A k \in 1..(n + 1) : k \in 1..n \/ k = n + 1
    BY <1>1
  <2>2. \A k \in 1..n : longer[k] # e
    BY <1>1, <1>4 DEF Range
  <2> QED
    BY <1>1, <1>4, <2>1, <2>2 DEF IsInjective
<1> QED
  BY <1>3, <1>4 DEF longer

(* Taking the first element off a sequence without repetitions. *)
LEMMA TailInjection ==
  ASSUME NEW S, NEW seq \in Seq(S), seq # <<>>, IsInjective(seq)
  PROVE  /\ Head(seq) \in Range(seq)
         /\ Range(Tail(seq)) \subseteq Range(seq) \ {Head(seq)}
         /\ IsInjective(Tail(seq))
<1> DEFINE rest == Tail(seq)
           n == Len(seq)
           m == Len(rest)
<1>1. /\ n \in Nat \ {0} /\ DOMAIN seq = 1..n
      /\ rest \in Seq(S) /\ m = n - 1
      /\ \A i \in 1..m : rest[i] = seq[i + 1]
  BY LenProperties, HeadTailProperties, EmptySeq
<1>2. DOMAIN rest = 1..m
  BY <1>1, LenProperties
<1>3. Head(seq) = seq[1]
  BY <1>1
<1> HIDE DEF rest, n, m
<1>4. \A i \in 1..m : i + 1 \in 1..n /\ i + 1 # 1
  BY <1>1
<1>5. Head(seq) \in Range(seq)
  BY <1>1, <1>3 DEF Range
<1>6. Range(rest) \subseteq Range(seq) \ {Head(seq)}
  BY <1>1, <1>2, <1>3, <1>4 DEF Range, IsInjective
<1>7. IsInjective(rest)
  <2> SUFFICES ASSUME NEW i \in 1..m, NEW j \in 1..m, rest[i] = rest[j]
               PROVE  i = j
    BY <1>2 DEF IsInjective
  <2>1. i + 1 = j + 1
    BY <1>1, <1>4 DEF IsInjective
  <2> QED
    BY <2>1
<1> QED
  BY <1>5, <1>6, <1>7 DEF rest

(* A process with an empty chunk holds nothing. *)
LEMMA EmptyHeld == Range(<<>>) = {} /\ IsInjective(<<>>) /\ Distinct(<<>>)
BY DEF Range, IsInjective, Distinct

(* Unless the file is spoiled, what getWork writes back is the lines kept and
   those claimed, as many as there were. *)
LEMMA EndedContents ==
  ASSUME TypeInv, ~spoiled, NEW w \in Worker, pc[w] = "rewriting"
  PROVE  /\ ~Unended(w)
         /\ NewContents(w) = kept[w] \o Claimed(w)
         /\ NewContents(w) \in Seq(Line)
         /\ Len(NewContents(w)) = Len(queue)
<1>1. /\ ~Unended(w) /\ paramsQueue[w] # <<>>
      /\ Len(kept[w]) + Len(paramsQueue[w]) = Len(queue)
  BY DEF TypeInv, PhaseInv, LinesAccounted
<1>2. paramsQueue[w] \in Seq(Text) /\ kept[w] \in Seq(Line)
  BY DEF TypeInv, TypeOK
<1>3. /\ NewContents(w) \in Seq(Line)
      /\ Len(NewContents(w)) = Len(kept[w]) + Len(paramsQueue[w])
  BY <1>1, <1>2, NewContentsLines
<1> QED
  BY <1>1, <1>3 DEF NewContents

(* A write() of the rewrite of a file that is not spoiled. *)
LEMMA FlushQueueWhole ==
  ASSUME TypeInv, ~spoiled, NEW w \in Worker, FlushQueue(w),
         NEW upto, upto = NextFlush(flushed[w], Len(queue))
  PROVE  /\ pc[w] = "rewriting"
         /\ flushed[w] \in Nat /\ flushed[w] < Len(queue) /\ Len(queue) \in Nat
         /\ upto \in Nat /\ flushed[w] < upto /\ upto <= Len(queue)
         /\ queue' = [k \in DOMAIN queue |->
                        IF k <= upto THEN NewContents(w)[k] ELSE queue[k]]
         /\ flushed' = [flushed EXCEPT ![w] = upto]
         /\ upto = Len(queue) => queueLock' = NoWorker /\ pc' = [pc EXCEPT ![w] = "work"]
         /\ upto # Len(queue) => /\ UNCHANGED <<queueLock, pc>>
                                 /\ NewContents(w)' = NewContents(w)
<1> DEFINE n == Len(queue)
           text == NewContents(w)
<1>1. pc[w] = "rewriting"
  BY DEF FlushQueue
<1>2. /\ text \in Seq(Line) /\ Len(text) = n /\ n \in Nat
      /\ DOMAIN text = 1..n /\ DOMAIN queue = 1..n
  <2>1. text \in Seq(Line) /\ Len(text) = n
    BY <1>1, EndedContents
  <2>2. queue \in Seq(Line)
    BY DEF TypeInv, TypeOK
  <2> QED
    BY <2>1, <2>2, LenProperties
<1>3. flushed[w] \in Nat /\ flushed[w] < n
  BY <1>1, <1>2 DEF TypeInv, TypeOK, PhaseInv, LinesAccounted
<1>4. upto \in Nat /\ flushed[w] < upto /\ upto <= n
  BY <1>2, <1>3, NextFlushAdvances
<1>5. /\ queue' = [k \in (IF upto = n THEN DOMAIN text ELSE DOMAIN queue) |->
                     IF k <= upto THEN text[k] ELSE queue[k]]
      /\ ended' = (ended \/ upto = n)
      /\ flushed' = [flushed EXCEPT ![w] = upto]
      /\ upto = n => queueLock' = NoWorker /\ pc' = [pc EXCEPT ![w] = "work"]
      /\ upto # n => UNCHANGED <<queueLock, pc>>
      /\ pos' = pos /\ kept' = kept /\ paramsQueue' = paramsQueue
  BY <1>2 DEF FlushQueue
<1>6. queue' = [k \in DOMAIN queue |-> IF k <= upto THEN text[k] ELSE queue[k]]
  BY <1>2, <1>5
<1>7. ASSUME upto # n PROVE NewContents(w)' = NewContents(w)
  <2>1. DOMAIN queue' = 1..n
    BY <1>2, <1>6
  <2>2. queue' \in Seq(Line)
    BY NextTypeInv DEF TypeInv, TypeOK, Next, Step
  <2>3. Len(queue') = n
    <3>1. Len(queue') \in Nat /\ DOMAIN queue' = 1..Len(queue')
      BY <2>2, LenProperties
    <3> HIDE DEF n
    <3> QED
      BY <1>2, <2>1, <3>1
  <2>4. Unended(w)' = Unended(w)
    BY <1>5, <1>7, <2>3 DEF Unended
  <2> QED
    BY <1>5, <2>4 DEF NewContents, Claimed
<1> QED
  BY <1>1, <1>2, <1>3, <1>4, <1>5, <1>6, <1>7

(* A step of process w that neither reads nor writes the queue file, when w
   holds no claim. *)
QuietStep(w) ==
  /\ paramsQueue[w] = <<>>
  /\ pc[w] # "rewriting"
  /\ queue' = queue /\ ended' = ended
  /\ runs' = runs /\ spoiled' = spoiled /\ paramsQueue' = paramsQueue
  /\ \A v \in Worker \ {w} :
       pc'[v] = pc[v] /\ pos'[v] = pos[v] /\ kept'[v] = kept[v] /\ flushed'[v] = flushed[v]
  /\ pc'[w] # "rewriting"
  /\ pc'[w] = "reading" => kept'[w] = <<>>

(* A quiet step disturbs nobody's claims. *)
LEMMA OwnerFrame ==
  ASSUME TypeInv, OwnerInv, NEW w \in Worker, QuietStep(w)
  PROVE  OwnerInv'
<1> SUFFICES ASSUME ~spoiled PROVE OwnerInv'
  BY DEF OwnerInv, QuietStep
<1>1. ClaimsDisjoint'
  BY DEF OwnerInv, ClaimsDisjoint, QuietStep, Held
<1>2. Held(w) = {}
  BY EmptyHeld DEF Held, QuietStep
<1>3. QueueIntact' => QueueUnclaimed'
  <2> SUFFICES ASSUME QueueIntact' PROVE QueueUnclaimed'
    OBVIOUS
  <2>1. QueueIntact
    BY DEF QueueIntact, QuietStep
  <2> QED
    BY <1>2, <2>1 DEF OwnerInv, QueueUnclaimed, QuietStep, Held, Distinct, IsWork
<1>4. ASSUME NEW v \in Worker, pc'[v] = "reading" PROVE ReadFromQueue(v)'
  <2>1. CASE v = w
    BY <1>2, <1>4, <2>1, EmptyHeld DEF ReadFromQueue, QuietStep, Held
  <2>2. CASE v # w
    <3>1. pc[v] = "reading" /\ pos'[v] = pos[v] /\ kept'[v] = kept[v] /\ Held(v)' = Held(v)
      BY <1>4, <2>2 DEF QuietStep, Held
    <3> QED
      BY <3>1 DEF OwnerInv, ReadFromQueue, QuietStep, IsWork, Distinct
  <2> QED
    BY <2>1, <2>2
<1>5. ASSUME NEW v \in Worker, pc'[v] = "rewriting" PROVE NewContentsUnclaimed(v)'
  <2>1. v # w /\ pc[v] = "rewriting"
    BY <1>5 DEF QuietStep
  <2>2. NewContents(v)' = NewContents(v)
    BY <2>1 DEF QuietStep, NewContents, Claimed, Unended
  <2> QED
    BY <2>1, <2>2 DEF OwnerInv, NewContentsUnclaimed, QuietStep, Held, IsWork, Distinct
<1> QED
  BY <1>1, <1>3, <1>4, <1>5 DEF OwnerInv

(* While one process reads the queue file no other reads or rewrites it, so
   the file is as it was and no set on a work line not yet read is held. *)
LEMMA ReaderAlone ==
  ASSUME TypeInv, OwnerInv, ~spoiled, NEW w \in Worker, pc[w] = "reading"
  PROVE  /\ \A v \in Worker \ {w} : pc[v] \notin {"reading", "rewriting"}
         /\ QueueUnclaimed
         /\ ReadFromQueue(w)
         /\ pos[w] \in Nat /\ pos[w] <= Len(queue) /\ Len(queue) \in Nat
         /\ DOMAIN queue = 1..Len(queue)
         /\ \A i \in 1..Len(queue) : queue[i] \in Line
<1>1. \A v \in Worker \ {w} : pc[v] \notin {"reading", "rewriting"}
  BY DEF TypeInv, PhaseInv, LocksHeld
<1>2. QueueIntact
  BY <1>1 DEF QueueIntact
<1>3. pos[w] \in Nat /\ pos[w] <= Len(queue)
  BY DEF TypeInv, TypeOK, PhaseInv, LinesAccounted
<1>4. /\ Len(queue) \in Nat /\ DOMAIN queue = 1..Len(queue)
      /\ \A i \in 1..Len(queue) : queue[i] \in Line
  BY LenProperties, ElementOfSeq DEF TypeInv, TypeOK
<1> QED
  BY <1>1, <1>2, <1>3, <1>4 DEF OwnerInv

(* getWork reads a set to run: the set moves from the lines not read to the
   claims of its reader, and no other process has it. *)
LEMMA ReadWorkOwner ==
  ASSUME TypeInv, OwnerInv, NEW w \in Worker, ReadWork(w)
  PROVE  OwnerInv'
<1> SUFFICES ASSUME ~spoiled PROVE OwnerInv'
  BY DEF OwnerInv, ReadWork, history
<1> DEFINE n == Len(queue)
           next == pos[w] + 1
           line == queue[next]
           set == line.params
<1>1. pc[w] = "reading"
  BY DEF ReadWork
<1>2. /\ \A v \in Worker \ {w} : pc[v] \notin {"reading", "rewriting"}
      /\ QueueUnclaimed /\ ReadFromQueue(w)
      /\ pos[w] \in Nat /\ n \in Nat /\ DOMAIN queue = 1..n
      /\ \A i \in 1..n : queue[i] \in Line
  BY <1>1, ReaderAlone
<1>3. next \in 1..n /\ \A i \in 1..pos[w] : i \in 1..n /\ i # next /\ i \in 1..next
  <2>1. pos[w] < n
    BY DEF ReadWork, CanRead
  <2> HIDE DEF n
  <2> QED
    BY <1>2, <2>1
<1>4. IsWork(line) /\ line \in Line /\ set \in Text
  BY <1>2, <1>3 DEF ReadWork, IsWork, Line
<1>5. /\ queue' = queue /\ runs' = runs /\ spoiled' = spoiled /\ pc' = pc /\ kept' = kept
      /\ paramsQueue' = [paramsQueue EXCEPT ![w] = Append(paramsQueue[w], set)]
      /\ pos'[w] = next
  BY DEF ReadWork, files, history, TypeInv, TypeOK
<1> HIDE DEF n, next
<1>6. set \notin Held(w)
  <2>1. SUFFICES ASSUME set \in Held(w) PROVE FALSE
    OBVIOUS
  <2>2. PICK i \in 1..pos[w] : IsWork(queue[i]) /\ queue[i].params = set
    BY <1>2, <2>1 DEF ReadFromQueue
  <2> QED
    BY <1>2, <1>3, <1>4, <2>2 DEF QueueUnclaimed, Distinct, IsWork
<1>7. runs[set] = 0 /\ \A v \in Worker : set \notin Held(v)
  BY <1>2, <1>3, <1>4, <1>6 DEF QueueUnclaimed
<1> HIDE DEF set
<1>8. /\ Held(w)' = Held(w) \cup {set}
      /\ IsInjective(paramsQueue'[w])
      /\ \A v \in Worker \ {w} : paramsQueue'[v] = paramsQueue[v] /\ Held(v)' = Held(v)
  <2>1. paramsQueue \in [Worker -> Seq(Text)]
    BY DEF TypeInv, TypeOK
  <2>2. paramsQueue'[w] = Append(paramsQueue[w], set)
    BY <1>5, <2>1
  <2>3. IsInjective(paramsQueue[w])
    BY DEF OwnerInv, ClaimsDisjoint
  <2>4. set \in Text
    BY <1>4 DEF set
  <2> QED
    BY <1>5, <1>6, <2>1, <2>2, <2>3, <2>4, AppendInjection DEF Held
<1>9. ClaimsDisjoint'
  BY <1>5, <1>7, <1>8 DEF OwnerInv, ClaimsDisjoint
<1>10. QueueUnclaimed'
  BY <1>1, <1>2, <1>5, <1>8 DEF QueueUnclaimed, Distinct, IsWork
<1>11. ReadFromQueue(w)'
  <2>1. \A q \in Held(w)' : \E i \in 1..next : IsWork(queue[i]) /\ queue[i].params = q
    <3> TAKE q \in Held(w)'
    <3>1. CASE q \in Held(w)
      BY <1>2, <1>3, <3>1 DEF ReadFromQueue
    <3>2. CASE q = set
      <4>1. next \in 1..next
        BY <1>3, <1>2 DEF next
      <4> QED
        BY <1>4, <3>2, <4>1 DEF set
    <3> QED
      BY <1>8, <3>1, <3>2
  <2>2. \A k \in DOMAIN kept[w] :
          ~IsWork(kept[w][k]) /\ \E i \in 1..next : queue[i] = kept[w][k]
    BY <1>2, <1>3 DEF ReadFromQueue
  <2> QED
    BY <1>2, <1>5, <2>1, <2>2 DEF ReadFromQueue, IsWork, Distinct
<1> QED
  BY <1>1, <1>2, <1>5, <1>9, <1>10, <1>11 DEF OwnerInv

(* getWork reads a line it keeps: the claims stay, and what is kept still comes
   from lines that have been read. *)
LEMMA ReadOtherOwner ==
  ASSUME TypeInv, OwnerInv, NEW w \in Worker, ReadOther(w)
  PROVE  OwnerInv'
<1> SUFFICES ASSUME ~spoiled PROVE OwnerInv'
  BY DEF OwnerInv, ReadOther, history
<1> DEFINE n == Len(queue)
           next == pos[w] + 1
           line == queue[next]
           old == kept[w]
           longer == Append(old, line)
           m == Len(old)
<1>1. pc[w] = "reading"
  BY DEF ReadOther
<1>2. /\ \A v \in Worker \ {w} : pc[v] \notin {"reading", "rewriting"}
      /\ QueueUnclaimed /\ ReadFromQueue(w)
      /\ pos[w] \in Nat /\ n \in Nat /\ DOMAIN queue = 1..n
      /\ \A i \in 1..n : queue[i] \in Line
  BY <1>1, ReaderAlone
<1>3. next \in 1..n /\ \A i \in 1..pos[w] : i \in 1..n /\ i # next /\ i \in 1..next
  <2>1. pos[w] < n
    BY DEF ReadOther, CanRead
  <2> HIDE DEF n
  <2> QED
    BY <1>2, <2>1
<1>4. ~IsWork(line) /\ line \in Line /\ next \in 1..next
  BY <1>2, <1>3 DEF ReadOther
<1>5. /\ queue' = queue /\ runs' = runs /\ spoiled' = spoiled /\ pc' = pc
      /\ paramsQueue' = paramsQueue /\ pos'[w] = next /\ kept'[w] = longer
  BY DEF ReadOther, files, history, TypeInv, TypeOK
<1>6. /\ m \in Nat /\ DOMAIN old = 1..m /\ DOMAIN longer = 1..(m + 1)
      /\ longer[m + 1] = line /\ \A k \in 1..m : longer[k] = old[k]
  <2>1. old \in Seq(Line)
    BY DEF TypeInv, TypeOK
  <2> QED
    BY <1>4, <2>1, LenProperties, AppendProperties
<1>7. /\ \A k \in 1..m : ~IsWork(old[k]) /\ \E i \in 1..pos[w] : queue[i] = old[k]
      /\ Distinct(old)
  BY <1>2, <1>6 DEF ReadFromQueue
<1> HIDE DEF n, next, m, longer, line, old
<1>8. \A k \in 1..(m + 1) : k \in 1..m \/ k = m + 1
  BY <1>6
<1>9. \A k \in DOMAIN longer :
        ~IsWork(longer[k]) /\ \E i \in 1..next : queue[i] = longer[k]
  <2> SUFFICES ASSUME NEW k \in 1..(m + 1)
               PROVE  ~IsWork(longer[k]) /\ \E i \in 1..next : queue[i] = longer[k]
    BY <1>6
  <2>1. CASE k \in 1..m
    BY <1>3, <1>6, <1>7, <2>1
  <2>2. CASE k = m + 1
    BY <1>4, <1>6, <2>2 DEF line
  <2> QED
    BY <1>8, <2>1, <2>2
<1>10. Distinct(longer)
  <2>1. \A k \in 1..m : old[k].params # NoParams => old[k].params # line.params
    BY <1>2, <1>3, <1>7 DEF QueueUnclaimed, Distinct, line
  <2>2. \A j, k \in 1..m :
          (old[j].params = old[k].params /\ old[j].params # NoParams) => j = k
    BY <1>6, <1>7 DEF Distinct
  <2> SUFFICES ASSUME NEW j \in 1..(m + 1), NEW k \in 1..(m + 1),
                      longer[j].params = longer[k].params,
                      longer[j].params # NoParams
               PROVE  j = k
    BY <1>6 DEF Distinct
  <2> QED
    BY <1>6, <1>8, <2>1, <2>2
<1>11. ClaimsDisjoint' /\ QueueUnclaimed'
  BY <1>2, <1>5 DEF OwnerInv, ClaimsDisjoint, QueueUnclaimed, Held, Distinct, IsWork
<1>12. ReadFromQueue(w)'
  <2>1. \A q \in Held(w) : \E i \in 1..next : IsWork(queue[i]) /\ queue[i].params = q
    BY <1>2, <1>3 DEF ReadFromQueue
  <2> QED
    BY <1>5, <1>9, <1>10, <2>1 DEF ReadFromQueue, Held, IsWork, Distinct
<1> QED
  BY <1>1, <1>2, <1>5, <1>11, <1>12 DEF OwnerInv

(* start runs the first set of its chunk: the set is run for the first time. *)
LEMMA RunItemOwner ==
  ASSUME TypeInv, OwnerInv, NEW w \in Worker, NEW duration \in Durations,
         RunItem(w, duration)
  PROVE  OwnerInv'
<1> SUFFICES ASSUME ~spoiled PROVE OwnerInv'
  BY DEF OwnerInv, RunItem
<1> DEFINE set == Head(paramsQueue[w])
<1>1. /\ pc[w] = "work" /\ pc' = pc /\ queue' = queue /\ ended' = ended
      /\ spoiled' = spoiled /\ pos' = pos /\ kept' = kept /\ flushed' = flushed
      /\ paramsQueue' = [paramsQueue EXCEPT ![w] = Tail(paramsQueue[w])]
      /\ runs' = [runs EXCEPT ![set] = runs[set] + 1]
      /\ runs \in [Text -> Nat] /\ paramsQueue \in [Worker -> Seq(Text)]
  BY DEF RunItem, files, TypeInv, TypeOK
<1>2. /\ set \in Held(w) /\ set \in Text
      /\ Range(Tail(paramsQueue[w])) \subseteq Held(w) \ {set}
      /\ IsInjective(Tail(paramsQueue[w]))
  <2>1. /\ paramsQueue[w] # <<>> /\ paramsQueue[w] \in Seq(Text)
        /\ IsInjective(paramsQueue[w])
    BY DEF RunItem, TypeInv, TypeOK, OwnerInv, ClaimsDisjoint
  <2> QED
    BY <2>1, TailInjection, HeadTailProperties DEF Held
<1> HIDE DEF set
<1>3. /\ Held(w)' \subseteq Held(w) \ {set}
      /\ IsInjective(paramsQueue'[w])
      /\ \A v \in Worker \ {w} : paramsQueue'[v] = paramsQueue[v] /\ Held(v)' = Held(v)
  BY <1>1, <1>2 DEF Held
<1>4. runs[set] = 0 /\ \A v \in Worker \ {w} : set \notin Held(v)
  BY <1>2 DEF OwnerInv, ClaimsDisjoint
<1>5. runs'[set] = 1 /\ \A q \in Text \ {set} : runs'[q] = runs[q]
  BY <1>1, <1>2, <1>4
<1>6. \A v \in Worker : Held(v) \subseteq Text /\ Held(v)' \subseteq Text
  <2>1. \A v \in Worker : Held(v) \subseteq Text
    BY <1>1, RangeOfSeq DEF Held
  <2> QED
    BY <1>3, <2>1
<1>7. ClaimsDisjoint'
  BY <1>3, <1>4, <1>5, <1>6 DEF OwnerInv, ClaimsDisjoint
<1>8. QueueIntact' => QueueUnclaimed'
  <2> SUFFICES ASSUME QueueUnclaimed PROVE QueueUnclaimed'
    BY <1>1 DEF OwnerInv, QueueIntact
  <2> SUFFICES ASSUME NEW k \in DOMAIN queue, IsWork(queue[k])
               PROVE  /\ runs'[queue[k].params] = 0
                      /\ \A v \in Worker : queue[k].params \in Held(v)' =>
                                             pc[v] \in {"reading", "rewriting"}
    BY <1>1 DEF QueueUnclaimed, IsWork, Distinct
  <2>1. queue[k].params \in Text
    <3>1. queue \in Seq(Line)
      BY DEF TypeInv, TypeOK
    <3>2. queue[k] \in Line
      BY <3>1, LenProperties, ElementOfSeq
    <3> QED
      BY <3>2 DEF Line, IsWork
  <2>2. queue[k].params \notin Held(w)
    BY <1>1 DEF QueueUnclaimed
  <2> QED
    BY <1>2, <1>3, <1>5, <2>1, <2>2 DEF QueueUnclaimed
<1>9. ASSUME NEW v \in Worker, pc'[v] = "reading" PROVE ReadFromQueue(v)'
  <2>1. v # w /\ pc[v] = "reading"
    BY <1>1, <1>9
  <2>2. ReadFromQueue(v)
    BY <2>1 DEF OwnerInv
  <2>3. Held(v)' = Held(v) /\ pos'[v] = pos[v] /\ kept'[v] = kept[v] /\ queue' = queue
    BY <1>1, <1>3, <2>1
  <2> QED
    BY <2>2, <2>3 DEF ReadFromQueue, IsWork, Distinct
<1>10. ASSUME NEW v \in Worker, pc'[v] = "rewriting" PROVE NewContentsUnclaimed(v)'
  <2>1. v # w /\ pc[v] = "rewriting"
    BY <1>1, <1>10
  <2>2. NewContents(v)' = NewContents(v)
    BY <1>1, <1>3, <2>1 DEF NewContents, Claimed, Unended
  <2>3. NewContentsUnclaimed(v)
    BY <2>1 DEF OwnerInv
  <2>4. \A k \in DOMAIN NewContents(v) :
          IsWork(NewContents(v)[k]) => NewContents(v)[k].params \in Text
    <3>1. NewContents(v) \in Seq(Line)
      BY <2>1, EndedContents
    <3>2. \A k \in DOMAIN NewContents(v) : NewContents(v)[k] \in Line
      BY <3>1, LenProperties, ElementOfSeq
    <3> QED
      BY <3>2 DEF Line, IsWork
  <2> QED
    BY <1>2, <1>3, <1>5, <2>2, <2>3, <2>4 DEF NewContentsUnclaimed, IsWork, Distinct
<1> QED
  BY <1>1, <1>7, <1>8, <1>9, <1>10 DEF OwnerInv

(* Where a line of a concatenation comes from. *)
LEMMA ConcatCases ==
  ASSUME NEW S, NEW s \in Seq(S), NEW t \in Seq(S), NEW k \in DOMAIN (s \o t)
  PROVE  \/ k \in DOMAIN s /\ (s \o t)[k] = s[k]
         \/ \E i \in DOMAIN t : k = Len(s) + i /\ (s \o t)[k] = t[i]
<1> DEFINE m == Len(s)
           n == Len(t)
           c == s \o t
<1>1. /\ m \in Nat /\ n \in Nat /\ DOMAIN s = 1..m /\ DOMAIN t = 1..n
      /\ c \in Seq(S) /\ Len(c) = m + n
      /\ \A i \in 1..(m + n) : c[i] = IF i <= m THEN s[i] ELSE t[i - m]
  BY LenProperties, ConcatProperties
<1>2. DOMAIN c = 1..(m + n)
  BY <1>1, LenProperties
<1>3. k \in 1..(m + n)
  BY <1>2
<1> HIDE DEF m, n, c
<1>4. CASE k <= m
  BY <1>1, <1>3, <1>4 DEF c
<1>5. CASE k > m
  <2>1. k - m \in 1..n /\ k = m + (k - m)
    BY <1>1, <1>3, <1>5
  <2>2. c[k] = t[k - m]
    BY <1>1, <1>3, <1>5
  <2> QED
    BY <1>1, <2>1, <2>2 DEF c, m
<1> QED
  BY <1>1, <1>3, <1>4, <1>5

(* Two files without a common parameter set make one without repetitions. *)
LEMMA DistinctConcat ==
  ASSUME NEW s \in Seq(Line), NEW t \in Seq(Line), Distinct(s), Distinct(t),
         \A i \in DOMAIN s : \A j \in DOMAIN t :
           s[i].params # NoParams => s[i].params # t[j].params
  PROVE  Distinct(s \o t)
<1> SUFFICES ASSUME NEW j \in DOMAIN (s \o t), NEW k \in DOMAIN (s \o t),
                    (s \o t)[j].params = (s \o t)[k].params,
                    (s \o t)[j].params # NoParams
             PROVE  j = k
  BY DEF Distinct
<1> DEFINE InS(i) == i \in DOMAIN s /\ (s \o t)[i] = s[i]
           InT(i) == \E l \in DOMAIN t : i = Len(s) + l /\ (s \o t)[i] = t[l]
<1>1. (InS(j) \/ InT(j)) /\ (InS(k) \/ InT(k))
  BY ConcatCases
<1>2. CASE InS(j) /\ InS(k)
  BY <1>2 DEF Distinct
<1>3. CASE InT(j) /\ InT(k)
  BY <1>3 DEF Distinct
<1>4. CASE InS(j) /\ InT(k)
  BY <1>4
<1>5. CASE InT(j) /\ InS(k)
  BY <1>5
<1> QED
  BY <1>1, <1>2, <1>3, <1>4, <1>5

(* getWork is about to write: what it writes names no set twice and offers none
   that somebody holds. *)
LEMMA StartRewriteOwner ==
  ASSUME TypeInv, OwnerInv, NEW w \in Worker, StartRewrite(w)
  PROVE  OwnerInv'
<1> SUFFICES ASSUME ~spoiled, ~Unended(w) PROVE OwnerInv'
  BY DEF OwnerInv, StartRewrite, TypeInv, TypeOK
<1> DEFINE n == Len(queue)
           old == kept[w]
           rest == SubSeq(queue, pos[w] + 1, n)
           all == old \o rest
           claim == Claimed(w)
<1>1. pc[w] = "reading"
  BY DEF StartRewrite
<1>2. /\ \A v \in Worker \ {w} : pc[v] \notin {"reading", "rewriting"}
      /\ QueueUnclaimed /\ ReadFromQueue(w)
      /\ pos[w] \in Nat /\ pos[w] <= n /\ n \in Nat /\ DOMAIN queue = 1..n
      /\ \A i \in 1..n : queue[i] \in Line
  BY <1>1, ReaderAlone
<1>3. /\ queue' = queue /\ ended' = ended /\ pos' = pos
      /\ runs' = runs /\ paramsQueue' = paramsQueue
      /\ kept'[w] = all /\ pc'[w] = "rewriting" /\ flushed'[w] = 0
      /\ \A v \in Worker \ {w} : pc'[v] = pc[v] /\ kept'[v] = kept[v]
  BY DEF StartRewrite, files, history, TypeInv, TypeOK
<1>4. NewContents(w)' = all \o claim
  BY <1>3 DEF NewContents, Claimed, Unended
<1>5. /\ old \in Seq(Line) /\ paramsQueue[w] \in Seq(Text)
      /\ IsInjective(paramsQueue[w])
  BY DEF TypeInv, TypeOK, OwnerInv, ClaimsDisjoint
<1>6. /\ claim \in Seq(Line)
      /\ DOMAIN claim = DOMAIN paramsQueue[w]
      /\ \A k \in DOMAIN claim :
           claim[k].params = paramsQueue[w][k] /\ claim[k].by = w
  BY <1>5, ClaimedLines DEF Claimed
<1>7. /\ rest \in Seq(Line)
      /\ \A i \in DOMAIN rest : pos[w] + i \in 1..n /\ rest[i] = queue[pos[w] + i]
      /\ DOMAIN rest \subseteq Nat \ {0}
  <2> HIDE DEF n
  <2>1. \A i \in (pos[w] + 1)..n : queue[i] \in Line
    BY <1>2
  <2>2. /\ rest \in Seq(Line)
        /\ Len(rest) = IF pos[w] + 1 <= n THEN n - (pos[w] + 1) + 1 ELSE 0
        /\ \A i \in 1..(n - (pos[w] + 1) + 1) : rest[i] = queue[pos[w] + 1 + i - 1]
    BY <1>2, <2>1, SubSeqProperties
  <2>3. Len(rest) = n - pos[w]
    <3>1. pos[w] \in Nat /\ n \in Nat /\ pos[w] <= n
      BY <1>2
    <3>2. Len(rest) = IF pos[w] + 1 <= n THEN n - (pos[w] + 1) + 1 ELSE 0
      BY <2>2
    <3> HIDE DEF rest
    <3> QED
      BY <3>1, <3>2
  <2>4. DOMAIN rest = 1..(n - pos[w])
    BY <2>2, <2>3, LenProperties
  <2> HIDE DEF rest
  <2>5. \A i \in 1..(n - pos[w]) :
          /\ i \in 1..(n - (pos[w] + 1) + 1)
          /\ pos[w] + 1 + i - 1 = pos[w] + i
          /\ pos[w] + i \in 1..n
          /\ i \in Nat \ {0}
    BY <1>2
  <2> QED
    BY <2>2, <2>4, <2>5
<1>8. \A k \in DOMAIN old : ~IsWork(old[k]) /\ \E i \in 1..pos[w] : queue[i] = old[k]
  BY <1>2 DEF ReadFromQueue
<1>9. \A i \in 1..pos[w] : i \in 1..n
  BY <1>2
<1> HIDE DEF n, rest, claim, old, all
<1>10. \A i \in 1..n : \A j \in 1..n :
         (queue[i].params = queue[j].params /\ queue[i].params # NoParams) => i = j
  BY <1>2 DEF QueueUnclaimed, Distinct
<1>11. Distinct(all) /\ all \in Seq(Line)
  <2>1. Distinct(old)
    BY <1>2 DEF ReadFromQueue, old
  <2>2. Distinct(rest)
    <3> SUFFICES ASSUME NEW i \in DOMAIN rest, NEW j \in DOMAIN rest,
                        rest[i].params = rest[j].params, rest[i].params # NoParams
                 PROVE  i = j
      BY DEF Distinct
    <3>1. pos[w] + i = pos[w] + j
      BY <1>7, <1>10
    <3> QED
      BY <1>2, <1>7, <3>1
  <2>3. \A i \in DOMAIN old : \A j \in DOMAIN rest :
          old[i].params # NoParams => old[i].params # rest[j].params
    <3> SUFFICES ASSUME NEW i \in DOMAIN old, NEW j \in DOMAIN rest,
                        old[i].params # NoParams, old[i].params = rest[j].params
                 PROVE  FALSE
      OBVIOUS
    <3>1. PICK l \in 1..pos[w] : queue[l] = old[i]
      BY <1>8
    <3>2. l = pos[w] + j
      BY <1>7, <1>9, <1>10, <3>1
    <3> QED
      BY <1>2, <1>7, <3>2
  <2> QED
    BY <1>5, <1>7, <2>1, <2>2, <2>3, DistinctConcat, ConcatProperties DEF all, old
<1>12. \A k \in DOMAIN all : \E i \in 1..n :
         all[k] = queue[i] /\ (IsWork(queue[i]) => i > pos[w])
  <2> SUFFICES ASSUME NEW k \in DOMAIN all
               PROVE  \E i \in 1..n :
                        all[k] = queue[i] /\ (IsWork(queue[i]) => i > pos[w])
    OBVIOUS
  <2>1. CASE k \in DOMAIN old /\ all[k] = old[k]
    BY <1>8, <1>9, <2>1
  <2>2. CASE \E i \in DOMAIN rest : k = Len(old) + i /\ all[k] = rest[i]
    <3>1. PICK i \in DOMAIN rest : all[k] = rest[i]
      BY <2>2
    <3>2. pos[w] + i > pos[w] /\ pos[w] + i \in 1..n
      BY <1>2, <1>7
    <3> QED
      BY <1>7, <3>1, <3>2
  <2> QED
    BY <1>5, <1>7, <2>1, <2>2, ConcatCases DEF all, old
<1>13. ASSUME NEW p \in Held(w), NEW i \in 1..n, queue[i].params = p
       PROVE  IsWork(queue[i]) /\ ~(i > pos[w])
  <2>1. PICK l \in 1..pos[w] : IsWork(queue[l]) /\ queue[l].params = p
    BY <1>2 DEF ReadFromQueue
  <2>2. l = i
    BY <1>9, <1>10, <1>13, <2>1 DEF IsWork
  <2> QED
    BY <1>2, <2>1, <2>2
<1>14. \A k \in DOMAIN claim : claim[k].params \in Held(w) /\ ~IsWork(claim[k])
  BY <1>6, WorkerAssumption DEF Held, Range, IsWork
<1>15. Distinct(all \o claim)
  <2>1. Distinct(claim)
    BY <1>5, <1>6 DEF Distinct, IsInjective
  <2>2. \A i \in DOMAIN all : \A j \in DOMAIN claim :
          all[i].params # NoParams => all[i].params # claim[j].params
    BY <1>12, <1>13, <1>14
  <2> QED
    BY <1>6, <1>11, <2>1, <2>2, DistinctConcat
<1>16. ASSUME NEW k \in DOMAIN (all \o claim), IsWork((all \o claim)[k])
       PROVE  /\ runs[(all \o claim)[k].params] = 0
              /\ \A v \in Worker : (all \o claim)[k].params \notin Held(v)
  <2>1. k \in DOMAIN all /\ (all \o claim)[k] = all[k]
    BY <1>6, <1>11, <1>14, <1>16, ConcatCases
  <2>2. PICK i \in 1..n : all[k] = queue[i] /\ (IsWork(queue[i]) => i > pos[w])
    BY <1>12, <2>1
  <2>3. IsWork(queue[i]) /\ i > pos[w] /\ (all \o claim)[k].params = queue[i].params
    BY <1>16, <2>1, <2>2
  <2>4. queue[i].params \notin Held(w)
    BY <1>13, <2>3
  <2> QED
    BY <1>2, <2>3, <2>4 DEF QueueUnclaimed
<1>17. NewContentsUnclaimed(w)'
  <2>1. \A v \in Worker : Held(v)' = Held(v)
    BY <1>3 DEF Held
  <2> QED
    BY <1>3, <1>4, <1>15, <1>16, <2>1 DEF NewContentsUnclaimed, IsWork, Distinct
<1>18. ClaimsDisjoint'
  BY <1>3 DEF OwnerInv, ClaimsDisjoint, Held
<1>19. QueueUnclaimed'
  <2>1. \A v \in Worker : pc[v] \in {"reading", "rewriting"} => pc'[v] \in {"reading", "rewriting"}
    BY <1>1, <1>3
  <2> QED
    BY <1>2, <1>3, <2>1 DEF QueueUnclaimed, Held, Distinct, IsWork
<1>20. \A v \in Worker : pc'[v] # "reading" /\ (pc'[v] = "rewriting" => v = w)
  BY <1>2, <1>3
<1> QED
  BY <1>17, <1>18, <1>19, <1>20 DEF OwnerInv

(* A write() of the rewrite: the file is spoiled only until its last one. *)
LEMMA FlushQueueOwner ==
  ASSUME TypeInv, OwnerInv, NEW w \in Worker, FlushQueue(w)
  PROVE  OwnerInv'
<1> SUFFICES ASSUME ~spoiled PROVE OwnerInv'
  BY DEF OwnerInv, FlushQueue, history
<1> DEFINE n == Len(queue)
           upto == NextFlush(flushed[w], n)
<1>1. /\ pc[w] = "rewriting" /\ flushed[w] \in Nat /\ flushed[w] < n /\ n \in Nat
      /\ upto \in Nat /\ flushed[w] < upto /\ upto <= n
  BY FlushQueueWhole
<1>2. \A v \in Worker \ {w} : pc[v] \notin {"reading", "rewriting"}
  BY <1>1 DEF TypeInv, PhaseInv, LocksHeld
<1>3. /\ queue' = [k \in DOMAIN queue |->
                     IF k <= upto THEN NewContents(w)[k] ELSE queue[k]]
      /\ flushed'[w] = upto
      /\ runs' = runs /\ spoiled' = spoiled /\ paramsQueue' = paramsQueue /\ kept' = kept
      /\ pc' = IF upto = n THEN [pc EXCEPT ![w] = "work"] ELSE pc
      /\ upto # n => NewContents(w)' = NewContents(w)
  <2>1. /\ queue' = [k \in DOMAIN queue |->
                       IF k <= upto THEN NewContents(w)[k] ELSE queue[k]]
        /\ flushed' = [flushed EXCEPT ![w] = upto]
        /\ upto = n => pc' = [pc EXCEPT ![w] = "work"]
        /\ upto # n => pc' = pc /\ NewContents(w)' = NewContents(w)
    BY FlushQueueWhole
  <2>2. runs' = runs /\ spoiled' = spoiled /\ paramsQueue' = paramsQueue /\ kept' = kept
    BY DEF FlushQueue, history
  <2> QED
    BY <2>1, <2>2 DEF TypeInv, TypeOK
<1>4. NewContentsUnclaimed(w)
  BY <1>1 DEF OwnerInv
<1>5. ClaimsDisjoint'
  BY <1>3 DEF OwnerInv, ClaimsDisjoint, Held
<1>6. \A v \in Worker : Held(v)' = Held(v)
  BY <1>3 DEF Held
<1>7. CASE upto = n
  <2>1. queue' = NewContents(w)
    <3>1. NewContents(w) \in Seq(Line) /\ Len(NewContents(w)) = n /\ queue \in Seq(Line)
      BY <1>1, EndedContents DEF TypeInv, TypeOK
    <3>2. DOMAIN queue = 1..n /\ NewContents(w) \in [1..n -> Line]
      BY <3>1, LenProperties
    <3>3. queue' = [k \in 1..n |-> NewContents(w)[k]]
      <4>1. \A k \in 1..n : k <= upto
        BY <1>1, <1>7
      <4> QED
        BY <1>3, <3>2, <4>1
    <3> HIDE DEF n
    <3> QED
      BY <3>2, <3>3
  <2>2. QueueUnclaimed'
    BY <1>3, <1>4, <1>6, <2>1 DEF NewContentsUnclaimed, QueueUnclaimed, IsWork, Distinct
  <2>3. \A v \in Worker : pc'[v] \notin {"reading", "rewriting"}
    BY <1>2, <1>3, <1>7 DEF TypeInv, TypeOK
  <2> QED
    BY <1>5, <2>2, <2>3 DEF OwnerInv
<1>8. CASE upto # n
  <2>1. pc' = pc
    BY <1>3, <1>8
  <2>2. ~QueueIntact'
    <3> HIDE DEF upto
    <3> QED
      BY <1>1, <1>3, <2>1 DEF QueueIntact
  <2>3. NewContentsUnclaimed(w)'
    BY <1>3, <1>4, <1>6, <1>8 DEF NewContentsUnclaimed, IsWork, Distinct
  <2> QED
    BY <1>1, <1>2, <1>5, <2>1, <2>2, <2>3 DEF OwnerInv
<1> QED
  BY <1>7, <1>8

(* A crash forgets the claims of one process; a rewrite that had begun spoils
   the file. *)
LEMMA CrashOwner ==
  ASSUME TypeInv, OwnerInv, NEW w \in Worker, Crash(w)
  PROVE  OwnerInv'
<1> SUFFICES ASSUME ~spoiled' PROVE OwnerInv'
  BY DEF OwnerInv
<1>1. /\ queue' = queue /\ ended' = ended
      /\ runs' = runs /\ pos' = pos /\ flushed' = flushed
      /\ pc'[w] = "crashed" /\ paramsQueue'[w] = <<>>
      /\ \A v \in Worker \ {w} :
           pc'[v] = pc[v] /\ kept'[v] = kept[v] /\ paramsQueue'[v] = paramsQueue[v]
      /\ ~spoiled /\ (pc[w] = "rewriting" => flushed[w] = 0)
  <2>1. flushed[w] \in Nat /\ spoiled \in BOOLEAN
    BY DEF TypeInv, TypeOK
  <2>2. ~spoiled /\ ~(pc[w] = "rewriting" /\ flushed[w] > 0)
    BY <2>1 DEF Crash
  <2>3. pc[w] = "rewriting" => flushed[w] = 0
    BY <2>1, <2>2
  <2> QED
    BY <2>2, <2>3 DEF Crash, timing, TypeInv, TypeOK
<1>2. Held(w)' = {} /\ IsInjective(paramsQueue'[w])
  BY <1>1, EmptyHeld DEF Held
<1>3. \A v \in Worker \ {w} : Held(v)' = Held(v)
  BY <1>1 DEF Held
<1>4. ClaimsDisjoint'
  BY <1>1, <1>2, <1>3 DEF OwnerInv, ClaimsDisjoint
<1>5. QueueIntact' => QueueUnclaimed'
  <2> SUFFICES ASSUME QueueIntact' PROVE QueueUnclaimed'
    OBVIOUS
  <2>1. QueueIntact
    BY <1>1 DEF QueueIntact
  <2> QED
    BY <1>1, <1>2, <1>3, <2>1 DEF OwnerInv, QueueUnclaimed, Distinct, IsWork
<1>6. ASSUME NEW v \in Worker, pc'[v] = "reading" PROVE ReadFromQueue(v)'
  <2>1. v # w /\ pc[v] = "reading"
    BY <1>1, <1>6
  <2>2. ReadFromQueue(v)
    BY <1>1, <2>1 DEF OwnerInv
  <2>3. Held(v)' = Held(v) /\ pos'[v] = pos[v] /\ kept'[v] = kept[v] /\ queue' = queue
    BY <1>1, <1>3, <2>1
  <2> QED
    BY <2>2, <2>3 DEF ReadFromQueue, IsWork, Distinct
<1>7. ASSUME NEW v \in Worker, pc'[v] = "rewriting" PROVE NewContentsUnclaimed(v)'
  <2>1. v # w /\ pc[v] = "rewriting"
    BY <1>1, <1>7
  <2>2. NewContentsUnclaimed(v) /\ NewContents(v)' = NewContents(v)
    BY <1>1, <2>1 DEF OwnerInv, NewContents, Claimed, Unended
  <2> QED
    BY <1>1, <1>2, <1>3, <2>2 DEF NewContentsUnclaimed, IsWork, Distinct
<1> QED
  BY <1>4, <1>5, <1>6, <1>7 DEF OwnerInv

(* The initial states: the user's file names every set at most once, and
   nobody has claimed anything. *)
LEMMA InitOwnerInv == Init => OwnerInv
<1> SUFFICES ASSUME Init PROVE OwnerInv
  OBVIOUS
<1>1. \A w \in Worker : paramsQueue[w] = <<>> /\ Held(w) = {} /\ pc[w] = "getWork"
  BY EmptyHeld DEF Init, Held
<1>2. ClaimsDisjoint
  BY <1>1, EmptyHeld DEF Init, ClaimsDisjoint
<1>3. QueueUnclaimed
  <2>1. Distinct(queue) /\ queue \in Seq(Line)
    BY QueueAssumption DEF Init
  <2>2. ASSUME NEW k \in DOMAIN queue, IsWork(queue[k]) PROVE queue[k].params \in Text
    <3>1. queue[k] \in Line
      BY <2>1, LenProperties, ElementOfSeq
    <3> QED
      BY <2>2, <3>1 DEF Line, IsWork
  <2> QED
    BY <1>1, <2>1, <2>2 DEF Init, QueueUnclaimed
<1> QED
  BY <1>1, <1>2, <1>3 DEF OwnerInv

(* Every step preserves OwnerInv, action by action. *)
LEMMA NextOwnerInv == TypeInv /\ OwnerInv /\ [Next]_vars => OwnerInv'
<1> SUFFICES ASSUME TypeInv, OwnerInv, [Next]_vars PROVE OwnerInv'
  OBVIOUS
<1>1. ASSUME NEW w \in Worker,
             \/ LockQueue(w) \/ NoWorkLeft(w) \/ NoDoneFile(w) \/ LockDone(w)
             \/ FlushDone(w) \/ ResizeChunk(w) \/ Restart(w)
      PROVE  OwnerInv'
  <2>1. paramsQueue[w] = <<>>
    BY <1>1 DEF LockQueue, NoWorkLeft, NoDoneFile, LockDone, FlushDone, ResizeChunk,
                Restart, TypeInv, PhaseInv, ClaimsHeld
  <2>2. CASE LockQueue(w)
    BY <2>1, <2>2, OwnerFrame DEF LockQueue, history, QuietStep, TypeInv, TypeOK
  <2>3. CASE NoWorkLeft(w)
    BY <2>1, <2>3, OwnerFrame DEF NoWorkLeft, history, QuietStep, TypeInv, TypeOK
  <2>4. CASE NoDoneFile(w)
    BY <2>1, <2>4, OwnerFrame DEF NoDoneFile, files, history, QuietStep, TypeInv, TypeOK
  <2>5. CASE LockDone(w)
    BY <2>1, <2>5, OwnerFrame DEF LockDone, history, QuietStep, TypeInv, TypeOK
  <2>6. CASE FlushDone(w)
    BY <2>1, <2>6, OwnerFrame DEF FlushDone, history, QuietStep, TypeInv, TypeOK
  <2>7. CASE ResizeChunk(w)
    BY <2>1, <2>7, OwnerFrame DEF ResizeChunk, files, history, QuietStep, TypeInv, TypeOK
  <2>8. CASE Restart(w)
    BY <2>1, <2>8, OwnerFrame DEF Restart, files, history, QuietStep, TypeInv, TypeOK
  <2> QED
    BY <1>1, <2>2, <2>3, <2>4, <2>5, <2>6, <2>7, <2>8
<1>2. ASSUME queue' = queue, ended' = ended, runs' = runs, spoiled' = spoiled,
             paramsQueue' = paramsQueue, pc' = pc, pos' = pos, kept' = kept, flushed' = flushed
      PROVE  OwnerInv'
  <2>1. /\ \A w \in Worker : Held(w)' = Held(w) /\ NewContents(w)' = NewContents(w)
        /\ QueueIntact' = QueueIntact
    BY <1>2 DEF Held, NewContents, Claimed, Unended, QueueIntact
  <2>2. ClaimsDisjoint' = ClaimsDisjoint
    BY <1>2 DEF ClaimsDisjoint, Held
  <2>3. QueueUnclaimed' = QueueUnclaimed
    BY <1>2 DEF QueueUnclaimed, Held, Distinct, IsWork
  <2>4. \A w \in Worker : ReadFromQueue(w)' = ReadFromQueue(w)
    BY <1>2 DEF ReadFromQueue, Held, Distinct, IsWork
  <2>5. \A w \in Worker : NewContentsUnclaimed(w)' = NewContentsUnclaimed(w)
    BY <1>2 DEF NewContentsUnclaimed, NewContents, Claimed, Unended, Held, Distinct, IsWork
  <2> QED
    BY <1>2, <2>1, <2>2, <2>3, <2>4, <2>5 DEF OwnerInv
<1>3. CASE CreateDoneFile
  BY <1>2, <1>3 DEF CreateDoneFile, history
<1>4. CASE UNCHANGED vars
  BY <1>2, <1>4 DEF vars
<1> QED
  BY <1>1, <1>3, <1>4, ReadWorkOwner, ReadOtherOwner, StartRewriteOwner,
     FlushQueueOwner, RunItemOwner, CrashOwner DEF Next, Step

(* The invariant says what OneOwner says. *)
LEMMA OwnerInvImplies == TypeInv /\ OwnerInv => OneOwner
<1> SUFFICES ASSUME TypeInv, OwnerInv, ~spoiled PROVE OneOwner
  BY DEF OneOwner
<1> DEFINE Working == {line.params : line \in {l \in Range(Contents) : IsWork(l)}}
           Claiming == UNION {Range(paramsQueue[w]) : w \in {v \in Worker : pc[v] = "rewriting"}}
<1>1. Waiting = Working \cup Claiming
  BY DEF Waiting
<1>2. \A v \in Worker : Owned(v) \subseteq Held(v)
  BY DEF Owned, Held
<1>3. \A v \in Worker : Owned(v) # {} => pc[v] \notin {"reading", "rewriting"}
  BY DEF Owned
<1>4. \A p \in Claiming : runs[p] = 0 /\ \A v \in Worker : p \notin Owned(v)
  <2> SUFFICES ASSUME NEW w \in Worker, pc[w] = "rewriting", NEW p \in Held(w)
               PROVE  runs[p] = 0 /\ \A v \in Worker : p \notin Owned(v)
    BY DEF Held
  <2> QED
    BY <1>2, <1>3 DEF OwnerInv, ClaimsDisjoint
<1>5. \A p \in Working : runs[p] = 0 /\ \A v \in Worker : p \notin Owned(v)
  <2>1. CASE \E w \in Worker : pc[w] = "rewriting"
    <3> DEFINE u == CHOOSE w \in Worker : pc[w] = "rewriting"
    <3>1. u \in Worker /\ pc[u] = "rewriting" /\ Contents = NewContents(u)
      BY <2>1 DEF Contents
    <3> HIDE DEF u
    <3>2. NewContentsUnclaimed(u)
      BY <3>1 DEF OwnerInv
    <3> QED
      BY <1>2, <3>1, <3>2 DEF NewContentsUnclaimed, Range
  <2>2. CASE ~\E w \in Worker : pc[w] = "rewriting"
    <3>1. Contents = queue /\ QueueUnclaimed
      BY <2>2 DEF Contents, OwnerInv, QueueIntact
    <3> QED
      BY <1>2, <1>3, <3>1 DEF QueueUnclaimed, Range
  <2> QED
    BY <2>1, <2>2
<1> HIDE DEF Working, Claiming
<1>6. \A p \in Waiting : runs[p] = 0 /\ \A v \in Worker : p \notin Owned(v)
  BY <1>1, <1>4, <1>5
<1>7. \A w \in Worker : \A p \in Owned(w) :
        runs[p] = 0 /\ \A v \in Worker \ {w} : p \notin Owned(v)
  BY <1>2 DEF OwnerInv, ClaimsDisjoint
<1>8. \A p \in Params : runs[p] <= 1
  BY DEF OwnerInv, ClaimsDisjoint, Text
<1> QED
  BY <1>6, <1>7, <1>8 DEF OneOwner

(* However many processes share the queue file, in whatever order they lock,
   read and rewrite it and wherever they die (short of the middle of a rewrite
   that takes several writes), no parameter set is claimed by two of them and
   none is run twice. *)
THEOREM OneOwnerAlways == Spec => []OneOwner
<1>1. Init => TypeInv /\ OwnerInv
  BY InitTypeInv, InitOwnerInv
<1>2. TypeInv /\ OwnerInv /\ [Next]_vars => (TypeInv /\ OwnerInv)'
  BY NextTypeInv, NextOwnerInv
<1>3. TypeInv /\ OwnerInv => OneOwner
  BY OwnerInvImplies
<1> QED
  BY <1>1, <1>2, <1>3, PTL DEF Spec

(***************************************************************************)
(* The done file: what it names has been run and is named once.            *)
(***************************************************************************)

(* Two sequences without repetitions and without a common element make one
   without repetitions. *)
LEMMA ConcatInjection ==
  ASSUME NEW S, NEW s \in Seq(S), NEW t \in Seq(S), IsInjective(s), IsInjective(t),
         Range(s) \cap Range(t) = {}
  PROVE  IsInjective(s \o t) /\ Range(s \o t) = Range(s) \cup Range(t)
<1>1. Range(s \o t) = Range(s) \cup Range(t)
  BY RangeConcatenation
<1>2. IsInjective(s \o t)
  <2> SUFFICES ASSUME NEW j \in DOMAIN (s \o t), NEW k \in DOMAIN (s \o t),
                      (s \o t)[j] = (s \o t)[k]
               PROVE  j = k
    BY DEF IsInjective
  <2> DEFINE InS(i) == i \in DOMAIN s /\ (s \o t)[i] = s[i]
             InT(i) == \E l \in DOMAIN t : i = Len(s) + l /\ (s \o t)[i] = t[l]
  <2>1. (InS(j) \/ InT(j)) /\ (InS(k) \/ InT(k))
    BY ConcatCases
  <2>2. CASE InS(j) /\ InS(k)
    BY <2>2 DEF IsInjective
  <2>3. CASE InT(j) /\ InT(k)
    BY <2>3 DEF IsInjective
  <2>4. CASE (InS(j) /\ InT(k)) \/ (InT(j) /\ InS(k))
    BY <2>4 DEF Range
  <2> QED
    BY <2>1, <2>2, <2>3, <2>4
<1> QED
  BY <1>1, <1>2

(* Apart from lines that begin with part of another no line stands twice. *)
Once(lines) ==
  \A j, k \in DOMAIN lines : (lines[j] = lines[k] /\ lines[j] # Joined) => j = k

(* The same of two files, of which the first names nothing the second has. *)
LEMMA OnceConcat ==
  ASSUME NEW S, NEW s \in Seq(S), NEW t \in Seq(S), Once(s), Once(t),
         (Range(s) \ {Joined}) \cap Range(t) = {}
  PROVE  Once(s \o t) /\ Range(s \o t) = Range(s) \cup Range(t)
<1>1. Range(s \o t) = Range(s) \cup Range(t)
  BY RangeConcatenation
<1>2. Once(s \o t)
  <2> SUFFICES ASSUME NEW j \in DOMAIN (s \o t), NEW k \in DOMAIN (s \o t),
                      (s \o t)[j] = (s \o t)[k], (s \o t)[j] # Joined
               PROVE  j = k
    BY DEF Once
  <2> DEFINE InS(i) == i \in DOMAIN s /\ (s \o t)[i] = s[i]
             InT(i) == \E l \in DOMAIN t : i = Len(s) + l /\ (s \o t)[i] = t[l]
  <2>1. (InS(j) \/ InT(j)) /\ (InS(k) \/ InT(k))
    BY ConcatCases
  <2>2. CASE InS(j) /\ InS(k)
    BY <2>2 DEF Once
  <2>3. CASE InT(j) /\ InT(k)
    BY <2>3 DEF Once
  <2>4. CASE (InS(j) /\ InT(k)) \/ (InT(j) /\ InS(k))
    BY <2>4 DEF Range
  <2> QED
    BY <2>1, <2>2, <2>3, <2>4
<1> QED
  BY <1>1, <1>2

(* What is written behind a half line: one line that is not what it says, and
   the others as they are. *)
LEMMA JoinedAhead ==
  ASSUME NEW rest \in Seq(Text), NEW lines, lines = <<Joined>> \o rest
  PROVE  /\ lines \in Seq(Text \cup {Joined})
         /\ Len(lines) \in Nat /\ 1 \in DOMAIN lines
         /\ \A i \in DOMAIN lines : lines[i] = Joined <=> i = 1
         /\ Range(lines) = {Joined} \cup Range(rest)
         /\ IsInjective(rest) => Once(lines)
<1> DEFINE head == <<Joined>>
           n == Len(rest)
<1>1. /\ head \in Seq({Joined}) /\ Len(head) = 1 /\ head[1] = Joined
      /\ DOMAIN head = {1}
  OBVIOUS
<1>2. /\ n \in Nat /\ DOMAIN rest = 1..n /\ \A i \in 1..n : rest[i] \in Text
  BY LenProperties, ElementOfSeq
<1>3. /\ head \in Seq(Text \cup {Joined}) /\ rest \in Seq(Text \cup {Joined})
  <2>1. head \in Seq(Text \cup {Joined})
    OBVIOUS
  <2>2. rest \in Seq(Text \cup {Joined})
    OBVIOUS
  <2> QED
    BY <2>1, <2>2
<1>4. lines = head \o rest
  OBVIOUS
<1> HIDE DEF head, n
<1>5. /\ lines \in Seq(Text \cup {Joined}) /\ Len(lines) = 1 + n
      /\ \A i \in 1..(1 + n) : lines[i] = IF i <= 1 THEN head[i] ELSE rest[i - 1]
  BY <1>1, <1>3, <1>4, ConcatProperties DEF n
<1>6. DOMAIN lines = 1..(1 + n)
  BY <1>5, LenProperties
<1>7. \A i \in 1..(1 + n) : i = 1 \/ (~(i <= 1) /\ i - 1 \in 1..n)
  BY <1>2
<1>8. lines[1] = Joined /\ 1 \in 1..(1 + n)
  BY <1>1, <1>2, <1>5
<1>9. \A i \in 1..(1 + n) : i # 1 => lines[i] = rest[i - 1] /\ i - 1 \in DOMAIN rest
                                        /\ lines[i] \in Text
  BY <1>2, <1>5, <1>7
<1>10. \A i \in DOMAIN lines : lines[i] = Joined <=> i = 1
  BY <1>6, <1>8, <1>9, ParamsAssumption
<1>11. Range(lines) = {Joined} \cup Range(rest)
  <2>1. Range(head) = {Joined}
    BY <1>1 DEF Range
  <2>2. Range(head \o rest) = Range(head) \cup Range(rest)
    BY <1>3, RangeConcatenation
  <2> QED
    BY <1>4, <2>1, <2>2
<1>12. ASSUME IsInjective(rest) PROVE Once(lines)
  <2> SUFFICES ASSUME NEW j \in 1..(1 + n), NEW k \in 1..(1 + n),
                      lines[j] = lines[k], lines[j] # Joined
               PROVE  j = k
    BY <1>6 DEF Once
  <2>1. /\ j - 1 \in DOMAIN rest /\ k - 1 \in DOMAIN rest
        /\ rest[j - 1] = rest[k - 1]
    BY <1>8, <1>9
  <2>2. j - 1 = k - 1
    BY <1>12, <2>1 DEF IsInjective
  <2> QED
    BY <1>2, <2>2
<1>13. Len(lines) \in Nat /\ 1 \in DOMAIN lines
  BY <1>2, <1>5, <1>6, <1>8
<1> QED
  BY <1>5, <1>10, <1>11, <1>12, <1>13

(* What is left of a chunk when its first set has been run. *)
LEMMA TailRange ==
  ASSUME NEW S, NEW seq \in Seq(S), seq # <<>>, IsInjective(seq)
  PROVE  Range(Tail(seq)) = Range(seq) \ {Head(seq)}
<1> DEFINE rest == Tail(seq)
           n == Len(seq)
           m == Len(rest)
<1>1. Range(rest) \subseteq Range(seq) \ {Head(seq)}
  BY TailInjection
<1>2. /\ n \in Nat \ {0} /\ DOMAIN seq = 1..n
      /\ rest \in Seq(S) /\ m = n - 1
      /\ \A i \in 1..m : rest[i] = seq[i + 1]
  BY LenProperties, HeadTailProperties, EmptySeq
<1>3. DOMAIN rest = 1..m /\ Head(seq) = seq[1]
  BY <1>2, LenProperties
<1> HIDE DEF rest, n, m
<1>4. ASSUME NEW i \in 1..n, seq[i] # Head(seq) PROVE seq[i] \in Range(rest)
  <2>1. i # 1
    BY <1>3, <1>4
  <2>2. i - 1 \in 1..m /\ (i - 1) + 1 = i
    BY <1>2, <2>1
  <2>3. rest[i - 1] = seq[i]
    BY <1>2, <2>2
  <2> QED
    BY <1>3, <2>2, <2>3 DEF Range
<1>5. Range(seq) \ {Head(seq)} \subseteq Range(rest)
  BY <1>2, <1>4 DEF Range
<1> QED
  BY <1>1, <1>5 DEF rest

------------------------------------------------------------------------------
(* Each process has run what it keeps for the done file, keeps it once, and is
   the only one to do so; and what is in the file is kept by nobody. *)
DoneInv ==
  ~spoiled =>
    /\ Once(done)
    /\ \A p \in Range(done) \ {Joined} : runs[p] = 1
    /\ \A w \in Worker :
         /\ IsInjective(doneParams[w])
         /\ \A p \in Range(doneParams[w]) : runs[p] = 1
         /\ \A v \in Worker \ {w} : Range(doneParams[v]) \cap Range(doneParams[w]) = {}
         /\ Unrecorded(w) \cap Range(done) = {}

(* What a process has yet to record is some of what it keeps. *)
LEMMA UnrecordedKept ==
  ASSUME NEW w \in Worker
  PROVE  Unrecorded(w) \subseteq Range(doneParams[w])
BY DEF Unrecorded, Range

(* A half line that is nobody's is what an append begins behind. *)
LEMMA FragmentBegins ==
  ASSUME TypeInv, NEW w \in Worker, pc[w] = "appending"
  PROVE  (flushed[w] = 0 /\ doneHalf) <=> Fragment
<1>1. flushed[w] \in Nat /\ \A v \in Worker : pc[v] = "appending" => v = w
  BY DEF TypeInv, TypeOK, PhaseInv, LocksHeld
<1> QED
  BY <1>1 DEF Fragment

(* The lines that are to be written next. *)
LEMMA SegmentLines ==
  ASSUME TypeInv, NEW w \in Worker, pc[w] = "appending",
         NEW upto, upto = NextFlush(flushed[w], Len(doneParams[w]))
  PROVE  /\ SubSeq(doneParams[w], flushed[w] + 1, upto) \in Seq(Text)
         /\ SubSeq(doneParams[w], flushed[w] + 1, upto) # <<>>
<1> DEFINE n == Len(doneParams[w])
           from == flushed[w]
           seg == SubSeq(doneParams[w], from + 1, upto)
<1>1. /\ from \in Nat /\ from < n /\ n \in Nat /\ doneParams[w] \in Seq(Text)
  BY LenProperties DEF TypeInv, TypeOK, PhaseInv, ChunkTimed
<1>2. upto \in Nat /\ from < upto /\ upto <= n
  BY <1>1, NextFlushAdvances
<1>3. \A i \in (from + 1)..upto : doneParams[w][i] \in Text
  <2>1. \A i \in (from + 1)..upto : i \in 1..n
    BY <1>1, <1>2
  <2> QED
    BY <1>1, <2>1, ElementOfSeq
<1> HIDE DEF from
<1>4. /\ seg \in Seq(Text)
      /\ Len(seg) = IF from + 1 <= upto THEN upto - (from + 1) + 1 ELSE 0
  BY <1>1, <1>2, <1>3, SubSeqProperties
<1> HIDE DEF seg, n
<1>5. Len(seg) # 0
  BY <1>1, <1>2, <1>4
<1>6. seg # <<>>
  BY <1>5, EmptySeq
<1> QED
  BY <1>4, <1>6 DEF seg, from

(* A write() to the done file: the half line that may have stood there is used
   up, and no other is left behind by a process that lives. *)
LEMMA FlushDoneWrites ==
  ASSUME TypeInv, NEW w \in Worker, FlushDone(w),
         NEW seg, seg = SubSeq(doneParams[w], flushed[w] + 1,
                               NextFlush(flushed[w], Len(doneParams[w])))
  PROVE  /\ done' = done \o (IF Fragment THEN <<Joined>> \o Tail(seg) ELSE seg)
         /\ ~Fragment'
<1> DEFINE n == Len(doneParams[w])
           upto == NextFlush(flushed[w], n)
<1>1. /\ pc[w] = "appending" /\ flushed[w] \in Nat /\ flushed[w] < n /\ n \in Nat
  BY LenProperties DEF TypeInv, TypeOK, FlushDone, PhaseInv, ChunkTimed
<1>2. upto \in Nat /\ flushed[w] < upto
  BY <1>1, NextFlushAdvances
<1>3. done' = done \o Appended(w, upto)
  BY DEF FlushDone
<1>4. Appended(w, upto) = IF Fragment THEN <<Joined>> \o Tail(seg) ELSE seg
  BY <1>1, FragmentBegins DEF Appended
<1>5. /\ upto = n => ~doneHalf'
      /\ upto # n => pc'[w] = "appending"
      /\ flushed'[w] = upto
  BY <1>1 DEF FlushDone, TypeInv, TypeOK
<1> HIDE DEF upto, n
<1>6. ~Fragment'
  BY <1>1, <1>2, <1>5 DEF Fragment
<1> QED
  BY <1>3, <1>4, <1>6

(* A write() to the done file brings to their end lines for some of what its
   process has yet to record, and that is then recorded: each once, but for the
   first of them if a half line stood before it. *)
LEMMA FlushDoneRecords ==
  ASSUME TypeInv, NEW w \in Worker, FlushDone(w), IsInjective(doneParams[w])
  PROVE  \E piece \in Seq(Text) :
           /\ IsInjective(piece) /\ piece # <<>>
           /\ Range(piece) \subseteq Unrecorded(w)
           /\ done' = done \o (IF Fragment THEN <<Joined>> \o Tail(piece) ELSE piece)
           /\ ~Fragment'
           /\ Unrecorded(w)' = Unrecorded(w) \ Range(piece)
           /\ doneParams'[w] \in {doneParams[w], <<>>}
<1> DEFINE mine == doneParams[w]
           n == Len(mine)
           from == flushed[w]
           upto == NextFlush(from, n)
           piece == SubSeq(mine, from + 1, upto)
<1>1. /\ pc[w] = "appending" /\ from \in Nat /\ from < n /\ n \in Nat
      /\ mine \in Seq(Text) /\ DOMAIN mine = 1..n
  BY LenProperties DEF TypeInv, TypeOK, FlushDone, PhaseInv, ChunkTimed
<1>2. upto \in Nat /\ from < upto /\ upto <= n
  BY <1>1, NextFlushAdvances
<1>3. /\ flushed'[w] = upto
      /\ upto = n => doneParams'[w] = <<>> /\ pc'[w] = "resize"
      /\ upto # n => doneParams' = doneParams /\ pc' = pc
  BY DEF FlushDone, TypeInv, TypeOK
<1>10. /\ done' = done \o (IF Fragment THEN <<Joined>> \o Tail(piece) ELSE piece)
       /\ ~Fragment'
  BY FlushDoneWrites
<1> HIDE DEF upto
<1>4. /\ piece \in Seq(Text) /\ IsInjective(piece)
      /\ Range(piece) = {mine[j] : j \in (from + 1)..upto}
  BY <1>1, <1>2, PieceInjection
<1> HIDE DEF piece, n, from, mine
<1>5. Unrecorded(w) = {mine[j] : j \in {k \in 1..n : k > from}}
  BY <1>1 DEF Unrecorded, mine, from
<1>6. \A j \in (from + 1)..upto : j \in 1..n /\ j > from
  BY <1>1, <1>2
<1>7. Range(piece) \subseteq Unrecorded(w)
  BY <1>4, <1>5, <1>6
<1>8. piece # <<>>
  <2>1. from + 1 \in (from + 1)..upto
    BY <1>1, <1>2
  <2>2. Range(piece) # {}
    BY <1>4, <2>1
  <2> QED
    BY <2>2, EmptyHeld
<1>9. Unrecorded(w)' = Unrecorded(w) \ Range(piece)
  <2>1. \A k \in 1..n : k > from => (k > upto <=> k \notin (from + 1)..upto)
    BY <1>1, <1>2
  <2>2. \A j, k \in 1..n : mine[j] = mine[k] => j = k
    BY <1>1 DEF IsInjective, mine
  <2>3. Unrecorded(w) \ Range(piece) = {mine[j] : j \in {k \in 1..n : k > upto}}
    <3>1. ASSUME NEW j \in 1..n, j > from, mine[j] \notin Range(piece) PROVE j > upto
      BY <1>4, <2>1, <3>1
    <3>2. ASSUME NEW j \in 1..n, j > upto PROVE j > from /\ mine[j] \notin Range(piece)
      BY <1>1, <1>2, <1>4, <1>6, <2>1, <2>2, <3>2
    <3> QED
      BY <1>5, <3>1, <3>2
  <2>4. CASE upto = n
    <3>1. {k \in 1..n : k > upto} = {}
      BY <1>1, <2>4
    <3>2. Unrecorded(w)' = {}
      BY <1>3, <2>4 DEF Unrecorded
    <3> QED
      BY <2>3, <3>1, <3>2
  <2>5. CASE upto # n
    BY <1>1, <1>3, <2>3, <2>5 DEF Unrecorded, mine
  <2> QED
    BY <2>4, <2>5
<1> QED
  BY <1>3, <1>4, <1>7, <1>8, <1>9, <1>10 DEF mine

(* What most steps do: nothing to the records. *)
RecordsStay ==
  /\ done' = done /\ doneParams' = doneParams /\ Fragment' = Fragment
  /\ \A v \in Worker : Unrecorded(v)' = Unrecorded(v)

(* Only running a set, writing to the done file and a crash change what is
   recorded or yet to be. *)
LEMMA QuietRecords ==
  ASSUME TypeInv, NEW w \in Worker,
         \/ LockQueue(w) \/ ReadWork(w) \/ ReadOther(w) \/ NoWorkLeft(w)
         \/ StartRewrite(w) \/ FlushQueue(w) \/ NoDoneFile(w) \/ LockDone(w)
         \/ ResizeChunk(w) \/ Restart(w)
  PROVE  RecordsStay /\ runs' = runs /\ (spoiled => spoiled') /\ crashes' = crashes
<1>1. CASE LockDone(w)
  <2>1. /\ pc[w] = "work" /\ pc'[w] = "appending" /\ flushed'[w] = 0
        /\ \A v \in Worker \ {w} : pc'[v] = pc[v] /\ flushed'[v] = flushed[v]
        /\ done' = done /\ doneHalf' = doneHalf /\ doneParams' = doneParams
        /\ runs' = runs /\ spoiled' = spoiled /\ crashes' = crashes
    BY <1>1 DEF LockDone, history, TypeInv, TypeOK
  <2>2. \A j \in DOMAIN doneParams[w] : j > 0
    <3>1. doneParams[w] \in Seq(Text)
      BY DEF TypeInv, TypeOK
    <3>2. DOMAIN doneParams[w] = 1..Len(doneParams[w]) /\ Len(doneParams[w]) \in Nat
      BY <3>1, LenProperties
    <3> QED
      BY <3>2
  <2>3. Unrecorded(w)' = Unrecorded(w)
    BY <2>1, <2>2 DEF Unrecorded
  <2>4. \A v \in Worker \ {w} : Unrecorded(v)' = Unrecorded(v)
    BY <2>1 DEF Unrecorded
  <2>5. Fragment' = Fragment
    <3>1. \A v \in Worker : (pc'[v] = "appending" /\ flushed'[v] > 0)
                             <=> (pc[v] = "appending" /\ flushed[v] > 0)
      BY <2>1
    <3> QED
      BY <2>1, <3>1 DEF Fragment
  <2> QED
    BY <2>1, <2>3, <2>4, <2>5 DEF RecordsStay
<1>2. ASSUME pc[w] # "appending", pc'[w] # "appending",
             \A v \in Worker \ {w} : pc'[v] = pc[v] /\ flushed'[v] = flushed[v],
             done' = done, doneHalf' = doneHalf, doneParams' = doneParams
      PROVE  RecordsStay
  <2>1. \A v \in Worker : Unrecorded(v)' = Unrecorded(v)
    BY <1>2 DEF Unrecorded
  <2>2. Fragment' = Fragment
    <3>1. \A v \in Worker : (pc'[v] = "appending" /\ flushed'[v] > 0)
                             <=> (pc[v] = "appending" /\ flushed[v] > 0)
      BY <1>2
    <3> QED
      BY <1>2, <3>1 DEF Fragment
  <2> QED
    BY <1>2, <2>1, <2>2 DEF RecordsStay
<1>3. CASE LockQueue(w)
  BY <1>2, <1>3 DEF LockQueue, history, TypeInv, TypeOK
<1>4. CASE ReadWork(w)
  BY <1>2, <1>4 DEF ReadWork, files, history, TypeInv, TypeOK
<1>5. CASE ReadOther(w)
  BY <1>2, <1>5 DEF ReadOther, files, history, TypeInv, TypeOK
<1>6. CASE NoWorkLeft(w)
  BY <1>2, <1>6 DEF NoWorkLeft, history, TypeInv, TypeOK
<1>7. CASE StartRewrite(w)
  BY <1>2, <1>7 DEF StartRewrite, files, history, TypeInv, TypeOK
<1>8. CASE FlushQueue(w)
  <2>1. /\ pc[w] = "rewriting" /\ pc'[w] # "appending"
        /\ \A v \in Worker \ {w} : pc'[v] = pc[v] /\ flushed'[v] = flushed[v]
        /\ done' = done /\ doneHalf' = doneHalf /\ doneParams' = doneParams
        /\ runs' = runs /\ spoiled' = spoiled /\ crashes' = crashes
    BY <1>8 DEF FlushQueue, history, TypeInv, TypeOK
  <2> QED
    BY <1>2, <2>1
<1>9. CASE NoDoneFile(w)
  BY <1>2, <1>9 DEF NoDoneFile, files, history, TypeInv, TypeOK
<1>10. CASE ResizeChunk(w)
  BY <1>2, <1>10 DEF ResizeChunk, files, history, TypeInv, TypeOK
<1>11. CASE Restart(w)
  BY <1>2, <1>11 DEF Restart, files, history, TypeInv, TypeOK
<1> QED
  BY <1>1, <1>3, <1>4, <1>5, <1>6, <1>7, <1>8, <1>9, <1>10, <1>11

(* The same of the user's part, and of no step at all. *)
LEMMA StutterRecords ==
  ASSUME CreateDoneFile \/ UNCHANGED vars
  PROVE  RecordsStay /\ runs' = runs /\ (spoiled => spoiled') /\ crashes' = crashes
<1>1. /\ done' = done /\ doneParams' = doneParams /\ pc' = pc /\ flushed' = flushed
      /\ doneHalf' = doneHalf /\ runs' = runs /\ spoiled' = spoiled /\ crashes' = crashes
  BY DEF CreateDoneFile, history, vars
<1> QED
  BY <1>1 DEF RecordsStay, Unrecorded, Fragment

(* A set that is run leaves the chunk of its process and is yet to be recorded
   by it. *)
LEMMA RunItemRecords ==
  ASSUME TypeInv, NEW w \in Worker, NEW duration \in Durations, RunItem(w, duration)
  PROVE  LET set == Head(paramsQueue[w])
         IN /\ set \in Text /\ set \in Held(w)
            /\ pc[w] = "work" /\ pc' = pc /\ done' = done /\ spoiled' = spoiled
            /\ Fragment' = Fragment
            /\ doneParams'[w] = Append(doneParams[w], set)
            /\ Range(doneParams'[w]) = Range(doneParams[w]) \cup {set}
            /\ (IsInjective(doneParams[w]) /\ set \notin Range(doneParams[w])) =>
                 IsInjective(doneParams'[w])
            /\ Unrecorded(w)' = Unrecorded(w) \cup {set}
            /\ \A v \in Worker \ {w} : doneParams'[v] = doneParams[v]
                                        /\ Unrecorded(v)' = Unrecorded(v)
<1> DEFINE set == Head(paramsQueue[w])
<1>1. /\ pc[w] = "work" /\ pc' = pc /\ done' = done /\ spoiled' = spoiled
      /\ flushed' = flushed /\ doneHalf' = doneHalf /\ paramsQueue[w] # <<>>
      /\ doneParams' = [doneParams EXCEPT ![w] = Append(doneParams[w], set)]
  BY DEF RunItem, files
<1>2. /\ paramsQueue[w] \in Seq(Text) /\ doneParams \in [Worker -> Seq(Text)]
  BY DEF TypeInv, TypeOK
<1>3. set \in Text /\ set \in Held(w)
  <2>1. /\ Len(paramsQueue[w]) \in Nat \ {0} /\ set = paramsQueue[w][1]
        /\ DOMAIN paramsQueue[w] = 1..Len(paramsQueue[w])
    BY <1>1, <1>2, EmptySeq, LenProperties, HeadTailProperties
  <2>2. 1 \in DOMAIN paramsQueue[w]
    BY <2>1
  <2> QED
    BY <1>2, <2>1, <2>2, ElementOfSeq DEF Held, Range
<1> HIDE DEF set
<1>4. doneParams'[w] = Append(doneParams[w], set)
  BY <1>1, <1>2
<1>5. /\ Range(doneParams'[w]) = Range(doneParams[w]) \cup {set}
      /\ (IsInjective(doneParams[w]) /\ set \notin Range(doneParams[w])) =>
           IsInjective(doneParams'[w])
  BY <1>2, <1>3, <1>4, AppendInjection
<1>6. Unrecorded(w)' = Unrecorded(w) \cup {set}
  <2>1. Unrecorded(w) = Range(doneParams[w]) /\ Unrecorded(w)' = Range(doneParams'[w])
    BY <1>1 DEF Unrecorded, Range
  <2> QED
    BY <1>5, <2>1
<1>7. \A v \in Worker \ {w} : doneParams'[v] = doneParams[v] /\ Unrecorded(v)' = Unrecorded(v)
  BY <1>1, <1>2 DEF Unrecorded
<1>8. Fragment' = Fragment
  BY <1>1 DEF Fragment
<1> QED
  BY <1>1, <1>3, <1>4, <1>5, <1>6, <1>7, <1>8 DEF set

(* A crash forgets what its process has yet to record. *)
LEMMA CrashRecords ==
  ASSUME TypeInv, NEW w \in Worker, Crash(w)
  PROVE  /\ done' = done /\ runs' = runs /\ (spoiled => spoiled')
         /\ doneParams'[w] = <<>> /\ Unrecorded(w)' = {}
         /\ Fragment' # Fragment => Fragment' /\ pc[w] = "appending"
         /\ \A v \in Worker \ {w} : doneParams'[v] = doneParams[v]
                                     /\ Unrecorded(v)' = Unrecorded(v)
<1>1. /\ done' = done /\ doneHalf' = doneHalf
      /\ runs' = runs /\ (spoiled => spoiled') /\ doneParams'[w] = <<>>
      /\ pc'[w] = "crashed"
      /\ \A v \in Worker \ {w} : /\ doneParams'[v] = doneParams[v] /\ pc'[v] = pc[v]
                                  /\ flushed'[v] = flushed[v]
  BY DEF Crash, TypeInv, TypeOK
<1>2. Fragment' # Fragment => Fragment' /\ pc[w] = "appending"
  <2>1. ASSUME Fragment PROVE Fragment'
    BY <1>1, <2>1 DEF Fragment
  <2>2. ASSUME Fragment', ~Fragment PROVE pc[w] = "appending"
    BY <1>1, <2>2 DEF Fragment
  <2> QED
    BY <2>1, <2>2 DEF Fragment
<1> QED
  BY <1>1, <1>2 DEF Unrecorded

(* Nothing is run, kept or recorded at first. *)
LEMMA InitDoneInv == Init => DoneInv
<1> SUFFICES ASSUME Init PROVE DoneInv
  OBVIOUS
<1>1. done = <<>> /\ \A w \in Worker : doneParams[w] = <<>>
  BY DEF Init
<1>2. \A w \in Worker : Unrecorded(w) = {}
  BY <1>1, EmptyHeld, UnrecordedKept
<1> QED
  BY <1>1, <1>2, EmptyHeld DEF DoneInv, Once

(* A step that leaves the records and the runs alone. *)
LEMMA RecordsFrame ==
  ASSUME DoneInv, RecordsStay, runs' = runs, spoiled => spoiled'
  PROVE  DoneInv'
BY DEF DoneInv, RecordsStay, Once

(* The set that is run has been run by nobody: it is in no record. *)
LEMMA RunItemDone ==
  ASSUME TypeInv, OwnerInv, DoneInv, NEW w \in Worker, NEW duration \in Durations,
         RunItem(w, duration)
  PROVE  DoneInv'
<1> DEFINE set == Head(paramsQueue[w])
<1> SUFFICES ASSUME ~spoiled PROVE DoneInv'
  BY DEF DoneInv, RunItem
<1>1. /\ set \in Text /\ set \in Held(w) /\ done' = done /\ spoiled' = spoiled
      /\ Range(doneParams'[w]) = Range(doneParams[w]) \cup {set}
      /\ (IsInjective(doneParams[w]) /\ set \notin Range(doneParams[w])) =>
           IsInjective(doneParams'[w])
      /\ Unrecorded(w)' = Unrecorded(w) \cup {set}
      /\ \A v \in Worker \ {w} : doneParams'[v] = doneParams[v]
                                  /\ Unrecorded(v)' = Unrecorded(v)
  BY RunItemRecords
<1>2. runs' = [runs EXCEPT ![set] = runs[set] + 1] /\ runs \in [Text -> Nat]
  BY DEF RunItem, TypeInv, TypeOK
<1> HIDE DEF set
<1>3. runs[set] = 0
  BY <1>1 DEF OwnerInv, ClaimsDisjoint
<1>4. runs'[set] = 1 /\ \A p \in Text \ {set} : runs'[p] = runs[p]
  BY <1>1, <1>2, <1>3
<1>5. /\ set \notin Range(done) \ {Joined}
      /\ \A v \in Worker : set \notin Range(doneParams[v])
  BY <1>3 DEF DoneInv
<1>6. /\ Range(done) \subseteq Text \cup {Joined}
      /\ \A v \in Worker : Range(doneParams[v]) \subseteq Text
  BY RangeOfSeq DEF TypeInv, TypeOK
<1>10. set \notin Range(done)
  BY <1>1, <1>5, ParamsAssumption
<1>7. Once(done') /\ \A p \in Range(done') \ {Joined} : runs'[p] = 1
  BY <1>1, <1>4, <1>5, <1>6 DEF DoneInv, Once
<1>8. ASSUME NEW v \in Worker
      PROVE  /\ IsInjective(doneParams'[v])
             /\ \A p \in Range(doneParams'[v]) : runs'[p] = 1
             /\ Unrecorded(v)' \cap Range(done') = {}
  BY <1>1, <1>4, <1>5, <1>6, <1>10 DEF DoneInv
<1>9. ASSUME NEW u \in Worker, NEW v \in Worker \ {u}
      PROVE  Range(doneParams'[v]) \cap Range(doneParams'[u]) = {}
  BY <1>1, <1>5 DEF DoneInv
<1> QED
  BY <1>7, <1>8, <1>9 DEF DoneInv

(* What is written to the done file was in no other record, and is in none
   from then on. *)
LEMMA FlushDoneDone ==
  ASSUME TypeInv, DoneInv, NEW w \in Worker, FlushDone(w)
  PROVE  DoneInv'
<1> SUFFICES ASSUME ~spoiled PROVE DoneInv'
  BY DEF DoneInv, FlushDone, history
<1>1. PICK piece \in Seq(Text) :
        /\ IsInjective(piece) /\ piece # <<>> /\ Range(piece) \subseteq Unrecorded(w)
        /\ done' = done \o (IF Fragment THEN <<Joined>> \o Tail(piece) ELSE piece)
        /\ Unrecorded(w)' = Unrecorded(w) \ Range(piece)
        /\ doneParams'[w] \in {doneParams[w], <<>>}
  BY FlushDoneRecords DEF DoneInv
<1> DEFINE lines == IF Fragment THEN <<Joined>> \o Tail(piece) ELSE piece
<1>2. /\ runs' = runs
      /\ \A v \in Worker \ {w} : doneParams'[v] = doneParams[v]
                                  /\ Unrecorded(v)' = Unrecorded(v)
  <2>1. /\ runs' = runs
        /\ \A v \in Worker \ {w} : doneParams'[v] = doneParams[v] /\ pc'[v] = pc[v]
                                    /\ flushed'[v] = flushed[v]
    BY DEF FlushDone, history, TypeInv, TypeOK
  <2> QED
    BY <2>1 DEF Unrecorded
<1>3. Range(piece) \subseteq Range(doneParams[w]) /\ Range(piece) \cap Range(done) = {}
  BY <1>1, UnrecordedKept DEF DoneInv
<1>10. /\ lines \in Seq(Text \cup {Joined}) /\ Once(lines)
       /\ Range(lines) \subseteq Range(piece) \cup {Joined}
  <2>1. piece \in Seq(Text \cup {Joined}) /\ Once(piece)
    BY <1>1 DEF Once, IsInjective
  <2>2. /\ Tail(piece) \in Seq(Text) /\ IsInjective(Tail(piece))
        /\ Range(Tail(piece)) \subseteq Range(piece)
    BY <1>1, TailInjection, HeadTailProperties
  <2>3. CASE Fragment
    <3>1. lines = <<Joined>> \o Tail(piece)
      BY <2>3
    <3> HIDE DEF lines
    <3>2. /\ lines \in Seq(Text \cup {Joined}) /\ Once(lines)
          /\ Range(lines) = {Joined} \cup Range(Tail(piece))
      BY <2>2, <3>1, JoinedAhead
    <3> QED
      BY <2>2, <3>2
  <2>4. CASE ~Fragment
    BY <2>1, <2>4
  <2> QED
    BY <2>3, <2>4
<1> HIDE DEF lines
<1>4. Once(done') /\ Range(done') = Range(done) \cup Range(lines)
  <2>1. /\ done \in Seq(Text \cup {Joined}) /\ Once(done)
        /\ (Range(done) \ {Joined}) \cap Range(lines) = {}
    BY <1>3, <1>10 DEF DoneInv, TypeInv, TypeOK
  <2>2. Once(done \o lines) /\ Range(done \o lines) = Range(done) \cup Range(lines)
    BY <1>10, <2>1, OnceConcat
  <2>3. done' = done \o lines
    BY <1>1 DEF lines
  <2> QED
    BY <2>2, <2>3, Zenon
<1>5. /\ IsInjective(doneParams'[w])
      /\ Range(doneParams'[w]) \subseteq Range(doneParams[w])
  BY <1>1, EmptyHeld DEF DoneInv
<1>6. \A p \in Range(done') \ {Joined} : runs'[p] = 1
  BY <1>2, <1>3, <1>4, <1>10 DEF DoneInv
<1>7. ASSUME NEW v \in Worker
      PROVE  /\ IsInjective(doneParams'[v])
             /\ \A p \in Range(doneParams'[v]) : runs'[p] = 1
  BY <1>2, <1>5 DEF DoneInv
<1>8. ASSUME NEW v \in Worker PROVE Unrecorded(v)' \cap Range(done') = {}
  <2>1. Joined \notin Unrecorded(v)
    <3>1. Range(doneParams[v]) \subseteq Text
      BY RangeOfSeq DEF TypeInv, TypeOK
    <3> QED
      BY <3>1, UnrecordedKept, ParamsAssumption
  <2>2. Unrecorded(v)' \subseteq Unrecorded(v) \ Range(piece)
    <3>1. CASE v = w
      BY <1>1, <3>1
    <3>2. CASE v # w
      BY <1>2, <1>3, <3>2, UnrecordedKept DEF DoneInv
    <3> QED
      BY <3>1, <3>2
  <2> QED
    BY <1>4, <1>10, <2>1, <2>2 DEF DoneInv
<1>9. ASSUME NEW u \in Worker, NEW v \in Worker \ {u}
      PROVE  Range(doneParams'[v]) \cap Range(doneParams'[u]) = {}
  BY <1>2, <1>5 DEF DoneInv
<1> QED
  BY <1>4, <1>6, <1>7, <1>8, <1>9 DEF DoneInv

(* A crash only takes from the records. *)
LEMMA CrashDone ==
  ASSUME TypeInv, DoneInv, NEW w \in Worker, Crash(w)
  PROVE  DoneInv'
<1> SUFFICES ASSUME ~spoiled' PROVE DoneInv'
  BY DEF DoneInv
<1>1. /\ done' = done /\ runs' = runs /\ ~spoiled
      /\ doneParams'[w] = <<>> /\ Unrecorded(w)' = {}
      /\ \A v \in Worker \ {w} : doneParams'[v] = doneParams[v]
                                  /\ Unrecorded(v)' = Unrecorded(v)
  BY CrashRecords
<1>2. Range(doneParams'[w]) = {} /\ IsInjective(doneParams'[w])
  BY <1>1, EmptyHeld
<1>3. ASSUME NEW v \in Worker
      PROVE  /\ IsInjective(doneParams'[v])
             /\ \A p \in Range(doneParams'[v]) : runs'[p] = 1
             /\ Unrecorded(v)' \cap Range(done') = {}
  BY <1>1, <1>2 DEF DoneInv
<1>4. ASSUME NEW u \in Worker, NEW v \in Worker \ {u}
      PROVE  Range(doneParams'[v]) \cap Range(doneParams'[u]) = {}
  BY <1>1, <1>2 DEF DoneInv
<1> QED
  BY <1>1, <1>3, <1>4 DEF DoneInv, Once

(* Every step preserves DoneInv. *)
LEMMA NextDoneInv == TypeInv /\ OwnerInv /\ DoneInv /\ [Next]_vars => DoneInv'
<1> SUFFICES ASSUME TypeInv, OwnerInv, DoneInv, [Next]_vars PROVE DoneInv'
  OBVIOUS
<1>1. ASSUME NEW w \in Worker,
             \/ LockQueue(w) \/ ReadWork(w) \/ ReadOther(w) \/ NoWorkLeft(w)
             \/ StartRewrite(w) \/ FlushQueue(w) \/ NoDoneFile(w) \/ LockDone(w)
             \/ ResizeChunk(w) \/ Restart(w)
      PROVE  DoneInv'
  BY <1>1, QuietRecords, RecordsFrame
<1>2. CASE CreateDoneFile \/ UNCHANGED vars
  BY <1>2, StutterRecords, RecordsFrame
<1> QED
  BY <1>1, <1>2, RunItemDone, FlushDoneDone, CrashDone DEF Next, Step

(* The half lines that crashes left, whether another was written behind them or
   not: there are no more of them than crashes. *)
CountInv ==
  /\ IsFiniteSet(JoinedLines)
  /\ Cardinality(JoinedLines) + (IF Fragment THEN 1 ELSE 0) <= crashes

(* A write() uses up the half line it is behind. *)
LEMMA FlushDoneCount ==
  ASSUME TypeInv, CountInv, NEW w \in Worker, FlushDone(w)
  PROVE  CountInv'
<1> DEFINE n == Len(done)
           seg == SubSeq(doneParams[w], flushed[w] + 1,
                         NextFlush(flushed[w], Len(doneParams[w])))
           lines == IF Fragment THEN <<Joined>> \o Tail(seg) ELSE seg
<1>1. pc[w] = "appending" /\ crashes' = crashes
  BY DEF FlushDone, history
<1>2. seg \in Seq(Text) /\ seg # <<>>
  BY <1>1, SegmentLines
<1>3. done' = done \o lines /\ ~Fragment'
  BY FlushDoneWrites
<1>4. /\ lines \in Seq(Text \cup {Joined}) /\ Len(lines) \in Nat
      /\ DOMAIN lines = 1..Len(lines) /\ (Fragment => 1 \in DOMAIN lines)
      /\ \A i \in DOMAIN lines : lines[i] = Joined <=> (Fragment /\ i = 1)
  <2>1. CASE ~Fragment
    <3>1. lines = seg
      BY <2>1
    <3> HIDE DEF lines, seg
    <3>2. seg \in Seq(Text \cup {Joined})
      BY <1>2
    <3>3. /\ Len(seg) \in Nat /\ DOMAIN seg = 1..Len(seg)
          /\ \A i \in DOMAIN seg : seg[i] \in Text
      BY <1>2, LenProperties, ElementOfSeq
    <3> QED
      BY <2>1, <3>1, <3>2, <3>3, ParamsAssumption
  <2>2. CASE Fragment
    <3>1. Tail(seg) \in Seq(Text) /\ lines = <<Joined>> \o Tail(seg)
      BY <1>2, <2>2, HeadTailProperties
    <3> HIDE DEF lines
    <3>2. /\ lines \in Seq(Text \cup {Joined}) /\ Len(lines) \in Nat /\ 1 \in DOMAIN lines
          /\ \A i \in DOMAIN lines : lines[i] = Joined <=> i = 1
      BY <3>1, JoinedAhead
    <3> QED
      BY <2>2, <3>2, LenProperties
  <2> QED
    BY <2>1, <2>2
<1> HIDE DEF lines, seg
<1>6. /\ done \in Seq(Text \cup {Joined}) /\ n \in Nat /\ DOMAIN done = 1..n
  BY LenProperties DEF TypeInv, TypeOK
<1>7. /\ DOMAIN done' = 1..(n + Len(lines))
      /\ \A i \in 1..(n + Len(lines)) : done'[i] = IF i <= n THEN done[i] ELSE lines[i - n]
  BY <1>3, <1>4, <1>6, ConcatProperties, LenProperties
<1> HIDE DEF n
<1>8. JoinedLines' = JoinedLines \cup (IF Fragment THEN {n + 1} ELSE {})
  <2>1. \A i \in 1..(n + Len(lines)) :
          \/ i \in 1..n /\ i <= n
          \/ ~(i <= n) /\ i - n \in 1..Len(lines) /\ (i - n = 1 <=> i = n + 1)
    BY <1>4, <1>6
  <2>2. /\ 1..n \subseteq 1..(n + Len(lines))
        /\ Fragment => n + 1 \in 1..(n + Len(lines))
        /\ n + 1 \notin 1..n
    BY <1>4, <1>6
  <2>3. JoinedLines' = {i \in 1..(n + Len(lines)) : done'[i] = Joined}
    BY <1>7 DEF JoinedLines
  <2>4. JoinedLines = {i \in 1..n : done[i] = Joined}
    BY <1>6 DEF JoinedLines
  <2>5. ASSUME NEW i \in 1..(n + Len(lines))
        PROVE  done'[i] = Joined <=> \/ i \in 1..n /\ done[i] = Joined
                                     \/ Fragment /\ i = n + 1
    BY <1>4, <1>6, <1>7, <2>1
  <2> QED
    BY <2>2, <2>3, <2>4, <2>5
<1>9. CASE ~Fragment
  BY <1>1, <1>3, <1>8, <1>9 DEF CountInv
<1>10. CASE Fragment
  <2>1. n + 1 \notin JoinedLines
    BY <1>6 DEF JoinedLines
  <2>2. /\ IsFiniteSet(JoinedLines \cup {n + 1})
        /\ Cardinality(JoinedLines \cup {n + 1}) = Cardinality(JoinedLines) + 1
    BY <2>1, FS_AddElement DEF CountInv
  <2>3. Cardinality(JoinedLines) \in Nat /\ crashes \in Nat
    BY FS_CardinalityType DEF CountInv, TypeInv, TypeOK
  <2>4. JoinedLines' = JoinedLines \cup {n + 1}
    BY <1>8, <1>10
  <2>5. Cardinality(JoinedLines) + 1 <= crashes
    BY <1>10 DEF CountInv
  <2>6. IsFiniteSet(JoinedLines') /\ Cardinality(JoinedLines') = Cardinality(JoinedLines) + 1
    BY <2>2, <2>4
  <2>7. Cardinality(JoinedLines') + 0 <= crashes'
    BY <1>1, <2>3, <2>5, <2>6
  <2> QED
    BY <1>3, <2>6, <2>7 DEF CountInv
<1> QED
  BY <1>9, <1>10

(* Every other step leaves the lines alone, and only a crash leaves half of one. *)
LEMMA NextCountInv == TypeInv /\ CountInv /\ [Next]_vars => CountInv'
<1> SUFFICES ASSUME TypeInv, CountInv, [Next]_vars PROVE CountInv'
  OBVIOUS
<1>1. ASSUME RecordsStay, crashes' = crashes PROVE CountInv'
  BY <1>1 DEF RecordsStay, CountInv, JoinedLines
<1>2. ASSUME NEW w \in Worker,
             \/ LockQueue(w) \/ ReadWork(w) \/ ReadOther(w) \/ NoWorkLeft(w)
             \/ StartRewrite(w) \/ FlushQueue(w) \/ NoDoneFile(w) \/ LockDone(w)
             \/ ResizeChunk(w) \/ Restart(w)
      PROVE  CountInv'
  BY <1>1, <1>2, QuietRecords
<1>3. CASE CreateDoneFile \/ UNCHANGED vars
  BY <1>1, <1>3, StutterRecords
<1>4. ASSUME NEW w \in Worker, NEW duration \in Durations, RunItem(w, duration)
      PROVE  CountInv'
  <2>1. done' = done /\ Fragment' = Fragment
    BY <1>4, RunItemRecords
  <2>2. crashes' = crashes
    BY <1>4 DEF RunItem
  <2> QED
    BY <2>1, <2>2 DEF CountInv, JoinedLines
<1>5. ASSUME NEW w \in Worker, Crash(w) PROVE CountInv'
  <2>1. done' = done /\ crashes' = crashes + 1
    BY <1>5 DEF Crash
  <2>2. JoinedLines' = JoinedLines
    BY <2>1 DEF JoinedLines
  <2>3. Cardinality(JoinedLines) \in Nat /\ crashes \in Nat
    BY FS_CardinalityType DEF CountInv, TypeInv, TypeOK
  <2> QED
    BY <2>1, <2>2, <2>3 DEF CountInv
<1> QED
  BY <1>2, <1>3, <1>4, <1>5, FlushDoneCount DEF Next, Step

(* There is no line at first. *)
LEMMA InitCountInv == Init => CountInv
<1> SUFFICES ASSUME Init PROVE CountInv
  OBVIOUS
<1>1. JoinedLines = {} /\ ~Fragment /\ crashes = 0
  BY DEF Init, JoinedLines, Fragment
<1> QED
  BY <1>1, FS_EmptySet DEF CountInv

(* However many processes append to the done file, whenever it is made and
   wherever they die, in the middle of a line as well, the file names only sets
   that have been run, none twice, and none that is to be written again
   (updateDoneParams); and no more lines of it are spoiled than processes died. *)
THEOREM DoneFileAlways == Spec => []DoneFileIsExact
<1>1. Init => TypeInv /\ OwnerInv /\ DoneInv /\ CountInv
  BY InitTypeInv, InitOwnerInv, InitDoneInv, InitCountInv
<1>2. TypeInv /\ OwnerInv /\ DoneInv /\ CountInv /\ [Next]_vars
        => (TypeInv /\ OwnerInv /\ DoneInv /\ CountInv)'
  BY NextTypeInv, NextOwnerInv, NextDoneInv, NextCountInv
<1>3. DoneInv /\ CountInv => DoneFileIsExact
  BY DEF DoneInv, CountInv, DoneFileIsExact, Once, JoinedLines, Range
<1> QED
  BY <1>1, <1>2, <1>3, PTL DEF Spec

(***************************************************************************)
(* The queue file keeps every line, ParamsQueue implements WorkPool, and   *)
(* it claims work in the order of the file.                                *)
(***************************************************************************)

(* The parameter sets some lines name, and those of the lines to be worked. *)
ParamsIn(lines) == {line.params : line \in Range(lines)}
WorkIn(lines) == {line.params : line \in {l \in Range(lines) : IsWork(l)}}

(* Until it is overwritten the queue file names every set; what has been read
   of it is claimed or kept; and what is written over it names every set again
   and takes from the work only the claims. *)
ListInv ==
  ~spoiled =>
    /\ QueueIntact => Params \subseteq ParamsIn(queue)
    /\ \A w \in Worker : pc[w] = "reading" =>
         \A i \in 1..pos[w] : IF IsWork(queue[i]) THEN queue[i].params \in Held(w)
                              ELSE queue[i] \in Range(kept[w])
    /\ \A w \in Worker : pc[w] = "rewriting" =>
         /\ Params \subseteq ParamsIn(NewContents(w))
         /\ flushed[w] = 0 => WorkIn(queue) = WorkIn(NewContents(w)) \cup Held(w)

(* A file made of two parts names what they name. *)
LEMMA ConcatLines ==
  ASSUME NEW s \in Seq(Line), NEW t \in Seq(Line)
  PROVE  /\ s \o t \in Seq(Line)
         /\ ParamsIn(s \o t) = ParamsIn(s) \cup ParamsIn(t)
         /\ WorkIn(s \o t) = WorkIn(s) \cup WorkIn(t)
<1>1. s \o t \in Seq(Line) /\ Range(s \o t) = Range(s) \cup Range(t)
  BY ConcatProperties, RangeConcatenation
<1> QED
  BY <1>1 DEF ParamsIn, WorkIn

(* The lines of a claimed chunk name its sets and are work for nobody. *)
LEMMA ClaimedIn ==
  ASSUME NEW w \in Worker, paramsQueue[w] \in Seq(Text)
  PROVE  /\ Claimed(w) \in Seq(Line)
         /\ ParamsIn(Claimed(w)) = Held(w)
         /\ WorkIn(Claimed(w)) = {}
<1>1. Claimed(w) \in Seq(Line)
  BY ClaimedLines
<1>2. Range(Claimed(w)) = {[params |-> p, by |-> w] : p \in Held(w)}
  BY DEF Claimed, Held, Range
<1>3. \A line \in Range(Claimed(w)) : ~IsWork(line)
  BY <1>2, WorkerAssumption DEF IsWork
<1>4. ParamsIn(Claimed(w)) = Held(w)
  <2>1. \A p \in Held(w) : \E line \in Range(Claimed(w)) : line.params = p
    <3> TAKE p \in Held(w)
    <3>1. [params |-> p, by |-> w] \in Range(Claimed(w))
      BY <1>2
    <3> QED
      BY <3>1
  <2>2. \A line \in Range(Claimed(w)) : line.params \in Held(w)
    BY <1>2
  <2> QED
    BY <2>1, <2>2 DEF ParamsIn
<1>5. WorkIn(Claimed(w)) = {}
  BY <1>3 DEF WorkIn
<1> QED
  BY <1>1, <1>4, <1>5

(* A step that leaves the queue file and the other processes alone, of a
   process that does not go on reading or rewriting. *)
LEMMA ListFrame ==
  ASSUME ListInv, ~spoiled, NEW w \in Worker, queue' = queue, ended' = ended,
         \A v \in Worker \ {w} :
           /\ pc'[v] = pc[v] /\ pos'[v] = pos[v] /\ kept'[v] = kept[v]
           /\ flushed'[v] = flushed[v] /\ paramsQueue'[v] = paramsQueue[v],
         pc[w] = "rewriting" => flushed[w] = 0,
         pc'[w] # "rewriting",
         pc'[w] = "reading" => pos'[w] = 0
  PROVE  ListInv'
<1>1. QueueIntact' => Params \subseteq ParamsIn(queue')
  <2>1. QueueIntact' => QueueIntact
    BY DEF QueueIntact
  <2> QED
    BY <2>1 DEF ListInv
<1>2. ASSUME NEW v \in Worker, pc'[v] = "reading", NEW i \in 1..pos'[v]
      PROVE  IF IsWork(queue'[i]) THEN queue'[i].params \in Held(v)'
             ELSE queue'[i] \in Range(kept'[v])
  <2>1. CASE v = w
    BY <1>2, <2>1
  <2>2. CASE v # w
    BY <1>2, <2>2 DEF ListInv, Held
  <2> QED
    BY <2>1, <2>2
<1>3. ASSUME NEW v \in Worker, pc'[v] = "rewriting"
      PROVE  /\ Params \subseteq ParamsIn(NewContents(v)')
             /\ flushed'[v] = 0 =>
                  WorkIn(queue') = WorkIn(NewContents(v)') \cup Held(v)'
  <2>1. v # w /\ pc[v] = "rewriting" /\ flushed'[v] = flushed[v]
    BY <1>3
  <2>2. NewContents(v)' = NewContents(v) /\ Held(v)' = Held(v)
    BY <2>1 DEF NewContents, Claimed, Unended, Held
  <2> QED
    BY <2>1, <2>2 DEF ListInv
<1> QED
  BY <1>1, <1>2, <1>3 DEF ListInv, IsWork, ParamsIn, WorkIn

(* The lines of a file behind the first m of it. *)
LEMMA RestOfLines ==
  ASSUME NEW lines \in Seq(Line), NEW m \in Nat, m <= Len(lines),
         NEW rest, rest = SubSeq(lines, m + 1, Len(lines))
  PROVE  /\ rest \in Seq(Line)
         /\ DOMAIN rest = 1..(Len(lines) - m)
         /\ \A i \in 1..(Len(lines) - m) : rest[i] = lines[m + i]
<1> DEFINE n == Len(lines)
<1>1. /\ n \in Nat /\ m <= n /\ rest = SubSeq(lines, m + 1, n)
      /\ DOMAIN lines = 1..n /\ \A i \in 1..n : lines[i] \in Line
  BY LenProperties, ElementOfSeq
<1> HIDE DEF n
<1>2. \A i \in (m + 1)..n : lines[i] \in Line
  BY <1>1
<1>3. /\ rest \in Seq(Line)
      /\ Len(rest) = IF m + 1 <= n THEN n - (m + 1) + 1 ELSE 0
      /\ \A i \in 1..(n - (m + 1) + 1) : rest[i] = lines[m + 1 + i - 1]
  BY <1>1, <1>2, SubSeqProperties
<1>4. Len(rest) = n - m
  BY <1>1, <1>3
<1>5. DOMAIN rest = 1..(n - m)
  BY <1>3, <1>4, LenProperties
<1>6. \A i \in 1..(n - m) : i \in 1..(n - (m + 1) + 1) /\ m + 1 + i - 1 = m + i
  BY <1>1
<1> QED
  BY <1>3, <1>5, <1>6 DEF n

(* While a process reads the queue file: what it holds and keeps, with the
   lines it has not read, is what the file names. *)
LEMMA ReaderLines ==
  ASSUME TypeInv, OwnerInv, ListInv, ~spoiled, NEW w \in Worker, pc[w] = "reading",
         NEW rest \in Seq(Line),
         rest = SubSeq(queue, pos[w] + 1, Len(queue))
  PROVE  /\ ParamsIn(queue) \subseteq ParamsIn(kept[w]) \cup ParamsIn(rest) \cup Held(w)
         /\ WorkIn(queue) = WorkIn(rest) \cup Held(w)
         /\ WorkIn(kept[w]) = {}
<1> DEFINE n == Len(queue)
<1>1. /\ QueueUnclaimed /\ ReadFromQueue(w)
      /\ pos[w] \in Nat /\ pos[w] <= n /\ n \in Nat /\ DOMAIN queue = 1..n
      /\ \A i \in 1..n : queue[i] \in Line
  BY ReaderAlone
<1>2. DOMAIN rest = 1..(n - pos[w]) /\ \A i \in 1..(n - pos[w]) : rest[i] = queue[pos[w] + i]
  <2>1. queue \in Seq(Line) /\ pos[w] \in Nat /\ pos[w] <= Len(queue)
    BY <1>1 DEF TypeInv, TypeOK
  <2>2. rest = SubSeq(queue, pos[w] + 1, Len(queue))
    OBVIOUS
  <2>3. /\ DOMAIN rest = 1..(Len(queue) - pos[w])
        /\ \A i \in 1..(Len(queue) - pos[w]) : rest[i] = queue[pos[w] + i]
    BY <2>1, <2>2, RestOfLines
  <2> QED
    BY <2>3
<1> HIDE DEF n
<1>3. \A i \in 1..n : i \in 1..pos[w] \/ (i - pos[w] \in 1..(n - pos[w]) /\ pos[w] + (i - pos[w]) = i)
  BY <1>1
<1>4. \A i \in 1..(n - pos[w]) : pos[w] + i \in 1..n
  BY <1>1
<1>5. \A i \in 1..pos[w] : IF IsWork(queue[i]) THEN queue[i].params \in Held(w)
                           ELSE queue[i] \in Range(kept[w])
  BY DEF ListInv
<1>6. \A line \in Range(kept[w]) : ~IsWork(line)
  BY <1>1 DEF ReadFromQueue, Range
<1>7. \A i \in 1..n : \/ queue[i] \in Range(rest)
                      \/ IF IsWork(queue[i]) THEN queue[i].params \in Held(w)
                         ELSE queue[i] \in Range(kept[w])
  <2> TAKE i \in 1..n
  <2>1. CASE i \in 1..pos[w]
    BY <1>5, <2>1
  <2>2. CASE i - pos[w] \in 1..(n - pos[w]) /\ pos[w] + (i - pos[w]) = i
    <3>1. rest[i - pos[w]] = queue[i] /\ i - pos[w] \in DOMAIN rest
      BY <1>2, <2>2
    <3> QED
      BY <3>1 DEF Range
  <2> QED
    BY <1>3, <2>1, <2>2
<1>8. ParamsIn(queue) \subseteq ParamsIn(kept[w]) \cup ParamsIn(rest) \cup Held(w)
  BY <1>1, <1>7 DEF ParamsIn, Range
<1>9. \A line \in Range(rest) : line \in Range(queue)
  BY <1>1, <1>2, <1>4 DEF Range
<1>10. \A p \in Held(w) : \E line \in Range(queue) : IsWork(line) /\ line.params = p
  <2> TAKE p \in Held(w)
  <2>1. PICK i \in 1..pos[w] : IsWork(queue[i]) /\ queue[i].params = p
    BY <1>1 DEF ReadFromQueue
  <2>2. i \in DOMAIN queue
    BY <1>1, <2>1
  <2> QED
    BY <2>1, <2>2 DEF Range
<1>11. \A line \in Range(queue) : IsWork(line) => line \in Range(rest) \/ line.params \in Held(w)
  BY <1>1, <1>7 DEF Range
<1>12. WorkIn(queue) = WorkIn(rest) \cup Held(w)
  <2>1. WorkIn(queue) \subseteq WorkIn(rest) \cup Held(w)
    BY <1>11 DEF WorkIn
  <2>2. WorkIn(rest) \cup Held(w) \subseteq WorkIn(queue)
    BY <1>9, <1>10 DEF WorkIn
  <2> QED
    BY <2>1, <2>2
<1> QED
  BY <1>6, <1>8, <1>12 DEF WorkIn

(* Copying the rest of the file: what will be written names every set, and the
   work of the file is what it leaves and what is claimed. *)
LEMMA StartRewriteList ==
  ASSUME TypeInv, OwnerInv, ListInv, NEW w \in Worker, StartRewrite(w)
  PROVE  ListInv'
<1> SUFFICES ASSUME ~spoiled' PROVE ListInv'
  BY DEF ListInv
<1>0. ~spoiled /\ ~Unended(w)
  BY DEF StartRewrite
<1> DEFINE rest == SubSeq(queue, pos[w] + 1, Len(queue))
<1>1. /\ pc[w] = "reading" /\ \A v \in Worker \ {w} : pc[v] \notin {"reading", "rewriting"}
      /\ pos[w] \in Nat /\ Len(queue) \in Nat
      /\ DOMAIN queue = 1..Len(queue)
      /\ \A i \in 1..Len(queue) : queue[i] \in Line
  BY <1>0, ReaderAlone DEF StartRewrite
<1>2. rest \in Seq(Line)
  <2>1. \A i \in (pos[w] + 1)..Len(queue) : queue[i] \in Line
    BY <1>1
  <2> QED
    BY <1>1, <2>1, SubSeqProperties
<1>3. /\ ParamsIn(queue) \subseteq ParamsIn(kept[w]) \cup ParamsIn(rest) \cup Held(w)
      /\ WorkIn(queue) = WorkIn(rest) \cup Held(w)
      /\ WorkIn(kept[w]) = {}
  BY <1>0, <1>1, <1>2, ReaderLines
<1>4. kept[w] \in Seq(Line) /\ paramsQueue[w] \in Seq(Text)
  BY DEF TypeInv, TypeOK
<1>5. /\ queue' = queue /\ ended' = ended /\ pos' = pos /\ paramsQueue' = paramsQueue
      /\ kept'[w] = kept[w] \o rest
      /\ pc'[w] = "rewriting"
      /\ \A v \in Worker \ {w} : pc'[v] = pc[v]
  BY DEF StartRewrite, files, TypeInv, TypeOK
<1> HIDE DEF rest
<1>6. /\ Claimed(w)' = Claimed(w)
      /\ NewContents(w)' = (kept[w] \o rest) \o Claimed(w)
      /\ Held(w)' = Held(w)
  BY <1>0, <1>5 DEF NewContents, Claimed, Unended, Held
<1>7. /\ Claimed(w) \in Seq(Line) /\ ParamsIn(Claimed(w)) = Held(w)
      /\ WorkIn(Claimed(w)) = {}
  BY <1>4, ClaimedIn
<1>8. /\ kept[w] \o rest \in Seq(Line)
      /\ ParamsIn(kept[w] \o rest) = ParamsIn(kept[w]) \cup ParamsIn(rest)
      /\ WorkIn(kept[w] \o rest) = WorkIn(kept[w]) \cup WorkIn(rest)
  BY <1>2, <1>4, ConcatLines
<1>9. /\ ParamsIn(NewContents(w)') = ParamsIn(kept[w] \o rest) \cup ParamsIn(Claimed(w))
      /\ WorkIn(NewContents(w)') = WorkIn(kept[w] \o rest) \cup WorkIn(Claimed(w))
  BY <1>6, <1>7, <1>8, ConcatLines
<1>10. Params \subseteq ParamsIn(queue)
  BY <1>0, <1>1 DEF ListInv, QueueIntact
<1>11. Params \subseteq ParamsIn(NewContents(w)')
  BY <1>3, <1>7, <1>8, <1>9, <1>10
<1>12. WorkIn(queue) = WorkIn(NewContents(w)') \cup Held(w)
  BY <1>3, <1>7, <1>8, <1>9
<1>13. \A v \in Worker : pc'[v] # "reading" /\ (pc'[v] = "rewriting" => v = w)
  BY <1>1, <1>5
<1>14. ParamsIn(queue') = ParamsIn(queue) /\ WorkIn(queue') = WorkIn(queue)
  BY <1>5
<1>15. ParamsIn(NewContents(w))' = ParamsIn(NewContents(w)')
       /\ WorkIn(NewContents(w))' = WorkIn(NewContents(w)')
       /\ ParamsIn(queue)' = ParamsIn(queue') /\ WorkIn(queue)' = WorkIn(queue')
  BY DEF ParamsIn, WorkIn, IsWork
<1> QED
  BY <1>6, <1>10, <1>11, <1>12, <1>13, <1>14, <1>15 DEF ListInv

(* The last write() of a rewrite leaves the new contents, an earlier one none
   that are whole. *)
LEMMA FlushQueueWrites ==
  ASSUME TypeInv, ~spoiled, NEW w \in Worker, FlushQueue(w)
  PROVE  /\ pc[w] = "rewriting" /\ paramsQueue[w] # <<>>
         /\ \A v \in Worker \ {w} : pc[v] \notin {"reading", "rewriting"} /\ pc'[v] = pc[v]
         /\ spoiled' = spoiled /\ crashes' = crashes
         /\ paramsQueue' = paramsQueue /\ kept' = kept
         /\ \/ queue' = NewContents(w) /\ pc'[w] = "work"
            \/ /\ pc'[w] = "rewriting" /\ flushed'[w] # 0
               /\ NewContents(w)' = NewContents(w)
<1> DEFINE n == Len(queue)
           upto == NextFlush(flushed[w], n)
           text == NewContents(w)
<1>1. /\ pc[w] = "rewriting"
      /\ flushed[w] \in Nat /\ upto \in Nat /\ flushed[w] < upto
      /\ queue' = [k \in DOMAIN queue |-> IF k <= upto THEN text[k] ELSE queue[k]]
      /\ flushed' = [flushed EXCEPT ![w] = upto]
      /\ upto = n => pc' = [pc EXCEPT ![w] = "work"]
      /\ upto # n => pc' = pc /\ NewContents(w)' = NewContents(w)
  BY FlushQueueWhole
<1>2. /\ spoiled' = spoiled /\ crashes' = crashes
      /\ paramsQueue' = paramsQueue /\ kept' = kept
  BY DEF FlushQueue, history
<1>3. \A v \in Worker \ {w} : pc[v] \notin {"reading", "rewriting"} /\ pc'[v] = pc[v]
  <2>1. \A v \in Worker \ {w} : pc[v] \notin {"reading", "rewriting"}
    BY <1>1 DEF TypeInv, PhaseInv, LocksHeld
  <2> HIDE DEF upto, n
  <2> QED
    BY <1>1, <2>1 DEF TypeInv, TypeOK
<1>4. paramsQueue[w] # <<>>
  BY <1>1 DEF TypeInv, PhaseInv, LinesAccounted
<1>5. CASE upto = n
  <2>1. text \in Seq(Line) /\ Len(text) = n /\ queue \in Seq(Line)
    BY <1>1, EndedContents DEF TypeInv, TypeOK
  <2>2. /\ n \in Nat /\ DOMAIN queue = 1..n /\ DOMAIN text = 1..n
        /\ text = [k \in 1..n |-> text[k]]
    BY <2>1, LenProperties
  <2> HIDE DEF text
  <2>3. queue' = [k \in 1..n |-> text[k]]
    <3>1. \A k \in 1..n : k <= upto
      BY <1>5, <2>2
    <3> HIDE DEF upto, n
    <3> QED
      BY <1>1, <2>2, <3>1
  <2>4. pc'[w] = "work"
    BY <1>1, <1>5 DEF TypeInv, TypeOK
  <2>5. queue' = text
    BY <2>2, <2>3
  <2> QED
    BY <1>1, <1>2, <1>3, <1>4, <2>4, <2>5 DEF text
<1>6. CASE upto # n
  <2> HIDE DEF upto, n
  <2>1. pc'[w] = "rewriting" /\ flushed'[w] # 0
    BY <1>1, <1>6 DEF TypeInv, TypeOK
  <2> QED
    BY <1>1, <1>2, <1>3, <1>4, <1>6, <2>1
<1> QED
  BY <1>5, <1>6

(* So the file names every set again when the rewrite is complete. *)
LEMMA FlushQueueList ==
  ASSUME TypeInv, ListInv, NEW w \in Worker, FlushQueue(w)
  PROVE  ListInv'
<1> SUFFICES ASSUME ~spoiled PROVE ListInv'
  BY DEF ListInv, FlushQueue, history
<1>1. /\ pc[w] = "rewriting"
      /\ \A v \in Worker \ {w} : pc[v] \notin {"reading", "rewriting"} /\ pc'[v] = pc[v]
      /\ spoiled' = spoiled /\ paramsQueue' = paramsQueue /\ kept' = kept
      /\ \/ queue' = NewContents(w) /\ pc'[w] = "work"
         \/ /\ pc'[w] = "rewriting" /\ flushed'[w] # 0
            /\ NewContents(w)' = NewContents(w)
  BY FlushQueueWrites
<1>2. Params \subseteq ParamsIn(NewContents(w))
  BY <1>1 DEF ListInv
<1>3. CASE queue' = NewContents(w) /\ pc'[w] = "work"
  <2>1. \A v \in Worker : pc'[v] \notin {"reading", "rewriting"}
    BY <1>1, <1>3
  <2>2. ParamsIn(queue)' = ParamsIn(NewContents(w))
    BY <1>3 DEF ParamsIn
  <2> QED
    BY <1>2, <2>1, <2>2 DEF ListInv
<1>4. CASE /\ pc'[w] = "rewriting" /\ flushed'[w] # 0
           /\ NewContents(w)' = NewContents(w)
  <2>1. ~QueueIntact'
    BY <1>4 DEF QueueIntact
  <2>2. ParamsIn(NewContents(w))' = ParamsIn(NewContents(w))
    BY <1>4 DEF ParamsIn
  <2>3. \A v \in Worker : pc'[v] # "reading" /\ (pc'[v] = "rewriting" => v = w)
    BY <1>1, <1>4
  <2> QED
    BY <1>2, <1>4, <2>1, <2>2, <2>3 DEF ListInv
<1> QED
  BY <1>1, <1>3, <1>4

(* A line that getWork reads is claimed if it is work and kept if it is not. *)
LEMMA ReadList ==
  ASSUME TypeInv, OwnerInv, ListInv, NEW w \in Worker, ReadWork(w) \/ ReadOther(w)
  PROVE  ListInv'
<1> SUFFICES ASSUME ~spoiled PROVE ListInv'
  BY DEF ListInv, ReadWork, ReadOther, history
<1> DEFINE line == queue[pos[w] + 1]
<1>1. /\ pc[w] = "reading" /\ \A v \in Worker \ {w} : pc[v] \notin {"reading", "rewriting"}
      /\ pos[w] \in Nat /\ pos[w] + 1 \in 1..Len(queue) /\ line \in Line
  <2>1. pc[w] = "reading" /\ pos[w] < Len(queue)
    BY DEF ReadWork, ReadOther, CanRead
  <2> QED
    BY <2>1, ReaderAlone
<1>2. queue' = queue /\ spoiled' = spoiled /\ pc' = pc /\ pos'[w] = pos[w] + 1
  BY DEF ReadWork, ReadOther, files, history, TypeInv, TypeOK
<1>3. QueueIntact' => Params \subseteq ParamsIn(queue)'
  BY <1>1, <1>2 DEF ListInv, QueueIntact, ParamsIn
<1>4. /\ kept[w] \in Seq(Line) /\ paramsQueue[w] \in Seq(Text)
      /\ kept \in [Worker -> Seq(Line)] /\ paramsQueue \in [Worker -> Seq(Text)]
  BY DEF TypeInv, TypeOK
<1>5. /\ Held(w) \subseteq Held(w)' /\ Range(kept[w]) \subseteq Range(kept'[w])
      /\ IF IsWork(line) THEN line.params \in Held(w)' ELSE line \in Range(kept'[w])
  <2>1. CASE ReadWork(w)
    <3>1. IsWork(line) /\ line.params \in Text
      BY <1>1, <2>1 DEF ReadWork, IsWork, Line
    <3>2. kept' = kept /\ paramsQueue'[w] = Append(paramsQueue[w], line.params)
      BY <1>4, <2>1 DEF ReadWork
    <3>3. Held(w)' = Held(w) \cup {line.params}
      BY <1>4, <3>1, <3>2, AppendInjection DEF Held
    <3> QED
      BY <3>1, <3>2, <3>3
  <2>2. CASE ReadOther(w)
    <3>1. ~IsWork(line)
      BY <2>2 DEF ReadOther
    <3>2. paramsQueue' = paramsQueue /\ kept'[w] = Append(kept[w], line)
      BY <1>4, <2>2 DEF ReadOther
    <3>3. Range(kept'[w]) = Range(kept[w]) \cup {line}
      BY <1>1, <1>4, <3>2, AppendInjection
    <3> QED
      BY <3>1, <3>2, <3>3 DEF Held
  <2> QED
    BY <2>1, <2>2
<1>6. ASSUME NEW i \in 1..pos'[w]
      PROVE  IF IsWork(queue[i]) THEN queue[i].params \in Held(w)'
             ELSE queue[i] \in Range(kept'[w])
  <2>1. i \in 1..pos[w] \/ i = pos[w] + 1
    BY <1>1, <1>2
  <2>2. CASE i \in 1..pos[w]
    BY <1>1, <1>5, <2>2 DEF ListInv
  <2>3. CASE i = pos[w] + 1
    BY <1>5, <2>3
  <2> QED
    BY <2>1, <2>2, <2>3
<1>7. \A v \in Worker : pc'[v] # "rewriting" /\ (pc'[v] = "reading" => v = w)
  BY <1>1, <1>2
<1> QED
  BY <1>2, <1>3, <1>6, <1>7 DEF ListInv, IsWork

(* The file the user wrote names every set. *)
LEMMA InitListInv == Init => ListInv
<1> SUFFICES ASSUME Init PROVE ListInv
  OBVIOUS
<1>1. queue \in InitialQueues /\ \A w \in Worker : pc[w] = "getWork"
  BY DEF Init
<1>2. Params \subseteq ParamsIn(queue)
  <2>1. Params \subseteq {queue[k].params : k \in DOMAIN queue}
    BY <1>1, ListingAssumption
  <2>2. {queue[k].params : k \in DOMAIN queue} = ParamsIn(queue)
    BY DEF ParamsIn, Range
  <2> QED
    BY <2>1, <2>2
<1> QED
  BY <1>1, <1>2 DEF ListInv

(* What every step does to the processes that do not take it. *)
LEMMA OthersStay ==
  ASSUME TypeInv, NEW w \in Worker,
         \/ LockQueue(w) \/ NoWorkLeft(w) \/ NoDoneFile(w) \/ LockDone(w) \/ FlushDone(w)
         \/ ResizeChunk(w) \/ Restart(w) \/ Crash(w)
         \/ \E duration \in Durations : RunItem(w, duration)
  PROVE  /\ queue' = queue /\ ended' = ended
         /\ \A v \in Worker \ {w} :
              /\ pc'[v] = pc[v] /\ pos'[v] = pos[v] /\ kept'[v] = kept[v]
              /\ flushed'[v] = flushed[v] /\ paramsQueue'[v] = paramsQueue[v]
         /\ pc[w] = "rewriting" => Crash(w)
         /\ pc'[w] # "rewriting"
         /\ pc'[w] = "reading" => pos'[w] = 0
<1> USE DEF TypeInv, TypeOK, files, timing, history
<1>1. CASE LockQueue(w)
  BY <1>1 DEF LockQueue
<1>2. CASE NoWorkLeft(w)
  BY <1>2 DEF NoWorkLeft
<1>3. CASE NoDoneFile(w)
  BY <1>3 DEF NoDoneFile
<1>4. CASE LockDone(w)
  BY <1>4 DEF LockDone
<1>5. CASE FlushDone(w)
  BY <1>5 DEF FlushDone
<1>6. CASE ResizeChunk(w)
  BY <1>6 DEF ResizeChunk
<1>7. CASE Restart(w)
  BY <1>7 DEF Restart
<1>8. CASE Crash(w)
  BY <1>8 DEF Crash
<1>9. CASE \E duration \in Durations : RunItem(w, duration)
  BY <1>9 DEF RunItem
<1> QED
  BY <1>1, <1>2, <1>3, <1>4, <1>5, <1>6, <1>7, <1>8, <1>9

(* Every step preserves ListInv. *)
LEMMA NextListInv == TypeInv /\ OwnerInv /\ ListInv /\ [Next]_vars => ListInv'
<1> SUFFICES ASSUME TypeInv, OwnerInv, ListInv, [Next]_vars PROVE ListInv'
  OBVIOUS
<1> SUFFICES ASSUME ~spoiled' PROVE ListInv'
  BY DEF ListInv
<1>1. ASSUME NEW w \in Worker,
             \/ LockQueue(w) \/ NoWorkLeft(w) \/ NoDoneFile(w) \/ LockDone(w) \/ FlushDone(w)
             \/ ResizeChunk(w) \/ Restart(w) \/ Crash(w)
             \/ \E duration \in Durations : RunItem(w, duration)
      PROVE  ListInv'
  <2>1. ~spoiled /\ (Crash(w) => (pc[w] = "rewriting" => flushed[w] = 0))
    <3>1. spoiled \in BOOLEAN /\ flushed[w] \in Nat
      BY DEF TypeInv, TypeOK
    <3>2. spoiled => spoiled'
      BY <1>1 DEF LockQueue, NoWorkLeft, NoDoneFile, LockDone, FlushDone, ResizeChunk,
                  Restart, RunItem, Crash, history
    <3>3. Crash(w) => ~(pc[w] = "rewriting" /\ flushed[w] > 0)
      BY DEF Crash
    <3> QED
      BY <3>1, <3>2, <3>3
  <2> QED
    BY <1>1, <2>1, OthersStay, ListFrame
<1>2. CASE CreateDoneFile \/ UNCHANGED vars
  <2>1. /\ queue' = queue /\ pc' = pc /\ pos' = pos /\ kept' = kept /\ flushed' = flushed
        /\ paramsQueue' = paramsQueue /\ spoiled' = spoiled /\ ended' = ended
    BY <1>2 DEF CreateDoneFile, history, vars
  <2>2. \A w \in Worker : Held(w)' = Held(w) /\ NewContents(w)' = NewContents(w)
    BY <2>1 DEF Held, NewContents, Claimed, Unended
  <2> QED
    BY <2>1, <2>2 DEF ListInv, QueueIntact, ParamsIn, WorkIn, IsWork
<1> QED
  BY <1>1, <1>2, ReadList, StartRewriteList, FlushQueueList DEF Next, Step

------------------------------------------------------------------------------
(* Unless the file is spoiled nothing has run into a line of it, and none of
   what was read of it is garbled. *)
TextInv ==
  ~spoiled =>
    /\ \A line \in Range(queue) : line.params \in Params \cup {NoParams}
    /\ \A w \in Worker :
         /\ \A line \in Range(kept[w]) : line.params \in Params \cup {NoParams}
         /\ Held(w) \subseteq Params

(* The user's file names parameter sets. *)
LEMMA InitTextInv == Init => TextInv
<1> SUFFICES ASSUME Init PROVE TextInv
  OBVIOUS
<1>1. /\ queue \in InitialQueues
      /\ \A w \in Worker : kept[w] = <<>> /\ paramsQueue[w] = <<>>
  BY DEF Init
<1>2. \A k \in DOMAIN queue : queue[k].params \in Params \cup {NoParams}
  BY <1>1, QueueAssumption
<1> QED
  BY <1>1, <1>2, EmptyHeld DEF TextInv, Held, Range

(* Reading takes from the file, and running a set takes from what was read. *)
LEMMA ReadText ==
  ASSUME TypeInv, TextInv, NEW w \in Worker,
         \/ ReadWork(w) \/ ReadOther(w)
         \/ \E duration \in Durations : RunItem(w, duration)
  PROVE  TextInv'
<1> SUFFICES ASSUME ~spoiled PROVE TextInv'
  BY DEF TextInv, ReadWork, ReadOther, RunItem, history
<1> DEFINE line == queue[pos[w] + 1]
<1>1. /\ queue' = queue
      /\ \A v \in Worker \ {w} : kept'[v] = kept[v] /\ paramsQueue'[v] = paramsQueue[v]
  BY DEF ReadWork, ReadOther, RunItem, files, TypeInv, TypeOK
<1>2. /\ kept[w] \in Seq(Line) /\ paramsQueue[w] \in Seq(Text) /\ queue \in Seq(Line)
      /\ pos[w] \in Nat
  BY DEF TypeInv, TypeOK
<1>3. ASSUME ReadWork(w) \/ ReadOther(w) PROVE line \in Range(queue) /\ line \in Line
  <2>1. pos[w] < Len(queue)
    BY <1>3 DEF ReadWork, ReadOther, CanRead
  <2>2. DOMAIN queue = 1..Len(queue) /\ Len(queue) \in Nat
    BY <1>2, LenProperties
  <2>3. pos[w] + 1 \in DOMAIN queue
    BY <1>2, <2>1, <2>2
  <2> QED
    BY <1>2, <2>2, <2>3, ElementOfSeq DEF Range
<1>4. CASE ReadWork(w)
  <2>1. /\ kept' = kept /\ paramsQueue'[w] = Append(paramsQueue[w], line.params)
        /\ line.params # NoParams
    BY <1>4 DEF ReadWork, IsWork, TypeInv, TypeOK
  <2>2. line.params \in Params /\ line.params \in Text
    BY <1>3, <1>4, <2>1 DEF TextInv, Text
  <2> HIDE DEF line
  <2>3. Held(w)' = Held(w) \cup {line.params}
    BY <1>2, <2>1, <2>2, AppendInjection DEF Held
  <2> QED
    BY <1>1, <2>1, <2>2, <2>3 DEF TextInv, Held
<1>5. CASE ReadOther(w)
  <2>1. /\ paramsQueue' = paramsQueue /\ kept'[w] = Append(kept[w], line)
    BY <1>5 DEF ReadOther, TypeInv, TypeOK
  <2>2. line \in Line /\ line.params \in Params \cup {NoParams}
    BY <1>3, <1>5 DEF TextInv
  <2> HIDE DEF line
  <2>3. Range(kept'[w]) = Range(kept[w]) \cup {line}
    BY <1>2, <2>1, <2>2, AppendInjection
  <2> QED
    BY <1>1, <2>1, <2>2, <2>3 DEF TextInv, Held
<1>6. CASE \E duration \in Durations : RunItem(w, duration)
  <2>1. /\ kept' = kept /\ paramsQueue[w] # <<>>
        /\ paramsQueue'[w] = Tail(paramsQueue[w])
    BY <1>6 DEF RunItem, TypeInv, TypeOK
  <2>2. Held(w)' \subseteq Held(w)
    <3>1. Range(Tail(paramsQueue[w])) \subseteq Range(paramsQueue[w])
      <4>1. /\ Tail(paramsQueue[w]) \in Seq(Text)
            /\ Len(Tail(paramsQueue[w])) = Len(paramsQueue[w]) - 1
            /\ \A i \in 1..Len(Tail(paramsQueue[w])) :
                 Tail(paramsQueue[w])[i] = paramsQueue[w][i + 1]
            /\ DOMAIN paramsQueue[w] = 1..Len(paramsQueue[w])
            /\ Len(paramsQueue[w]) \in Nat
        BY <1>2, <2>1, HeadTailProperties, LenProperties
      <4>2. DOMAIN Tail(paramsQueue[w]) = 1..Len(Tail(paramsQueue[w]))
        BY <4>1, LenProperties
      <4>3. \A i \in DOMAIN Tail(paramsQueue[w]) : i + 1 \in DOMAIN paramsQueue[w]
        BY <4>1, <4>2
      <4> QED
        BY <4>1, <4>2, <4>3 DEF Range
    <3> QED
      BY <2>1, <3>1 DEF Held
  <2> QED
    BY <1>1, <2>1, <2>2 DEF TextInv, Held
<1> QED
  BY <1>4, <1>5, <1>6

(* What is written back was kept or claimed. *)
LEMMA RewriteText ==
  ASSUME TypeInv, TextInv, NEW w \in Worker, StartRewrite(w) \/ FlushQueue(w), ~spoiled'
  PROVE  TextInv'
<1>1. /\ ~spoiled /\ paramsQueue' = paramsQueue
      /\ \A v \in Worker \ {w} : kept'[v] = kept[v]
  BY DEF StartRewrite, FlushQueue, history, TypeInv, TypeOK
<1>2. /\ kept[w] \in Seq(Line) /\ paramsQueue[w] \in Seq(Text) /\ queue \in Seq(Line)
      /\ Len(queue) \in Nat /\ DOMAIN queue = 1..Len(queue) /\ pos[w] \in Nat
  BY LenProperties DEF TypeInv, TypeOK
<1>3. CASE StartRewrite(w)
  <2> DEFINE rest == SubSeq(queue, pos[w] + 1, Len(queue))
  <2>1. queue' = queue /\ kept'[w] = kept[w] \o rest /\ pos[w] <= Len(queue)
    BY <1>3 DEF StartRewrite, files, TypeInv, TypeOK, PhaseInv, LinesAccounted
  <2>2. /\ rest \in Seq(Line) /\ DOMAIN rest = 1..(Len(queue) - pos[w])
        /\ \A i \in 1..(Len(queue) - pos[w]) : rest[i] = queue[pos[w] + i]
    BY <1>2, <2>1, RestOfLines
  <2> HIDE DEF rest
  <2>3. \A i \in 1..(Len(queue) - pos[w]) : pos[w] + i \in 1..Len(queue)
    BY <1>2, <2>1
  <2>4. Range(rest) \subseteq Range(queue)
    BY <1>2, <2>2, <2>3 DEF Range
  <2>5. Range(kept'[w]) = Range(kept[w]) \cup Range(rest)
    BY <1>2, <2>1, <2>2, RangeConcatenation
  <2> QED
    BY <1>1, <2>1, <2>4, <2>5 DEF TextInv, Held
<1>4. CASE FlushQueue(w)
  <2> DEFINE text == NewContents(w)
             upto == NextFlush(flushed[w], Len(queue))
  <2>1. /\ pc[w] = "rewriting" /\ upto \in Nat /\ upto <= Len(queue)
        /\ queue' = [k \in DOMAIN queue |-> IF k <= upto THEN text[k] ELSE queue[k]]
    BY <1>1, <1>4, FlushQueueWhole
  <2>2. /\ text = kept[w] \o Claimed(w) /\ text \in Seq(Line)
        /\ DOMAIN text = 1..Len(queue)
    <3>1. text = kept[w] \o Claimed(w) /\ text \in Seq(Line) /\ Len(text) = Len(queue)
      BY <1>1, <2>1, EndedContents
    <3> HIDE DEF text
    <3> QED
      BY <3>1, LenProperties
  <2> HIDE DEF text, upto
  <2>3. Range(text) = Range(kept[w]) \cup Range(Claimed(w))
    <3>1. Claimed(w) \in Seq(Line)
      BY <1>2, ClaimedIn
    <3> QED
      BY <1>2, <2>2, <3>1, RangeConcatenation
  <2>4. ASSUME NEW line \in Range(Claimed(w)) PROVE line.params \in Params
    <3>1. line.params \in ParamsIn(Claimed(w))
      BY <2>4 DEF ParamsIn
    <3> QED
      BY <1>1, <1>2, <3>1, ClaimedIn DEF TextInv
  <2>5. \A line \in Range(text) : line.params \in Params \cup {NoParams}
    BY <1>1, <2>3, <2>4 DEF TextInv
  <2>6. \A line \in Range(queue') : line \in Range(text) \/ line \in Range(queue)
    BY <1>2, <2>1, <2>2 DEF Range
  <2>7. kept' = kept
    BY <1>4 DEF FlushQueue
  <2> QED
    BY <1>1, <2>5, <2>6, <2>7 DEF TextInv, Held
<1> QED
  BY <1>3, <1>4

(* Every step preserves TextInv. *)
LEMMA NextTextInv == TypeInv /\ TextInv /\ [Next]_vars => TextInv'
<1> SUFFICES ASSUME TypeInv, TextInv, [Next]_vars, ~spoiled' PROVE TextInv'
  BY DEF TextInv
<1>1. ASSUME queue' = queue, spoiled => spoiled',
             \A v \in Worker : /\ kept'[v] \in {kept[v], <<>>}
                               /\ paramsQueue'[v] \in {paramsQueue[v], <<>>}
      PROVE  TextInv'
  <2>1. \A v \in Worker : Held(v)' \subseteq Held(v) /\ Range(kept'[v]) \subseteq Range(kept[v])
    BY <1>1, EmptyHeld DEF Held
  <2> QED
    BY <1>1, <2>1 DEF TextInv
<1>2. ASSUME NEW w \in Worker,
             \/ LockQueue(w) \/ NoWorkLeft(w) \/ NoDoneFile(w) \/ LockDone(w) \/ FlushDone(w)
             \/ ResizeChunk(w) \/ Restart(w) \/ Crash(w)
      PROVE  TextInv'
  <2>1. /\ queue' = queue /\ (spoiled => spoiled')
        /\ \A v \in Worker : /\ kept'[v] \in {kept[v], <<>>}
                             /\ paramsQueue'[v] \in {paramsQueue[v], <<>>}
    BY <1>2 DEF LockQueue, NoWorkLeft, NoDoneFile, LockDone, FlushDone, ResizeChunk,
                Restart, Crash, files, history, TypeInv, TypeOK
  <2> QED
    BY <1>1, <2>1
<1>3. CASE CreateDoneFile \/ UNCHANGED vars
  BY <1>1, <1>3 DEF CreateDoneFile, history, vars
<1> QED
  BY <1>2, <1>3, ReadText, RewriteText DEF Next, Step

------------------------------------------------------------------------------
(* At most one process rewrites the file: what waits is the work of what it
   writes and what it claims; if there is none, the work of the file. *)
LEMMA WaitingCases ==
  TypeInv =>
    /\ \A w \in Worker : pc[w] = "rewriting" =>
         Contents = NewContents(w) /\ Waiting = WorkIn(NewContents(w)) \cup Held(w)
    /\ (\A w \in Worker : pc[w] # "rewriting") =>
         Contents = queue /\ Waiting = WorkIn(queue)
<1> SUFFICES ASSUME TypeInv
             PROVE  /\ \A w \in Worker : pc[w] = "rewriting" =>
                         /\ Contents = NewContents(w)
                         /\ Waiting = WorkIn(NewContents(w)) \cup Held(w)
                    /\ (\A w \in Worker : pc[w] # "rewriting") =>
                         Contents = queue /\ Waiting = WorkIn(queue)
  OBVIOUS
<1> DEFINE writers == {v \in Worker : pc[v] = "rewriting"}
<1>1. Waiting = WorkIn(Contents) \cup UNION {Range(paramsQueue[v]) : v \in writers}
  BY DEF Waiting, WorkIn
<1>2. ASSUME NEW w \in Worker, pc[w] = "rewriting"
      PROVE  Contents = NewContents(w) /\ Waiting = WorkIn(NewContents(w)) \cup Held(w)
  <2>1. \A v \in Worker : pc[v] = "rewriting" => v = w
    BY <1>2 DEF TypeInv, PhaseInv, LocksHeld
  <2>2. (CHOOSE v \in Worker : pc[v] = "rewriting") = w
    BY <1>2, <2>1
  <2>3. Contents = NewContents(w)
    BY <1>2, <2>2 DEF Contents
  <2>4. writers = {w}
    BY <1>2, <2>1
  <2>5. UNION {Range(paramsQueue[v]) : v \in writers} = Held(w)
    BY <2>4 DEF Held
  <2> QED
    BY <1>1, <2>3, <2>5
<1>3. ASSUME \A w \in Worker : pc[w] # "rewriting"
      PROVE  Contents = queue /\ Waiting = WorkIn(queue)
  <2>1. Contents = queue /\ writers = {}
    BY <1>3 DEF Contents
  <2> QED
    BY <1>1, <2>1
<1> QED
  BY <1>2, <1>3

(* The same after a step. *)
LEMMA WaitingCasesNext ==
  TypeInv' =>
    /\ \A w \in Worker : pc'[w] = "rewriting" =>
         Waiting' = WorkIn(NewContents(w))' \cup Held(w)'
    /\ (\A w \in Worker : pc'[w] # "rewriting") => Waiting' = WorkIn(queue)'
<1>1. (TypeInv =>
        /\ \A w \in Worker : pc[w] = "rewriting" =>
             Contents = NewContents(w) /\ Waiting = WorkIn(NewContents(w)) \cup Held(w)
        /\ (\A w \in Worker : pc[w] # "rewriting") =>
             Contents = queue /\ Waiting = WorkIn(queue))'
  BY WaitingCases, PTL
<1> QED
  BY <1>1

(* The invariants say what FileKeepsEveryLine says. *)
LEMMA ListInvImplies == TypeInv /\ OwnerInv /\ ListInv /\ TextInv => FileKeepsEveryLine
<1> SUFFICES ASSUME TypeInv, OwnerInv, ListInv, TextInv, ~spoiled
             PROVE  Listed = Params /\ Distinct(Contents)
  BY DEF FileKeepsEveryLine
<1>1. Params \subseteq ParamsIn(Contents) /\ Distinct(Contents)
  <2>1. ASSUME NEW w \in Worker, pc[w] = "rewriting"
        PROVE  Params \subseteq ParamsIn(Contents) /\ Distinct(Contents)
    <3>1. Contents = NewContents(w)
      BY <2>1, WaitingCases
    <3> QED
      BY <2>1, <3>1 DEF ListInv, OwnerInv, NewContentsUnclaimed
  <2>2. CASE \A w \in Worker : pc[w] # "rewriting"
    <3>1. Contents = queue
      BY <2>2, WaitingCases
    <3>2. QueueIntact
      BY <2>2 DEF QueueIntact
    <3> QED
      BY <3>1, <3>2 DEF ListInv, OwnerInv, QueueUnclaimed
  <2> QED
    BY <2>1, <2>2
<1>2. \A line \in Range(Contents) : line.params \in Params \cup {NoParams}
  <2>1. ASSUME NEW w \in Worker, pc[w] = "rewriting"
        PROVE  \A line \in Range(Contents) : line.params \in Params \cup {NoParams}
    <3>1. Contents = kept[w] \o Claimed(w)
      BY <2>1, WaitingCases, EndedContents
    <3>2. kept[w] \in Seq(Line) /\ paramsQueue[w] \in Seq(Text)
      BY DEF TypeInv, TypeOK
    <3>3. Claimed(w) \in Seq(Line) /\ ParamsIn(Claimed(w)) = Held(w)
      BY <3>2, ClaimedIn
    <3>4. Range(Contents) = Range(kept[w]) \cup Range(Claimed(w))
      BY <3>1, <3>2, <3>3, RangeConcatenation
    <3> QED
      BY <3>3, <3>4 DEF TextInv, ParamsIn
  <2>2. CASE \A w \in Worker : pc[w] # "rewriting"
    BY <2>2, WaitingCases DEF TextInv
  <2> QED
    BY <2>1, <2>2
<1>3. Listed = ParamsIn(Contents) \ {NoParams}
  BY DEF Listed, ParamsIn
<1>4. Listed \subseteq Params
  BY <1>2, <1>3 DEF ParamsIn
<1>5. Params \subseteq Listed
  BY <1>1, <1>3, ParamsAssumption DEF Text
<1> QED
  BY <1>1, <1>4, <1>5

(* However many processes claim lines by rewriting the queue file in place, and
   wherever they die, every set of the file the user wrote stays on exactly one
   line (getWork), until a process dies in the middle of a rewrite that takes
   several writes, or writes behind a last line without an end. *)
THEOREM FileAlwaysKeepsEveryLine == Spec => []FileKeepsEveryLine
<1>1. Init => TypeInv /\ OwnerInv /\ ListInv /\ TextInv
  BY InitTypeInv, InitOwnerInv, InitListInv, InitTextInv
<1>2. TypeInv /\ OwnerInv /\ ListInv /\ TextInv /\ [Next]_vars
        => (TypeInv /\ OwnerInv /\ ListInv /\ TextInv)'
  BY NextTypeInv, NextOwnerInv, NextListInv, NextTextInv
<1>3. TypeInv /\ OwnerInv /\ ListInv /\ TextInv => FileKeepsEveryLine
  BY ListInvImplies
<1> QED
  BY <1>1, <1>2, <1>3, PTL DEF Spec

------------------------------------------------------------------------------
(* A step that changes nothing the pool shows. *)
PoolStays ==
  /\ Waiting' = Waiting
  /\ \A v \in Worker : Owned(v)' = Owned(v) /\ Unrecorded(v)' = Unrecorded(v)
  /\ done' = done /\ Fragment' = Fragment

(* It is a stuttering step of the pool. *)
LEMMA StaysIsStutter == PoolStays => UNCHANGED pool!poolVars
<1> SUFFICES ASSUME PoolStays PROVE UNCHANGED pool!poolVars
  OBVIOUS
<1>1. /\ [v \in Worker |-> Owned(v)]' = [v \in Worker |-> Owned(v)]
      /\ [v \in Worker |-> Unrecorded(v)]' = [v \in Worker |-> Unrecorded(v)]
      /\ (Range(done) \ {Joined})' = Range(done) \ {Joined}
      /\ Waiting' = Waiting /\ Fragment' = Fragment
  BY DEF PoolStays
<1> QED
  BY <1>1 DEF pool!poolVars

(* The initial states are initial states of the pool. *)
LEMMA InitPool == Init => pool!PoolInit
<1> SUFFICES ASSUME Init PROVE pool!PoolInit
  OBVIOUS
<1>1. /\ queue \in InitialQueues /\ queue \in Seq(Line) /\ done = <<>>
      /\ \A w \in Worker : /\ pc[w] = "getWork" /\ paramsQueue[w] = <<>>
                           /\ doneParams[w] = <<>>
  BY QueueAssumption DEF Init
<1>2. Waiting = WorkIn(queue)
  BY <1>1, InitTypeInv, WaitingCases
<1>3. \A line \in Range(queue) : line.by = NoWorker /\ line.params \in Params \cup {NoParams}
  <2>1. \A k \in DOMAIN queue :
          queue[k].by = NoWorker /\ queue[k].params \in Params \cup {NoParams}
    BY <1>1, QueueAssumption
  <2> QED
    BY <2>1 DEF Range
<1>4. WorkIn(queue) = Params
  <2>1. WorkIn(queue) \subseteq Params
    BY <1>3 DEF WorkIn, IsWork
  <2>2. ASSUME NEW p \in Params PROVE p \in WorkIn(queue)
    <3>1. PICK k \in DOMAIN queue : queue[k].params = p
      BY <1>1, ListingAssumption
    <3>2. queue[k] \in Range(queue)
      BY DEF Range
    <3>3. IsWork(queue[k])
      BY <1>3, <3>1, <3>2, ParamsAssumption DEF IsWork, Text
    <3> QED
      BY <3>1, <3>2, <3>3 DEF WorkIn
  <2> QED
    BY <2>1, <2>2
<1>5. /\ \A w \in Worker : Owned(w) = {} /\ Unrecorded(w) = {}
      /\ Range(done) = {}
  <2>1. \A w \in Worker : Unrecorded(w) = {}
    BY <1>1, EmptyHeld, UnrecordedKept
  <2> QED
    BY <1>1, <2>1, EmptyHeld DEF Owned
<1>6. /\ [w \in Worker |-> Owned(w)] = [w \in Worker |-> {}]
      /\ [w \in Worker |-> Unrecorded(w)] = [w \in Worker |-> {}]
      /\ Range(done) \ {Joined} = {} /\ Fragment = FALSE
  BY <1>5 DEF Init, Fragment
<1> QED
  BY <1>2, <1>4, <1>5, <1>6 DEF pool!PoolInit

(* A step that leaves the queue file and the other processes alone leaves what
   waits. *)
LEMMA QuietWaiting ==
  ASSUME TypeInv, TypeInv', NEW w \in Worker, queue' = queue, ended' = ended,
         \A v \in Worker \ {w} : /\ pc'[v] = pc[v] /\ kept'[v] = kept[v]
                                  /\ pos'[v] = pos[v]
                                  /\ paramsQueue'[v] = paramsQueue[v],
         pc[w] # "rewriting", pc'[w] # "rewriting"
  PROVE  Waiting' = Waiting
<1>1. ASSUME NEW v \in Worker, pc[v] = "rewriting" PROVE Waiting' = Waiting
  <2>1. v # w /\ pc'[v] = "rewriting"
    BY <1>1
  <2>2. NewContents(v)' = NewContents(v) /\ Held(v)' = Held(v)
    BY <2>1 DEF NewContents, Claimed, Unended, Held
  <2>3. WorkIn(NewContents(v))' = WorkIn(NewContents(v))
    BY <2>2 DEF WorkIn, IsWork
  <2> QED
    BY <1>1, <2>1, <2>2, <2>3, WaitingCases, WaitingCasesNext
<1>2. CASE \A v \in Worker : pc[v] # "rewriting"
  <2>1. \A v \in Worker : pc'[v] # "rewriting"
    BY <1>2
  <2>2. WorkIn(queue)' = WorkIn(queue)
    BY DEF WorkIn, IsWork
  <2> QED
    BY <1>2, <2>1, <2>2, WaitingCases, WaitingCasesNext
<1> QED
  BY <1>1, <1>2

(* Locking, reading and the end of a chunk show nothing to the pool: what is
   read still waits. *)
LEMMA QuietPool ==
  ASSUME TypeInv, TypeInv', OwnerInv, ListInv', ~spoiled', NEW w \in Worker,
         \/ LockQueue(w) \/ ReadWork(w) \/ ReadOther(w) \/ NoWorkLeft(w)
         \/ StartRewrite(w) \/ NoDoneFile(w) \/ LockDone(w) \/ ResizeChunk(w) \/ Restart(w)
  PROVE  PoolStays /\ crashes' = crashes
<1>1. RecordsStay /\ ~spoiled /\ crashes' = crashes
  BY QuietRecords
<1>2. /\ queue' = queue /\ ended' = ended
      /\ \A v \in Worker \ {w} : /\ pc'[v] = pc[v] /\ kept'[v] = kept[v]
                                  /\ pos'[v] = pos[v]
                                  /\ paramsQueue'[v] = paramsQueue[v]
      /\ pc[w] # "rewriting"
  BY DEF LockQueue, ReadWork, ReadOther, NoWorkLeft, StartRewrite, NoDoneFile, LockDone,
         ResizeChunk, Restart, files, TypeInv, TypeOK
<1>3. Waiting' = Waiting
  <2>1. CASE StartRewrite(w)
    <3>1. pc[w] = "reading" /\ pc'[w] = "rewriting" /\ flushed'[w] = 0
      BY <2>1 DEF StartRewrite, TypeInv, TypeOK
    <3>2. \A v \in Worker : pc[v] # "rewriting"
      BY <3>1 DEF TypeInv, PhaseInv, LocksHeld
    <3>3. WorkIn(queue)' = WorkIn(NewContents(w))' \cup Held(w)'
      BY <3>1 DEF ListInv
    <3>4. WorkIn(queue)' = WorkIn(queue)
      BY <1>2 DEF WorkIn, IsWork
    <3> QED
      BY <3>1, <3>2, <3>3, <3>4, WaitingCases, WaitingCasesNext
  <2>2. CASE ~StartRewrite(w)
    <3>1. pc'[w] # "rewriting"
      BY <2>2 DEF LockQueue, ReadWork, ReadOther, NoWorkLeft, NoDoneFile, LockDone,
                  ResizeChunk, Restart, TypeInv, TypeOK
    <3> QED
      BY <1>2, <3>1, QuietWaiting
  <2> QED
    BY <2>1, <2>2
<1>4. Owned(w)' = Owned(w)
  <2>1. CASE ReadWork(w) \/ ReadOther(w) \/ StartRewrite(w)
    <3>1. pc[w] = "reading" /\ pc'[w] \in {"reading", "rewriting"}
      BY <2>1 DEF ReadWork, ReadOther, StartRewrite, TypeInv, TypeOK
    <3> QED
      BY <3>1 DEF Owned
  <2>2. CASE ~(ReadWork(w) \/ ReadOther(w) \/ StartRewrite(w))
    <3>1. paramsQueue[w] = <<>> /\ paramsQueue' = paramsQueue
      BY <2>2 DEF LockQueue, NoWorkLeft, NoDoneFile, LockDone, ResizeChunk, Restart,
                  TypeInv, PhaseInv, ClaimsHeld
    <3>2. Owned(w) = {} /\ Owned(w)' = {}
      BY <3>1, EmptyHeld DEF Owned
    <3> QED
      BY <3>2
  <2> QED
    BY <2>1, <2>2
<1>5. \A v \in Worker \ {w} : Owned(v)' = Owned(v)
  BY <1>2 DEF Owned
<1> QED
  BY <1>1, <1>3, <1>4, <1>5 DEF PoolStays, RecordsStay

(* So do the user's part and no step at all. *)
LEMMA StutterPool ==
  ASSUME CreateDoneFile \/ UNCHANGED vars
  PROVE  PoolStays /\ crashes' = crashes
<1>1. RecordsStay /\ crashes' = crashes
  BY StutterRecords
<1>2. /\ queue' = queue /\ ended' = ended /\ pos' = pos
      /\ pc' = pc /\ kept' = kept /\ paramsQueue' = paramsQueue
  BY DEF CreateDoneFile, vars
<1>3. Waiting' = Waiting /\ \A v \in Worker : Owned(v)' = Owned(v)
  BY <1>2 DEF Waiting, Contents, NewContents, Claimed, Unended, IsWork, Owned
<1> QED
  BY <1>1, <1>3 DEF PoolStays, RecordsStay

(* The last write() of a rewrite claims what its process holds; the others show
   nothing. *)
LEMMA FlushQueuePool ==
  ASSUME TypeInv, TypeInv', OwnerInv, ~spoiled, NEW w \in Worker, FlushQueue(w)
  PROVE  /\ crashes' = crashes
         /\ PoolStays \/ pool!Claim(w)
<1>1. /\ pc[w] = "rewriting" /\ paramsQueue[w] # <<>>
      /\ \A v \in Worker \ {w} : pc[v] \notin {"reading", "rewriting"} /\ pc'[v] = pc[v]
      /\ spoiled' = spoiled /\ crashes' = crashes
      /\ paramsQueue' = paramsQueue /\ kept' = kept
      /\ \/ queue' = NewContents(w) /\ pc'[w] = "work"
         \/ pc'[w] = "rewriting" /\ NewContents(w)' = NewContents(w)
  BY FlushQueueWrites
<1>2. RecordsStay
  BY QuietRecords
<1>3. Waiting = WorkIn(NewContents(w)) \cup Held(w) /\ Owned(w) = {}
  BY <1>1, WaitingCases DEF Owned
<1>4. \A v \in Worker \ {w} : Owned(v)' = Owned(v)
  BY <1>1 DEF Owned
<1>5. CASE pc'[w] = "rewriting" /\ NewContents(w)' = NewContents(w)
  <2>1. NewContents(w)' = NewContents(w) /\ Held(w)' = Held(w)
    BY <1>1, <1>5 DEF Held
  <2>2. WorkIn(NewContents(w))' = WorkIn(NewContents(w))
    BY <2>1 DEF WorkIn, IsWork
  <2>3. Waiting' = Waiting /\ Owned(w)' = Owned(w)
    BY <1>3, <1>5, <2>1, <2>2, WaitingCasesNext DEF Owned
  <2> QED
    BY <1>1, <1>2, <1>4, <2>3 DEF PoolStays, RecordsStay
<1>6. CASE queue' = NewContents(w) /\ pc'[w] = "work"
  <2>1. \A v \in Worker : pc'[v] # "rewriting"
    BY <1>1, <1>6
  <2>2. WorkIn(queue)' = WorkIn(NewContents(w))
    BY <1>6 DEF WorkIn, IsWork
  <2>3. Waiting' = WorkIn(NewContents(w))
    BY <2>1, <2>2, WaitingCasesNext
  <2>4. WorkIn(NewContents(w)) \cap Held(w) = {}
    BY <1>1 DEF OwnerInv, NewContentsUnclaimed, WorkIn, Range
  <2>5. Waiting' = Waiting \ Held(w)
    BY <1>3, <2>3, <2>4
  <2>6. Held(w) \in (SUBSET Waiting) \ {{}}
    <3>1. paramsQueue[w] \in Seq(Text)
      BY DEF TypeInv, TypeOK
    <3>2. DOMAIN paramsQueue[w] = 1..Len(paramsQueue[w]) /\ Len(paramsQueue[w]) \in Nat \ {0}
      BY <1>1, <3>1, EmptySeq, LenProperties
    <3>3. paramsQueue[w][1] \in Held(w)
      BY <3>2 DEF Held, Range
    <3> QED
      BY <1>3, <3>3
  <2>7. Owned(w)' = Held(w)
    BY <1>1, <1>6 DEF Owned, Held
  <2>8. [v \in Worker |-> Owned(v)]' = [[v \in Worker |-> Owned(v)] EXCEPT ![w] = Held(w)]
    BY <1>4, <2>7
  <2>9. /\ [v \in Worker |-> Unrecorded(v)]' = [v \in Worker |-> Unrecorded(v)]
        /\ (Range(done) \ {Joined})' = Range(done) \ {Joined} /\ Fragment' = Fragment
    BY <1>2 DEF RecordsStay
  <2>10. pool!Claim(w)
    BY <1>3, <2>5, <2>6, <2>8, <2>9 DEF pool!Claim
  <2> QED
    BY <1>1, <2>10
<1> QED
  BY <1>1, <1>5, <1>6

(* Running the first set of a chunk is running a claimed set. *)
LEMMA RunItemPool ==
  ASSUME TypeInv, TypeInv', OwnerInv, ~spoiled, NEW w \in Worker,
         NEW duration \in Durations, RunItem(w, duration)
  PROVE  crashes' = crashes /\ pool!Run(w)
<1> DEFINE set == Head(paramsQueue[w])
<1>1. /\ set \in Held(w) /\ pc[w] = "work" /\ pc' = pc
      /\ done' = done /\ Fragment' = Fragment
      /\ Unrecorded(w)' = Unrecorded(w) \cup {set}
      /\ \A v \in Worker \ {w} : Unrecorded(v)' = Unrecorded(v)
  BY RunItemRecords
<1>2. /\ queue' = queue /\ ended' = ended /\ pos' = pos
      /\ kept' = kept /\ crashes' = crashes
      /\ paramsQueue[w] # <<>> /\ paramsQueue[w] \in Seq(Text)
      /\ paramsQueue'[w] = Tail(paramsQueue[w])
      /\ \A v \in Worker \ {w} : paramsQueue'[v] = paramsQueue[v]
  BY DEF RunItem, files, TypeInv, TypeOK
<1>3. Held(w)' = Held(w) \ {set}
  <2>1. IsInjective(paramsQueue[w])
    BY DEF OwnerInv, ClaimsDisjoint
  <2> QED
    BY <1>2, <2>1, TailRange DEF Held
<1> HIDE DEF set
<1>4. Waiting' = Waiting
  BY <1>1, <1>2, QuietWaiting
<1>5. /\ Owned(w) = Held(w) /\ Owned(w)' = Held(w) \ {set}
      /\ \A v \in Worker \ {w} : Owned(v)' = Owned(v)
  <2>1. Owned(w) = Held(w) /\ Owned(w)' = Held(w)'
    BY <1>1 DEF Owned, Held
  <2>2. \A v \in Worker \ {w} : Owned(v)' = Owned(v)
    BY <1>1, <1>2 DEF Owned
  <2> QED
    BY <1>3, <2>1, <2>2
<1>6. /\ [v \in Worker |-> Owned(v)]' =
           [[v \in Worker |-> Owned(v)] EXCEPT ![w] = Owned(w) \ {set}]
      /\ [v \in Worker |-> Unrecorded(v)]' =
           [[v \in Worker |-> Unrecorded(v)] EXCEPT ![w] = Unrecorded(w) \cup {set}]
      /\ (Range(done) \ {Joined})' = Range(done) \ {Joined} /\ Fragment' = Fragment
  BY <1>1, <1>5
<1> QED
  BY <1>1, <1>2, <1>4, <1>5, <1>6 DEF pool!Run

(* A write() to the done file records sets that were run, all of them unless
   the first has been written behind half a line. *)
LEMMA FlushDonePool ==
  ASSUME TypeInv, TypeInv', DoneInv, ~spoiled, NEW w \in Worker, FlushDone(w)
  PROVE  crashes' = crashes /\ pool!Record(w)
<1>1. PICK piece \in Seq(Text) :
        /\ IsInjective(piece) /\ piece # <<>> /\ Range(piece) \subseteq Unrecorded(w)
        /\ done' = done \o (IF Fragment THEN <<Joined>> \o Tail(piece) ELSE piece)
        /\ ~Fragment'
        /\ Unrecorded(w)' = Unrecorded(w) \ Range(piece)
  BY FlushDoneRecords DEF DoneInv
<1>2. /\ pc[w] = "appending" /\ queue' = queue /\ crashes' = crashes
      /\ ended' = ended /\ pos' = pos
      /\ paramsQueue' = paramsQueue /\ kept' = kept /\ pc'[w] # "rewriting"
      /\ pc'[w] \in {"appending", "resize"}
      /\ \A v \in Worker \ {w} : /\ pc'[v] = pc[v] /\ flushed'[v] = flushed[v]
                                  /\ doneParams'[v] = doneParams[v]
  BY DEF FlushDone, history, TypeInv, TypeOK
<1>3. Waiting' = Waiting
  BY <1>2, QuietWaiting
<1>4. Owned(w) = {} /\ \A v \in Worker : Owned(v)' = Owned(v)
  <2>1. paramsQueue[w] = <<>>
    BY <1>2 DEF TypeInv, PhaseInv, ClaimsHeld
  <2>2. Owned(w) = {} /\ Owned(w)' = {}
    BY <1>2, <2>1, EmptyHeld DEF Owned
  <2>3. \A v \in Worker \ {w} : Owned(v)' = Owned(v)
    BY <1>2 DEF Owned
  <2> QED
    BY <2>2, <2>3
<1>5. \A v \in Worker \ {w} : Unrecorded(v)' = Unrecorded(v)
  BY <1>2 DEF Unrecorded
<1>6. /\ Head(piece) \in Range(piece) /\ Joined \notin Range(piece)
      /\ IF Fragment
         THEN (Range(done) \ {Joined})' =
                (Range(done) \ {Joined}) \cup (Range(piece) \ {Head(piece)})
         ELSE (Range(done) \ {Joined})' = (Range(done) \ {Joined}) \cup Range(piece)
  <2>1. done \in Seq(Text \cup {Joined}) /\ Range(piece) \subseteq Text
    BY <1>1, RangeOfSeq DEF TypeInv, TypeOK
  <2>2. Joined \notin Range(piece)
    BY <2>1, ParamsAssumption
  <2>3. Head(piece) \in Range(piece)
    <3>1. Len(piece) \in Nat \ {0} /\ DOMAIN piece = 1..Len(piece) /\ Head(piece) = piece[1]
      BY <1>1, EmptySeq, LenProperties, HeadTailProperties
    <3>2. 1 \in DOMAIN piece
      BY <3>1
    <3> QED
      BY <3>1, <3>2 DEF Range
  <2>4. CASE Fragment
    <3> DEFINE lines == <<Joined>> \o Tail(piece)
    <3>1. Tail(piece) \in Seq(Text) /\ Range(Tail(piece)) = Range(piece) \ {Head(piece)}
      BY <1>1, HeadTailProperties, TailRange
    <3>2. lines \in Seq(Text \cup {Joined}) /\ Range(lines) = {Joined} \cup Range(Tail(piece))
      BY <3>1, JoinedAhead
    <3>3. done' = done \o lines
      BY <1>1, <2>4
    <3> HIDE DEF lines
    <3>4. Range(done') = Range(done) \cup Range(lines)
      BY <2>1, <3>2, <3>3, RangeConcatenation
    <3> QED
      BY <2>2, <2>3, <2>4, <3>1, <3>2, <3>4
  <2>5. CASE ~Fragment
    <3>1. done' = done \o piece /\ piece \in Seq(Text \cup {Joined})
      BY <1>1, <2>5
    <3>2. Range(done') = Range(done) \cup Range(piece)
      BY <2>1, <3>1, RangeConcatenation
    <3> QED
      BY <2>2, <2>3, <2>5, <3>2
  <2> QED
    BY <2>4, <2>5
<1>7. /\ [v \in Worker |-> Owned(v)]' = [v \in Worker |-> Owned(v)]
      /\ [v \in Worker |-> Unrecorded(v)]' =
           [[v \in Worker |-> Unrecorded(v)] EXCEPT ![w] = Unrecorded(w) \ Range(piece)]
  BY <1>1, <1>4, <1>5
<1>8. Range(piece) \in (SUBSET Unrecorded(w)) \ {{}}
  BY <1>1, <1>6
<1>9. Fragment' = FALSE
  BY <1>1 DEF Fragment
<1> QED
  BY <1>2, <1>3, <1>4, <1>6, <1>7, <1>8, <1>9 DEF pool!Record

(* A crash short of a rewrite under way loses what its process claimed and what
   it had yet to record; what it had only read waits on. *)
LEMMA CrashPool ==
  ASSUME TypeInv, TypeInv', ListInv, ~spoiled', NEW w \in Worker, Crash(w)
  PROVE  crashes' > 0 /\ pool!Lose(w)
<1>1. /\ queue' = queue /\ ended' = ended /\ pos' = pos /\ pc'[w] = "crashed" /\ paramsQueue'[w] = <<>>
      /\ \A v \in Worker \ {w} : /\ pc'[v] = pc[v] /\ kept'[v] = kept[v]
                                  /\ paramsQueue'[v] = paramsQueue[v]
  BY DEF Crash, TypeInv, TypeOK
<1>2. crashes' > 0
  BY DEF Crash, TypeInv, TypeOK
<1>3. ~spoiled /\ (pc[w] = "rewriting" => flushed[w] = 0)
  <2>1. spoiled \in BOOLEAN /\ flushed[w] \in Nat
    BY DEF TypeInv, TypeOK
  <2>2. ~spoiled /\ ~(pc[w] = "rewriting" /\ flushed[w] > 0)
    BY <2>1 DEF Crash
  <2> QED
    BY <2>1, <2>2
<1>4. Waiting' = Waiting
  <2>1. CASE pc[w] = "rewriting"
    <3>1. Waiting = WorkIn(queue)
      BY <1>3, <2>1, WaitingCases DEF ListInv
    <3>2. \A v \in Worker : pc'[v] # "rewriting"
      BY <1>1, <2>1 DEF TypeInv, PhaseInv, LocksHeld
    <3>3. WorkIn(queue)' = WorkIn(queue)
      BY <1>1 DEF WorkIn, IsWork
    <3> QED
      BY <3>1, <3>2, <3>3, WaitingCasesNext
  <2>2. CASE pc[w] # "rewriting"
    BY <1>1, <2>2, QuietWaiting
  <2> QED
    BY <2>1, <2>2
<1>5. /\ done' = done /\ Unrecorded(w)' = {}
      /\ Fragment' # Fragment => Fragment' /\ pc[w] = "appending"
      /\ \A v \in Worker \ {w} : Unrecorded(v)' = Unrecorded(v)
  BY CrashRecords
<1>6. Owned(w)' = {} /\ \A v \in Worker \ {w} : Owned(v)' = Owned(v)
  BY <1>1, EmptyHeld DEF Owned
<1>7. /\ [v \in Worker |-> Owned(v)]' = [[v \in Worker |-> Owned(v)] EXCEPT ![w] = {}]
      /\ [v \in Worker |-> Unrecorded(v)]' =
           [[v \in Worker |-> Unrecorded(v)] EXCEPT ![w] = {}]
      /\ (Range(done) \ {Joined})' = Range(done) \ {Joined}
  BY <1>5, <1>6
<1>8. \/ Fragment' = Fragment
      \/ Owned(w) = {} /\ Unrecorded(w) # {} /\ Fragment' = TRUE
  <2>1. ASSUME pc[w] = "appending" PROVE Owned(w) = {} /\ Unrecorded(w) # {}
    <3>1. paramsQueue[w] = <<>>
      BY <2>1 DEF TypeInv, PhaseInv, ClaimsHeld
    <3>2. /\ Len(doneParams[w]) \in DOMAIN doneParams[w]
          /\ flushed[w] < Len(doneParams[w])
      BY <2>1, LenProperties DEF TypeInv, TypeOK, PhaseInv, ChunkTimed
    <3> QED
      BY <2>1, <3>1, <3>2, EmptyHeld DEF Owned, Unrecorded
  <2>2. ASSUME Fragment' PROVE Fragment' = TRUE
    BY <2>2 DEF Fragment
  <2> QED
    BY <1>5, <2>1, <2>2
<1> QED
  BY <1>2, <1>4, <1>7, <1>8 DEF pool!Lose

------------------------------------------------------------------------------
(* The invariants of the proofs, together. *)
PoolInv == TypeInv /\ OwnerInv /\ DoneInv /\ CountInv /\ ListInv /\ TextInv

(* They hold in every reachable state. *)
LEMMA PoolInvAlways == Spec => []PoolInv
<1>1. Init => PoolInv
  BY InitTypeInv, InitOwnerInv, InitDoneInv, InitCountInv, InitListInv, InitTextInv
     DEF PoolInv
<1>2. PoolInv /\ [Next]_vars => PoolInv'
  BY NextTypeInv, NextOwnerInv, NextDoneInv, NextCountInv, NextListInv, NextTextInv
     DEF PoolInv
<1> QED
  BY <1>1, <1>2, PTL DEF Spec

(* A step that does not spoil the queue file is a step of the pool or shows
   nothing to it; only a crash is one that loses. *)
LEMMA PoolStep ==
  ASSUME PoolInv, PoolInv', ~spoiled', [Next]_vars
  PROVE  \/ PoolStays /\ crashes' = crashes
         \/ \E w \in Worker : /\ pool!Claim(w) \/ pool!Run(w) \/ pool!Record(w)
                              /\ crashes' = crashes
         \/ \E w \in Worker : pool!Lose(w) /\ crashes' > 0
<1> USE DEF PoolInv
<1>1. ASSUME NEW w \in Worker,
             \/ LockQueue(w) \/ ReadWork(w) \/ ReadOther(w) \/ NoWorkLeft(w)
             \/ StartRewrite(w) \/ NoDoneFile(w) \/ LockDone(w) \/ ResizeChunk(w) \/ Restart(w)
      PROVE  PoolStays /\ crashes' = crashes
  BY <1>1, QuietPool
<1>2. ASSUME NEW w \in Worker, FlushQueue(w)
      PROVE  (PoolStays \/ pool!Claim(w)) /\ crashes' = crashes
  <2>1. ~spoiled
    BY <1>2 DEF FlushQueue, history
  <2> QED
    BY <1>2, <2>1, FlushQueuePool
<1>3. ASSUME NEW w \in Worker, NEW duration \in Durations, RunItem(w, duration)
      PROVE  pool!Run(w) /\ crashes' = crashes
  <2>1. ~spoiled
    BY <1>3 DEF RunItem
  <2> QED
    BY <1>3, <2>1, RunItemPool
<1>4. ASSUME NEW w \in Worker, FlushDone(w)
      PROVE  pool!Record(w) /\ crashes' = crashes
  <2>1. ~spoiled
    BY <1>4 DEF FlushDone, history
  <2> QED
    BY <1>4, <2>1, FlushDonePool
<1>5. ASSUME NEW w \in Worker, Crash(w)
      PROVE  pool!Lose(w) /\ crashes' > 0
  BY <1>5, CrashPool
<1>6. CASE CreateDoneFile \/ UNCHANGED vars
  BY <1>6, StutterPool
<1> QED
  BY <1>1, <1>2, <1>3, <1>4, <1>5, <1>6 DEF Next, Step

(* The file, the locks, the stream buffers and the crashes together implement
   the pool, until the queue file is spoiled: every step of a process is a claim,
   a run, a record or a loss of whole sets, or shows nothing. *)
THEOREM ImplementsPool == Spec => ImplementsWorkPool
<1>1. Init => pool!PoolInit
  BY InitPool
<1>2. PoolInv /\ PoolInv' /\ [Next]_vars =>
        [spoiled' \/ [pool!PoolNext]_(pool!poolVars)]_vars
  <2> SUFFICES ASSUME PoolInv, PoolInv', [Next]_vars, ~spoiled'
               PROVE  pool!PoolNext \/ UNCHANGED pool!poolVars
    OBVIOUS
  <2>1. \/ PoolStays
        \/ \E w \in Worker : pool!Claim(w) \/ pool!Run(w) \/ pool!Record(w) \/ pool!Lose(w)
    BY PoolStep
  <2> QED
    BY <2>1, StaysIsStutter DEF pool!PoolNext
<1> QED
  BY <1>1, <1>2, PoolInvAlways, PTL DEF Spec, ImplementsWorkPool

(* The set waits, is claimed, is yet to be recorded or is recorded. *)
InSight(p) ==
  \/ p \in Waiting \cup Range(done)
  \/ \E w \in Worker : p \in Owned(w) \cup Unrecorded(w)

(* A claim, a run and a record behind a whole line move sets: none goes out of
   sight. *)
LEMMA PoolKeeps ==
  ASSUME NEW w \in Worker, pool!Claim(w) \/ pool!Run(w) \/ pool!Record(w),
         ~Fragment, NEW p \in Params, InSight(p)
  PROVE  InSight(p)'
<1> DEFINE own == [v \in Worker |-> Owned(v)]
           unr == [v \in Worker |-> Unrecorded(v)]
<1>1. \A v \in Worker : /\ own[v] = Owned(v) /\ own'[v] = Owned(v)'
                        /\ unr[v] = Unrecorded(v) /\ unr'[v] = Unrecorded(v)'
  OBVIOUS
<1>0. p # Joined
  BY ParamsAssumption DEF Text
<1>2. CASE pool!Claim(w)
  <2>1. PICK S \in (SUBSET Waiting) \ {{}} :
          Waiting' = Waiting \ S /\ own' = [own EXCEPT ![w] = S]
    BY <1>2 DEF pool!Claim
  <2>2. own[w] = {} /\ unr' = unr /\ (Range(done) \ {Joined})' = Range(done) \ {Joined}
    BY <1>2 DEF pool!Claim
  <2>3. own'[w] = S /\ \A v \in Worker \ {w} : own'[v] = own[v]
    BY <2>1
  <2> HIDE DEF own, unr
  <2> QED
    BY <1>0, <1>1, <2>1, <2>2, <2>3 DEF InSight
<1>3. CASE pool!Run(w)
  <2>1. PICK q \in own[w] : /\ own' = [own EXCEPT ![w] = own[w] \ {q}]
                            /\ unr' = [unr EXCEPT ![w] = unr[w] \cup {q}]
    BY <1>3 DEF pool!Run
  <2>2. Waiting' = Waiting /\ (Range(done) \ {Joined})' = Range(done) \ {Joined}
    BY <1>3 DEF pool!Run
  <2>3. /\ own'[w] = own[w] \ {q} /\ unr'[w] = unr[w] \cup {q}
        /\ \A v \in Worker \ {w} : own'[v] = own[v] /\ unr'[v] = unr[v]
    BY <2>1
  <2> HIDE DEF own, unr
  <2> QED
    BY <1>0, <1>1, <2>2, <2>3 DEF InSight
<1>4. CASE pool!Record(w)
  <2>1. PICK S \in (SUBSET unr[w]) \ {{}} :
          /\ (Range(done) \ {Joined})' = (Range(done) \ {Joined}) \cup S
          /\ unr' = [unr EXCEPT ![w] = unr[w] \ S]
    BY <1>4 DEF pool!Record
  <2>2. Waiting' = Waiting /\ own' = own
    BY <1>4 DEF pool!Record
  <2>3. unr'[w] = unr[w] \ S /\ \A v \in Worker \ {w} : unr'[v] = unr[v]
    BY <2>1
  <2> HIDE DEF own, unr
  <2> QED
    BY <1>0, <1>1, <2>1, <2>2, <2>3 DEF InSight
<1> QED
  BY <1>2, <1>3, <1>4

(* With no crash every set is in sight, unless the queue file is spoiled. *)
SightInv == (crashes = 0 /\ ~spoiled) => \A p \in Params : InSight(p)

(* Every step preserves it. *)
LEMMA NextSightInv == PoolInv /\ PoolInv' /\ SightInv /\ [Next]_vars => SightInv'
<1> SUFFICES ASSUME PoolInv, PoolInv', SightInv, [Next]_vars, crashes' = 0, ~spoiled'
             PROVE  \A p \in Params : InSight(p)'
  BY DEF SightInv
<1>1. ~spoiled /\ crashes = 0
  <2>1. crashes \in Nat
    BY DEF PoolInv, TypeInv, TypeOK
  <2>2. ASSUME NEW w \in Worker, Crash(w) PROVE FALSE
    BY <2>1, <2>2 DEF Crash
  <2>3. ASSUME NEW w \in Worker, NEW duration \in Durations, RunItem(w, duration)
        PROVE  spoiled' = spoiled /\ crashes' = crashes
    BY <2>3 DEF RunItem
  <2>4. ASSUME NEW w \in Worker, FlushDone(w)
        PROVE  spoiled' = spoiled /\ crashes' = crashes
    BY <2>4 DEF FlushDone, history
  <2>5. ASSUME NEW w \in Worker,
               \/ LockQueue(w) \/ ReadWork(w) \/ ReadOther(w) \/ NoWorkLeft(w)
               \/ StartRewrite(w) \/ FlushQueue(w) \/ NoDoneFile(w) \/ LockDone(w)
               \/ ResizeChunk(w) \/ Restart(w)
        PROVE  (spoiled => spoiled') /\ crashes' = crashes
    BY <2>5, QuietRecords DEF PoolInv
  <2>6. ASSUME CreateDoneFile \/ UNCHANGED vars
        PROVE  (spoiled => spoiled') /\ crashes' = crashes
    BY <2>6, StutterRecords
  <2> QED
    BY <2>2, <2>3, <2>4, <2>5, <2>6 DEF Next, Step
<1>2. \A p \in Params : InSight(p)
  BY <1>1 DEF SightInv
<1>3. CASE PoolStays
  BY <1>2, <1>3 DEF PoolStays, InSight
<1>4. ~Fragment
  <2>1. CountInv /\ Cardinality(JoinedLines) \in Nat
    BY FS_CardinalityType DEF PoolInv, CountInv
  <2> QED
    BY <1>1, <2>1 DEF CountInv
<1>5. ASSUME NEW w \in Worker, pool!Claim(w) \/ pool!Run(w) \/ pool!Record(w)
      PROVE  \A p \in Params : InSight(p)'
  BY <1>2, <1>4, <1>5, PoolKeeps
<1>6. ~(crashes' > 0)
  OBVIOUS
<1> QED
  BY <1>2, <1>3, <1>5, <1>6, PoolStep

(* While no process dies no parameter set is ever out of sight, whatever the
   processes are in the middle of, unless the queue file the user wrote has a last
   line without an end that a claimed line has run into. *)
THEOREM NothingEverLost == Spec => []NothingLost
<1>1. Init => SightInv
  <2> SUFFICES ASSUME Init PROVE SightInv
    OBVIOUS
  <2>1. Waiting = Params
    BY InitPool DEF pool!PoolInit
  <2> QED
    BY <2>1 DEF SightInv, InSight
<1>2. SightInv => NothingLost
  BY DEF SightInv, NothingLost, InSight
<1> QED
  BY <1>1, <1>2, PoolInvAlways, NextSightInv, PTL DEF Spec

------------------------------------------------------------------------------
(* The work of a file stands in ascending order. *)
WorkSorted(lines) ==
  \A j, k \in DOMAIN lines :
    (j < k /\ IsWork(lines[j]) /\ IsWork(lines[k])) => lines[j].params < lines[k].params

(* The work of the file, and of what is to be written over it, is in order; the
   claims come before all the work that is left; and whatever comes after a set
   that waits waits too. *)
OrderInv ==
  ~spoiled =>
    /\ QueueIntact => WorkSorted(queue)
    /\ \A w \in Worker : pc[w] = "rewriting" =>
         /\ WorkSorted(NewContents(w))
         /\ \A p \in Held(w) : \A q \in WorkIn(NewContents(w)) : p < q
    /\ \A p, q \in Params : (p < q /\ p \in Waiting) => q \in Waiting

(* Lines that are no work, before or after, leave the order alone. *)
LEMMA SortedConcat ==
  ASSUME NEW s \in Seq(Line), NEW t \in Seq(Line),
         \/ WorkSorted(s) /\ WorkIn(t) = {}
         \/ WorkIn(s) = {} /\ WorkSorted(t)
  PROVE  WorkSorted(s \o t)
<1> DEFINE InS(i) == i \in DOMAIN s /\ (s \o t)[i] = s[i]
           InT(i) == \E l \in DOMAIN t : i = Len(s) + l /\ (s \o t)[i] = t[l]
<1> SUFFICES ASSUME NEW j \in DOMAIN (s \o t), NEW k \in DOMAIN (s \o t), j < k,
                    IsWork((s \o t)[j]), IsWork((s \o t)[k])
             PROVE  (s \o t)[j].params < (s \o t)[k].params
  BY DEF WorkSorted
<1>1. (InS(j) \/ InT(j)) /\ (InS(k) \/ InT(k))
  BY ConcatCases
<1>2. CASE WorkSorted(s) /\ WorkIn(t) = {}
  <2>1. \A l \in DOMAIN t : ~IsWork(t[l])
    BY <1>2 DEF WorkIn, Range
  <2>2. InS(j) /\ InS(k)
    BY <1>1, <2>1
  <2> QED
    BY <1>2, <2>2 DEF WorkSorted
<1>3. CASE WorkIn(s) = {} /\ WorkSorted(t)
  <2>1. \A l \in DOMAIN s : ~IsWork(s[l])
    BY <1>3 DEF WorkIn, Range
  <2>2. InT(j) /\ InT(k)
    BY <1>1, <2>1
  <2>3. PICK l \in DOMAIN t : j = Len(s) + l /\ (s \o t)[j] = t[l]
    BY <2>2
  <2>4. PICK m \in DOMAIN t : k = Len(s) + m /\ (s \o t)[k] = t[m]
    BY <2>2
  <2>5. l < m
    <3>1. Len(s) \in Nat /\ l \in Nat /\ m \in Nat
      BY LenProperties
    <3> QED
      BY <2>3, <2>4, <3>1
  <2> QED
    BY <1>3, <2>3, <2>4, <2>5 DEF WorkSorted
<1> QED
  BY <1>2, <1>3

(* What a process has read comes before the work it has not read. *)
LEMMA ReaderOrder ==
  ASSUME TypeInv, OwnerInv, OrderInv, ~spoiled, NEW w \in Worker, pc[w] = "reading",
         NEW rest \in Seq(Line),
         rest = SubSeq(queue, pos[w] + 1, Len(queue))
  PROVE  /\ WorkSorted(rest)
         /\ \A p \in Held(w) : \A q \in WorkIn(rest) : p < q
<1> DEFINE n == Len(queue)
<1>1. /\ \A v \in Worker \ {w} : pc[v] \notin {"reading", "rewriting"}
      /\ ReadFromQueue(w)
      /\ pos[w] \in Nat /\ pos[w] <= n /\ n \in Nat /\ DOMAIN queue = 1..n
      /\ \A i \in 1..n : queue[i] \in Line
  BY ReaderAlone
<1>2. WorkSorted(queue)
  <2>1. QueueIntact
    BY <1>1 DEF QueueIntact
  <2> QED
    BY <2>1 DEF OrderInv
<1>3. DOMAIN rest = 1..(n - pos[w]) /\ \A i \in 1..(n - pos[w]) : rest[i] = queue[pos[w] + i]
  <2>1. queue \in Seq(Line) /\ pos[w] \in Nat /\ pos[w] <= Len(queue)
    BY <1>1 DEF TypeInv, TypeOK
  <2>2. rest = SubSeq(queue, pos[w] + 1, Len(queue))
    OBVIOUS
  <2>3. /\ DOMAIN rest = 1..(Len(queue) - pos[w])
        /\ \A i \in 1..(Len(queue) - pos[w]) : rest[i] = queue[pos[w] + i]
    BY <2>1, <2>2, RestOfLines
  <2> QED
    BY <2>3
<1> HIDE DEF n
<1>4. \A i \in 1..(n - pos[w]) : pos[w] + i \in 1..n /\ \A l \in 1..pos[w] : l \in 1..n /\ l < pos[w] + i
  BY <1>1
<1>5. WorkSorted(rest)
  <2> SUFFICES ASSUME NEW j \in 1..(n - pos[w]), NEW k \in 1..(n - pos[w]), j < k,
                      IsWork(rest[j]), IsWork(rest[k])
               PROVE  rest[j].params < rest[k].params
    BY <1>3 DEF WorkSorted
  <2>1. pos[w] + j < pos[w] + k
    BY <1>1
  <2> QED
    BY <1>1, <1>2, <1>3, <1>4, <2>1 DEF WorkSorted
<1>6. ASSUME NEW p \in Held(w), NEW q \in WorkIn(rest) PROVE p < q
  <2>1. PICK l \in 1..pos[w] : IsWork(queue[l]) /\ queue[l].params = p
    BY <1>1 DEF ReadFromQueue
  <2>2. PICK i \in 1..(n - pos[w]) : IsWork(rest[i]) /\ rest[i].params = q
    BY <1>3 DEF WorkIn, Range
  <2> QED
    BY <1>1, <1>2, <1>3, <1>4, <2>1, <2>2 DEF WorkSorted
<1> QED
  BY <1>5, <1>6

(* What is to be written over the file: the work that is left, in order, behind
   the claims. *)
LEMMA StartRewriteOrder ==
  ASSUME TypeInv, OwnerInv, ListInv, OrderInv, ~spoiled', NEW w \in Worker, StartRewrite(w)
  PROVE  /\ WorkSorted(NewContents(w)')
         /\ \A p \in Held(w) : \A q \in WorkIn(NewContents(w)') : p < q
<1> DEFINE rest == SubSeq(queue, pos[w] + 1, Len(queue))
<1>0. ~spoiled /\ ~Unended(w)
  BY DEF StartRewrite
<1>1. /\ pc[w] = "reading" /\ pos[w] \in Nat /\ pos[w] <= Len(queue)
      /\ queue \in Seq(Line) /\ kept[w] \in Seq(Line) /\ paramsQueue[w] \in Seq(Text)
  BY DEF StartRewrite, TypeInv, TypeOK, PhaseInv, LinesAccounted
<1>2. rest \in Seq(Line)
  BY <1>1, RestOfLines
<1>3. NewContents(w)' = (kept[w] \o rest) \o Claimed(w)
  <2>1. /\ kept'[w] = kept[w] \o rest /\ paramsQueue' = paramsQueue
        /\ queue' = queue /\ ended' = ended /\ pos' = pos
    BY DEF StartRewrite, files, TypeInv, TypeOK
  <2> HIDE DEF rest
  <2> QED
    BY <1>0, <2>1 DEF NewContents, Claimed, Unended
<1>4. /\ WorkIn(kept[w]) = {} /\ WorkSorted(rest)
      /\ \A p \in Held(w) : \A q \in WorkIn(rest) : p < q
  BY <1>0, <1>1, <1>2, ReaderLines, ReaderOrder
<1>5. Claimed(w) \in Seq(Line) /\ WorkIn(Claimed(w)) = {}
  BY <1>1, ClaimedIn
<1> HIDE DEF rest
<1>6. /\ kept[w] \o rest \in Seq(Line) /\ WorkSorted(kept[w] \o rest)
      /\ WorkIn(kept[w] \o rest) = WorkIn(rest)
  <2>1. WorkSorted(kept[w] \o rest)
    BY <1>1, <1>2, <1>4, SortedConcat
  <2>2. /\ kept[w] \o rest \in Seq(Line)
        /\ WorkIn(kept[w] \o rest) = WorkIn(kept[w]) \cup WorkIn(rest)
    BY <1>1, <1>2, ConcatLines
  <2> QED
    BY <1>4, <2>1, <2>2
<1>7. /\ WorkSorted((kept[w] \o rest) \o Claimed(w))
      /\ WorkIn((kept[w] \o rest) \o Claimed(w)) = WorkIn(rest)
  <2>1. WorkSorted((kept[w] \o rest) \o Claimed(w))
    BY <1>5, <1>6, SortedConcat
  <2>2. WorkIn((kept[w] \o rest) \o Claimed(w))
          = WorkIn(kept[w] \o rest) \cup WorkIn(Claimed(w))
    BY <1>5, <1>6, ConcatLines
  <2> QED
    BY <1>5, <1>6, <2>1, <2>2
<1> QED
  BY <1>3, <1>4, <1>7

(* The user's file is in order, and all of it waits. *)
LEMMA InitOrderInv == Init => OrderInv
<1> SUFFICES ASSUME Init PROVE OrderInv
  OBVIOUS
<1>1. WorkSorted(queue)
  BY QueueAssumption DEF Init, WorkSorted
<1>2. Waiting = Params
  BY InitPool DEF pool!PoolInit
<1>3. \A w \in Worker : pc[w] # "rewriting"
  BY DEF Init
<1> QED
  BY <1>1, <1>2, <1>3 DEF OrderInv

(* A step that leaves what waits and the file, and starts no rewrite. *)
LEMMA OrderFrame ==
  ASSUME OrderInv, ~spoiled, Waiting' = Waiting, queue' = queue, ended' = ended,
         NEW w \in Worker, pc'[w] # "rewriting",
         pc[w] = "rewriting" => flushed[w] = 0,
         \A v \in Worker \ {w} : /\ pc'[v] = pc[v] /\ kept'[v] = kept[v]
                                  /\ pos'[v] = pos[v] /\ flushed'[v] = flushed[v]
                                  /\ paramsQueue'[v] = paramsQueue[v]
  PROVE  OrderInv'
<1>1. QueueIntact' => WorkSorted(queue)'
  <2>1. QueueIntact' => QueueIntact
    BY DEF QueueIntact
  <2> QED
    BY <2>1 DEF OrderInv, WorkSorted, IsWork
<1>2. ASSUME NEW v \in Worker, pc'[v] = "rewriting"
      PROVE  /\ WorkSorted(NewContents(v))'
             /\ \A p \in Held(v)' : \A q \in WorkIn(NewContents(v))' : p < q
  <2>1. v # w /\ pc[v] = "rewriting"
    BY <1>2
  <2>2. NewContents(v)' = NewContents(v) /\ Held(v)' = Held(v)
    BY <2>1 DEF NewContents, Claimed, Unended, Held
  <2>3. WorkIn(NewContents(v))' = WorkIn(NewContents(v))
    BY <2>2 DEF WorkIn, IsWork
  <2>4. WorkSorted(NewContents(v))' <=> WorkSorted(NewContents(v))
    BY <2>2 DEF WorkSorted, IsWork
  <2> QED
    BY <2>1, <2>2, <2>3, <2>4 DEF OrderInv
<1> QED
  BY <1>1, <1>2 DEF OrderInv

(* A rewrite that is complete takes the claims, the first of what waits. *)
LEMMA FlushQueueOrder ==
  ASSUME TypeInv, TypeInv', OrderInv, NEW w \in Worker, FlushQueue(w)
  PROVE  OrderInv'
<1> SUFFICES ASSUME ~spoiled PROVE OrderInv'
  BY DEF OrderInv, FlushQueue, history
<1>1. /\ pc[w] = "rewriting"
      /\ \A v \in Worker \ {w} : pc[v] \notin {"reading", "rewriting"} /\ pc'[v] = pc[v]
      /\ spoiled' = spoiled /\ paramsQueue' = paramsQueue /\ kept' = kept
      /\ \/ queue' = NewContents(w) /\ pc'[w] = "work"
         \/ /\ pc'[w] = "rewriting" /\ flushed'[w] # 0
            /\ NewContents(w)' = NewContents(w)
  BY FlushQueueWrites
<1>2. /\ WorkSorted(NewContents(w))
      /\ \A p \in Held(w) : \A q \in WorkIn(NewContents(w)) : p < q
      /\ \A p, q \in Params : (p < q /\ p \in Waiting) => q \in Waiting
      /\ Waiting = WorkIn(NewContents(w)) \cup Held(w)
  BY <1>1, WaitingCases DEF OrderInv
<1>3. CASE queue' = NewContents(w) /\ pc'[w] = "work"
  <2>1. \A v \in Worker : pc'[v] # "rewriting"
    BY <1>1, <1>3
  <2>2. WorkIn(queue)' = WorkIn(NewContents(w))
    BY <1>3 DEF WorkIn, IsWork
  <2>3. Waiting' = WorkIn(NewContents(w))
    BY <2>1, <2>2, WaitingCasesNext
  <2>4. WorkSorted(queue)'
    BY <1>2, <1>3 DEF WorkSorted, IsWork
  <2>5. ASSUME NEW p \in Params, NEW q \in Params, p < q, p \in Waiting'
        PROVE  q \in Waiting'
    <3>1. q \in WorkIn(NewContents(w)) \/ q \in Held(w)
      BY <1>2, <2>3, <2>5
    <3>2. q \notin Held(w)
      BY <1>2, <2>3, <2>5, ParamsAssumption
    <3> QED
      BY <2>3, <3>1, <3>2
  <2> QED
    BY <2>1, <2>4, <2>5 DEF OrderInv
<1>4. CASE /\ pc'[w] = "rewriting" /\ flushed'[w] # 0
           /\ NewContents(w)' = NewContents(w)
  <2>1. NewContents(w)' = NewContents(w) /\ Held(w)' = Held(w)
    BY <1>1, <1>4 DEF Held
  <2>2. WorkIn(NewContents(w))' = WorkIn(NewContents(w))
    BY <2>1 DEF WorkIn, IsWork
  <2>3. WorkSorted(NewContents(w))'
    BY <1>2, <2>1 DEF WorkSorted, IsWork
  <2>4. Waiting' = Waiting
    BY <1>2, <1>4, <2>1, <2>2, WaitingCasesNext
  <2>5. ~QueueIntact' /\ \A v \in Worker : pc'[v] = "rewriting" => v = w
    BY <1>1, <1>4 DEF QueueIntact
  <2> QED
    BY <1>2, <2>1, <2>2, <2>3, <2>4, <2>5 DEF OrderInv
<1> QED
  BY <1>1, <1>3, <1>4

(* Every step preserves OrderInv. *)
LEMMA NextOrderInv == PoolInv /\ PoolInv' /\ OrderInv /\ [Next]_vars => OrderInv'
<1> SUFFICES ASSUME PoolInv, PoolInv', OrderInv, [Next]_vars, ~spoiled' PROVE OrderInv'
  BY DEF OrderInv
<1> USE DEF PoolInv
<1>1. ASSUME NEW w \in Worker,
             \/ LockQueue(w) \/ NoWorkLeft(w) \/ NoDoneFile(w) \/ LockDone(w) \/ FlushDone(w)
             \/ ResizeChunk(w) \/ Restart(w) \/ Crash(w)
             \/ \E duration \in Durations : RunItem(w, duration)
      PROVE  OrderInv'
  <2>1. ~spoiled /\ (pc[w] = "rewriting" => flushed[w] = 0)
    <3>1. spoiled \in BOOLEAN /\ flushed[w] \in Nat
      BY DEF TypeInv, TypeOK
    <3>2. spoiled => spoiled'
      BY <1>1 DEF LockQueue, NoWorkLeft, NoDoneFile, LockDone, FlushDone, ResizeChunk,
                  Restart, RunItem, Crash, history
    <3>3. Crash(w) => ~(pc[w] = "rewriting" /\ flushed[w] > 0)
      BY DEF Crash
    <3>4. pc[w] = "rewriting" => Crash(w)
      BY <1>1, OthersStay
    <3> QED
      BY <3>1, <3>2, <3>3, <3>4
  <2>2. Waiting' = Waiting
    <3>1. CASE Crash(w)
      BY <3>1, CrashPool DEF pool!Lose
    <3>2. CASE FlushDone(w)
      BY <2>1, <3>2, FlushDonePool DEF pool!Record
    <3>3. CASE \E duration \in Durations : RunItem(w, duration)
      BY <2>1, <3>3, RunItemPool DEF pool!Run
    <3>4. CASE \/ LockQueue(w) \/ NoWorkLeft(w) \/ NoDoneFile(w) \/ LockDone(w)
               \/ ResizeChunk(w) \/ Restart(w)
      BY <3>4, QuietPool DEF PoolStays
    <3> QED
      BY <1>1, <3>1, <3>2, <3>3, <3>4
  <2> QED
    BY <1>1, <2>1, <2>2, OthersStay, OrderFrame
<1>2. ASSUME NEW w \in Worker, ReadWork(w) \/ ReadOther(w)
      PROVE  OrderInv'
  <2>1. /\ pc[w] = "reading" /\ pc' = pc /\ queue' = queue /\ ended' = ended
        /\ spoiled' = spoiled
        /\ \A v \in Worker \ {w} : /\ kept'[v] = kept[v] /\ flushed'[v] = flushed[v]
                                    /\ pos'[v] = pos[v]
                                    /\ paramsQueue'[v] = paramsQueue[v]
    BY <1>2 DEF ReadWork, ReadOther, files, history, TypeInv, TypeOK
  <2>2. Waiting' = Waiting
    BY <1>2, QuietPool DEF PoolStays
  <2> QED
    BY <2>1, <2>2, OrderFrame
<1>3. ASSUME NEW w \in Worker, StartRewrite(w) PROVE OrderInv'
  <2>1. /\ pc[w] = "reading" /\ pc'[w] = "rewriting" /\ ~spoiled
        /\ queue' = queue /\ paramsQueue' = paramsQueue
        /\ \A v \in Worker \ {w} : pc'[v] = pc[v]
    BY <1>3 DEF StartRewrite, files, history, TypeInv, TypeOK
  <2>2. \A v \in Worker \ {w} : pc[v] # "rewriting"
    BY <2>1 DEF TypeInv, PhaseInv, LocksHeld
  <2>3. QueueIntact
    BY <2>1, <2>2 DEF QueueIntact
  <2>4. Waiting' = Waiting
    BY <1>3, QuietPool DEF PoolStays
  <2>5. /\ WorkSorted(NewContents(w)')
        /\ \A p \in Held(w) : \A q \in WorkIn(NewContents(w)') : p < q
    BY <1>3, <2>1, StartRewriteOrder
  <2>6. /\ WorkSorted(NewContents(w))' /\ Held(w)' = Held(w)
        /\ WorkIn(NewContents(w))' = WorkIn(NewContents(w)')
    BY <2>1, <2>5 DEF WorkSorted, WorkIn, IsWork, Held
  <2>7. WorkSorted(queue)'
    BY <2>1, <2>3 DEF OrderInv, WorkSorted, IsWork
  <2>8. \A v \in Worker : pc'[v] = "rewriting" => v = w
    BY <2>1, <2>2
  <2> QED
    BY <2>1, <2>4, <2>5, <2>6, <2>7, <2>8 DEF OrderInv
<1>4. CASE CreateDoneFile \/ UNCHANGED vars
  <2>1. /\ queue' = queue /\ ended' = ended /\ pos' = pos
        /\ pc' = pc /\ kept' = kept /\ flushed' = flushed
        /\ paramsQueue' = paramsQueue /\ spoiled' = spoiled
    BY <1>4 DEF CreateDoneFile, history, vars
  <2>2. \A w \in Worker : Held(w)' = Held(w) /\ NewContents(w)' = NewContents(w)
    BY <2>1 DEF Held, NewContents, Claimed, Unended
  <2>3. Waiting' = Waiting
    BY <1>4, StutterPool DEF PoolStays
  <2> QED
    BY <2>1, <2>2, <2>3 DEF OrderInv, QueueIntact, WorkSorted, WorkIn, IsWork
<1> QED
  BY <1>1, <1>2, <1>3, <1>4, FlushQueueOrder DEF Next, Step

(* Work is claimed in the order of the file, whichever process comes first and
   however often rewrites have moved the lines (getWork). *)
THEOREM AlwaysClaimedInOrder == Spec => []ClaimedInOrder
<1>1. Init => OrderInv
  BY InitOrderInv
<1>2. PoolInv /\ OrderInv => ClaimedInOrder
  BY ListInvImplies DEF PoolInv, OrderInv, ClaimedInOrder, FileKeepsEveryLine
<1> QED
  BY <1>1, <1>2, PoolInvAlways, NextOrderInv, PTL DEF Spec
==============================================================================
