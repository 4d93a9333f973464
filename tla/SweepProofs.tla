----------------------------- MODULE SweepProofs -----------------------------
(***************************************************************************)
(* Proofs about Sweep, for any ranges of atoms, any queue of parameter     *)
(* sets, any set of them refused, and any number of structures in a run.   *)
(***************************************************************************)
EXTENDS Sweep, SumProofs, SequenceTheorems

(***************************************************************************)
(* What is inductive.  First what the loops hand to each other: GlobalData *)
(* and the working directories, and which buffer is empty when.            *)
(***************************************************************************)
IsSeq(s) == s \in Seq(ToSet(s))
IsShared(data) == DOMAIN data = {"instance", "dir", "species"}
ParamsDir(k) == <<<<"dir", k>>>>
AtWork == setting.queued /\ pc \in {"stoich", "pipe"}

GlobalInv ==
  /\ global = [seed |-> "seed", dir |-> <<>>, params |-> global.params,
               generation |-> global.generation]
  /\ DOMAIN global.params = Tags

ControlInv ==
  /\ TypeOK
  /\ GlobalInv
  /\ IsShared(shared) /\ IsShared(inner)
  /\ waiting \in Seq(ToSet(setting.queue) \ {Unset, <<>>})
  /\ held # Unset
  /\ ~setting.queued => pc # "queue" /\ shared.dir = <<>> /\ buffer = <<>>
  /\ shared.dir # <<>> => \E k \in 1..unique : shared.dir = ParamsDir(k)
  /\ AtWork => global.params[QueueTag] = Head(waiting)
  /\ pc = "pipe" => inner.dir = SweepPath(stoich) /\ inner.species = held
  /\ pc # "pipe" => found = <<>>
  /\ pc \in {"queue", "end"} => stoichTable = NoTable /\ buffer = <<>>

(***************************************************************************)
(* Structures are told apart by their names, and a name is on the disk     *)
(* only when its structure is through the writer.                          *)
(***************************************************************************)
Fields == DOMAIN NewStructure(Unset, Unset)
NamesOf(s) == {s[k].name : k \in DOMAIN s}
Distinct(s) == \A j, k \in DOMAIN s : s[j].name = s[k].name => j = k
Batch(s) == IsSeq(s) /\ Distinct(s) /\ \A k \in DOMAIN s : DOMAIN s[k] = Fields
NamesAt(steps) == {p.structure.name : p \in {q \in passing : q.next \in steps}}
Steps == {"optimise", "save", "finish"}

NameInv ==
  /\ Batch(found) /\ Batch(buffer) /\ Batch(sent)
  /\ \A p \in passing : /\ DOMAIN p = {"next", "structure"} /\ p.next \in Steps
                        /\ DOMAIN p.structure = Fields
  /\ \A p, q \in passing : p.structure.name = q.structure.name => p = q
  /\ NamesOf(found) \cap NamesOf(buffer) = {}
  /\ (NamesOf(found) \cup NamesOf(buffer)) \cap NamesOf(sent) = {}
  /\ NamesAt(Steps) \cap (NamesOf(found) \cup NamesOf(buffer) \cup NamesOf(sent)) = {}
  /\ NamesAt(Steps) \cup NamesOf(found) \cup NamesOf(buffer) \cup NamesOf(sent)
       \subseteq {<<"structure", k>> : k \in 1..unique}
  /\ \A l \in DOMAIN disk :
       l.id \in NamesAt({"finish"}) \cup NamesOf(found) \cup NamesOf(buffer) \cup NamesOf(sent)

(***************************************************************************)
(* The parameters a structure is marked with are those the potential held, *)
(* and held stays what it is while the block that runs the queue buffers.  *)
(***************************************************************************)
Marked(s) == s.radii = held /\ s.params = IF setting.fits THEN held ELSE Unset

ParamInv ==
  /\ \A p \in passing :
       IF p.next = "optimise" THEN p.structure.radii = held /\ p.structure.params = Unset
       ELSE Marked(p.structure)
  /\ \A k \in DOMAIN found : Marked(found[k])
  /\ \A k \in DOMAIN buffer :
       IF setting.fits THEN buffer[k].radii = held /\ buffer[k].params = held
       ELSE buffer[k].params = Head(waiting)
  /\ setting.fits => \A k \in DOMAIN sent : sent[k].params = sent[k].radii
  /\ (setting.fits /\ (pc = "pipe" \/ buffer # <<>>)) =>
       Parameterised(global, setting.tag, held) = held

(***************************************************************************)
(* A structure that was saved is on the disk under the directory of its    *)
(* run, as it was then; rows follow.                                       *)
(***************************************************************************)
IsSavedIn(s, dir) ==
  s.saved # Unset =>
    /\ s.saved \in DOMAIN disk /\ s.saved = [path |-> s.saved.path, id |-> s.saved.id]
    /\ IsSeq(s.saved.path) /\ IsPrefix(Current \o dir, s.saved.path)
    /\ disk[s.saved].atoms = s.atoms
    /\ setting.fits => disk[s.saved].params = s.params

PlaceInv ==
  /\ \A p \in passing :
       /\ p.structure.atoms = stoich
       /\ IF p.next = "finish" THEN IsSavedIn(p.structure, inner.dir)
          ELSE p.structure.saved = Unset
  /\ \A k \in DOMAIN found : found[k].atoms = stoich /\ IsSavedIn(found[k], inner.dir)
  /\ \A k \in DOMAIN buffer : IsSavedIn(buffer[k], shared.dir)

RowFields == DOMAIN EmptyRow
LeadsTo(row, dir) == [row.lowest EXCEPT !.path = Absolute(dir) \o @]
Saved(row, dir) == disk[LeadsTo(row, dir)]

RowIsTrue(row, key, dir) ==
  row.lowest # Unset =>
    /\ LeadsTo(row, dir) \in DOMAIN disk
    /\ IsPrefix(Absolute(key), LeadsTo(row, dir).path)

(* The stoichiometries that have been run for the parameters at hand. *)
Ran == {n \in StoichRange : ~Skipped(n) /\ n \notin todo /\ (pc = "pipe" => n # stoich)}

RunsOnce == pc = "pipe" => stoich \notin todo /\ ~Skipped(stoich)

StoichRows ==
  (setting.separate /\ pc \in {"stoich", "pipe"}) =>
    /\ DOMAIN stoichTable = {SweepPath(n) : n \in Ran}
    /\ \A n \in Ran :
         LET row == stoichTable[SweepPath(n)]
         IN /\ DOMAIN row = RowFields /\ row.atoms = n
            /\ RowIsTrue(row, SweepPath(n), shared.dir)
            /\ row.lowest # Unset => Saved(row, shared.dir).atoms = n

TableKeys ==
  /\ DOMAIN table \subseteq {ParamsDir(k) : k \in 1..unique}
  /\ AtWork => shared.dir \notin DOMAIN table

TableRows ==
  \A key \in DOMAIN table :
    /\ RowIsTrue(table[key], key, <<>>)
    /\ (setting.fits /\ table[key].lowest # Unset) =>
         Saved(table[key], <<>>).params = table[key].params

RowInv == RunsOnce /\ StoichRows /\ TableKeys /\ TableRows

(***************************************************************************)
(* Lemmas about sequences and paths.                                       *)
(***************************************************************************)

(* Two sequences one behind the other. *)
LEMMA Joined ==
  ASSUME NEW s, IsSeq(s), NEW t, IsSeq(t)
  PROVE  /\ IsSeq(s \o t) /\ Len(s \o t) = Len(s) + Len(t)
         /\ Len(s) \in Nat /\ Len(t) \in Nat
         /\ DOMAIN s = 1..Len(s) /\ DOMAIN t = 1..Len(t)
         /\ DOMAIN (s \o t) = 1..(Len(s) + Len(t))
         /\ \A k \in 1..(Len(s) + Len(t)) :
              (s \o t)[k] = IF k <= Len(s) THEN s[k] ELSE t[k - Len(s)]
<1> DEFINE U == ToSet(s) \cup ToSet(t)
<1>1. s \in Seq(U) /\ t \in Seq(U)
  BY SeqMonotonic DEF IsSeq
<1> HIDE DEF U
<1>2. /\ s \o t \in Seq(U) /\ Len(s \o t) = Len(s) + Len(t)
      /\ \A k \in 1..(Len(s) + Len(t)) :
           (s \o t)[k] = IF k <= Len(s) THEN s[k] ELSE t[k - Len(s)]
  BY <1>1, ConcatProperties
<1>3. /\ Len(s) \in Nat /\ Len(t) \in Nat
      /\ DOMAIN s = 1..Len(s) /\ DOMAIN t = 1..Len(t)
      /\ DOMAIN (s \o t) = 1..Len(s \o t)
  BY <1>1, <1>2, LenProperties
<1>4. IsSeq(s \o t)
  BY <1>2, SeqOfRange DEF IsSeq, Range, ToSet
<1> QED
  BY <1>2, <1>3, <1>4

(* A sequence is one of its elements, or of more than those. *)
LEMMA SeqIsSeq ==
  ASSUME NEW S, NEW s \in Seq(S)
  PROVE  IsSeq(s)
BY SeqOfRange DEF IsSeq, Range, ToSet

(* The empty sequence before or behind another. *)
LEMMA JoinedEmpty ==
  ASSUME NEW s, IsSeq(s)
  PROVE  <<>> \o s = s /\ s \o <<>> = s /\ IsSeq(<<>>)
BY ConcatEmptySeq, EmptySeq DEF IsSeq

(* The path below a directory: the whole path begins with the directory, and
   is made relative to it by leaving that out. *)
LEMMA BelowPrefix ==
  ASSUME NEW base, IsSeq(base), NEW path, IsSeq(path), IsPrefix(base, path)
  PROVE  /\ IsSeq(SubSeq(path, Len(base) + 1, Len(path)))
         /\ base \o SubSeq(path, Len(base) + 1, Len(path)) = path
<1> DEFINE m == Len(base)
           n == Len(path)
           rest == SubSeq(path, m + 1, n)
<1>1. m \in Nat /\ n \in Nat /\ DOMAIN base = 1..m /\ DOMAIN path = 1..n /\ m <= n
  BY LenProperties DEF IsSeq, IsPrefix
<1>2. \A k \in 1..m : base[k] = path[k]
  <2>1. \A k \in 1..m : SubSeq(base, 1, m)[k] = base[k]
    <3>1. \A k \in 1..m : base[k] \in ToSet(base)
      BY <1>1 DEF ToSet
    <3> QED
      BY <1>1, <3>1, SubSeqProperties
  <2>2. \A k \in 1..m : SubSeq(path, 1, m)[k] = path[k]
    <3>1. \A k \in 1..m : path[k] \in ToSet(path)
      BY <1>1 DEF ToSet
    <3> QED
      BY <1>1, <3>1, SubSeqProperties
  <2> QED
    BY <2>1, <2>2 DEF IsPrefix
<1>3. /\ rest \in Seq(ToSet(path)) /\ Len(rest) = n - m
      /\ \A k \in 1..(n - m) : rest[k] = path[m + k]
  <2> HIDE DEF m, n
  <2>1. \A k \in (m + 1)..n : path[k] \in ToSet(path)
    BY <1>1 DEF ToSet
  <2>2. /\ rest \in Seq(ToSet(path))
        /\ Len(rest) = IF m + 1 <= n THEN n - (m + 1) + 1 ELSE 0
        /\ \A k \in 1..(n - (m + 1) + 1) : rest[k] = path[m + 1 + k - 1]
    BY <1>1, <2>1, SubSeqProperties
  <2>3. Len(rest) = n - m
    BY <1>1, <2>2
  <2>4. \A k \in 1..(n - m) : k \in 1..(n - (m + 1) + 1) /\ m + 1 + k - 1 = m + k
    BY <1>1
  <2> QED
    BY <2>2, <2>3, <2>4
<1>4. IsSeq(rest)
  <2> HIDE DEF rest
  <2> QED
    BY <1>3, SeqIsSeq
<1>5. base \o rest = path
  <2> HIDE DEF m, n, rest
  <2>1. /\ IsSeq(base \o rest) /\ Len(base \o rest) = m + (n - m)
        /\ \A k \in 1..(m + (n - m)) :
             (base \o rest)[k] = IF k <= m THEN base[k] ELSE rest[k - m]
    BY <1>3, <1>4, Joined DEF m
  <2>2. \A k \in 1..n : (base \o rest)[k] = path[k]
    <3> TAKE k \in 1..n
    <3>1. CASE k <= m
      BY <1>1, <1>2, <2>1, <3>1
    <3>2. CASE ~(k <= m)
      <4>1. k - m \in 1..(n - m) /\ m + (k - m) = k
        BY <1>1, <3>2
      <4>2. (base \o rest)[k] = rest[k - m]
        BY <1>1, <2>1, <3>2
      <4> QED
        BY <1>3, <4>1, <4>2
    <3> QED
      BY <3>1, <3>2
  <2>3. Len(base \o rest) = n
    BY <1>1, <2>1
  <2>4. base \o rest \in Seq(ToSet(base \o rest) \cup ToSet(path))
    BY <2>1, SeqMonotonic DEF IsSeq
  <2>5. path \in Seq(ToSet(base \o rest) \cup ToSet(path))
    BY SeqMonotonic DEF IsSeq
  <2> QED
    BY <2>2, <2>3, <2>4, <2>5, SeqEqual DEF n
<1> QED
  BY <1>4, <1>5

(* What is put behind a sequence leaves it in front. *)
LEMMA JoinedPrefix ==
  ASSUME NEW s, IsSeq(s), NEW t, IsSeq(t)
  PROVE  IsPrefix(s, s \o t)
<1> DEFINE u == s \o t
           m == Len(s)
<1>1. /\ m \in Nat /\ m <= Len(u) /\ DOMAIN s = 1..m
      /\ \A k \in 1..m : u[k] = s[k] /\ s[k] \in ToSet(s)
  <2>1. /\ m \in Nat /\ Len(t) \in Nat /\ Len(u) = m + Len(t) /\ DOMAIN s = 1..m
        /\ \A k \in 1..(m + Len(t)) : u[k] = IF k <= m THEN s[k] ELSE t[k - m]
    BY Joined
  <2>2. \A k \in 1..m : s[k] \in ToSet(s)
    BY <2>1 DEF ToSet
  <2> HIDE DEF u, m
  <2>3. \A k \in 1..m : k \in 1..(m + Len(t)) /\ k <= m
    BY <2>1
  <2> QED
    BY <2>1, <2>2, <2>3
<1>2. SubSeq(s, 1, m) = SubSeq(u, 1, m)
  <2> HIDE DEF u, m
  <2>1. /\ SubSeq(s, 1, m) \in Seq(ToSet(s)) /\ SubSeq(u, 1, m) \in Seq(ToSet(s))
        /\ Len(SubSeq(s, 1, m)) = Len(SubSeq(u, 1, m))
        /\ \A k \in 1..(m - 1 + 1) : SubSeq(s, 1, m)[k] = s[1 + k - 1]
        /\ \A k \in 1..(m - 1 + 1) : SubSeq(u, 1, m)[k] = u[1 + k - 1]
        /\ Len(SubSeq(s, 1, m)) = IF 1 <= m THEN m - 1 + 1 ELSE 0
    BY <1>1, SubSeqProperties
  <2>2. \A k \in 1..Len(SubSeq(s, 1, m)) : SubSeq(s, 1, m)[k] = SubSeq(u, 1, m)[k]
    BY <1>1, <2>1
  <2> QED
    BY <2>1, <2>2, SeqEqual
<1> QED
  BY <1>1, <1>2 DEF IsPrefix

(* The directories that blocks run in are relative, and where there is one a
   path below it is not the root either. *)
LEMMA DirsAreRelative ==
  /\ ~IsAbsolute(<<>>)
  /\ \A k \in Nat : ParamsDir(k) # <<>> /\ ~IsAbsolute(ParamsDir(k)) /\ IsSeq(ParamsDir(k))
  /\ \A n : ~IsAbsolute(<<<<"stoich", n>>>>)
BY DEF IsAbsolute, ParamsDir, Root, IsSeq, ToSet

(* Where the blocks that run pipes are at work: the queue in the directory the
   program runs in, the sweep in that of the parameters at hand. *)
LEMMA WorkingDirs ==
  ASSUME ControlInv
  PROVE  /\ WorkingDir(MainShared, global) = <<>>
         /\ WorkingDir(shared, global) = shared.dir
         /\ IsSeq(shared.dir) /\ ~IsAbsolute(shared.dir)
<1>1. global.dir = <<>> /\ MainShared.dir = <<>>
  BY DEF ControlInv, GlobalInv, MainShared, NewShared
<1>2. IsSeq(shared.dir) /\ ~IsAbsolute(shared.dir)
  <2>1. CASE shared.dir = <<>>
    BY <2>1, DirsAreRelative, JoinedEmpty, EmptySeq DEF IsSeq
  <2>2. CASE shared.dir # <<>>
    <3>1. PICK k \in 1..unique : shared.dir = ParamsDir(k)
      BY <2>2 DEF ControlInv
    <3>2. k \in Nat
      BY DEF ControlInv, TypeOK
    <3> QED
      BY <3>1, <3>2, DirsAreRelative
  <2> QED
    BY <2>1, <2>2
<1>3. WorkingDir(MainShared, global) = <<>>
  <2>1. IsSeq(<<>>)
    BY EmptySeq DEF IsSeq
  <2> QED
    BY <1>1, <2>1, DirsAreRelative, JoinedEmpty DEF WorkingDir
<1>4. WorkingDir(shared, global) = shared.dir
  BY <1>1, <1>2, JoinedEmpty DEF WorkingDir
<1> QED
  BY <1>2, <1>3, <1>4

(* The path of a stoichiometry leads on from the directory of the sweep, and
   stoichiometries with directories of their own have different ones. *)
LEMMA SweepPaths ==
  ASSUME ControlInv, NEW n
  PROVE  /\ IsSeq(SweepPath(n)) /\ ~IsAbsolute(SweepPath(n))
         /\ IsPrefix(shared.dir, SweepPath(n))
         /\ setting.separate => SweepPath(n) # <<>>
         /\ \A m : setting.separate /\ SweepPath(m) = SweepPath(n) => m = n
<1> DEFINE tail(m) == IF setting.separate THEN <<<<"stoich", m>>>> ELSE <<>>
<1>1. \A m : SweepPath(m) = shared.dir \o tail(m)
  BY WorkingDirs DEF SweepPath
<1>2. \A m : IsSeq(tail(m)) /\ ~IsAbsolute(tail(m))
  <2> TAKE m
  <2>1. IsSeq(<<>>)
    BY EmptySeq DEF IsSeq
  <2>2. <<<<"stoich", m>>>> \in Seq({<<"stoich", m>>})
    OBVIOUS
  <2>3. IsSeq(<<<<"stoich", m>>>>)
    BY <2>2, SeqIsSeq
  <2> QED
    BY <2>1, <2>3, DirsAreRelative
<1>3. IsSeq(shared.dir) /\ ~IsAbsolute(shared.dir)
  BY WorkingDirs
<1> HIDE DEF tail
<1>4. IsSeq(SweepPath(n))
  BY <1>1, <1>2, <1>3, Joined
<1>5. ~IsAbsolute(SweepPath(n))
  <2>1. CASE shared.dir = <<>>
    BY <1>1, <1>2, <2>1, JoinedEmpty
  <2>2. CASE shared.dir # <<>>
    <3>1. Len(shared.dir) \in Nat \ {0}
      BY <1>3, <2>2, EmptySeq DEF IsSeq
    <3>2. /\ Len(tail(n)) \in Nat
          /\ \A k \in 1..(Len(shared.dir) + Len(tail(n))) :
               (shared.dir \o tail(n))[k] =
                 IF k <= Len(shared.dir) THEN shared.dir[k] ELSE tail(n)[k - Len(shared.dir)]
      BY <1>2, <1>3, Joined
    <3>3. 1 \in 1..(Len(shared.dir) + Len(tail(n))) /\ 1 <= Len(shared.dir)
      BY <3>1, <3>2
    <3>4. (shared.dir \o tail(n))[1] = shared.dir[1]
      BY <3>2, <3>3
    <3> QED
      BY <1>1, <1>3, <2>2, <3>4 DEF IsAbsolute
  <2> QED
    BY <2>1, <2>2
<1>6. IsPrefix(shared.dir, SweepPath(n))
  BY <1>1, <1>2, <1>3, JoinedPrefix
<1>7. ASSUME NEW m, setting.separate, SweepPath(m) = SweepPath(n)
      PROVE  m = n
  <2>1. /\ tail(m) = <<<<"stoich", m>>>> /\ tail(n) = <<<<"stoich", n>>>>
        /\ Len(tail(m)) = 1 /\ Len(tail(n)) = 1
    BY <1>7 DEF tail
  <2>2. /\ Len(shared.dir) \in Nat
        /\ \A k \in 1..(Len(shared.dir) + 1) :
             (shared.dir \o tail(m))[k] =
               IF k <= Len(shared.dir) THEN shared.dir[k] ELSE tail(m)[k - Len(shared.dir)]
        /\ \A k \in 1..(Len(shared.dir) + 1) :
             (shared.dir \o tail(n))[k] =
               IF k <= Len(shared.dir) THEN shared.dir[k] ELSE tail(n)[k - Len(shared.dir)]
    BY <1>2, <1>3, <2>1, Joined
  <2>3. tail(m)[1] = tail(n)[1]
    <3> DEFINE k == Len(shared.dir) + 1
    <3>1. k \in 1..(Len(shared.dir) + 1) /\ ~(k <= Len(shared.dir)) /\ k - Len(shared.dir) = 1
      BY <2>2
    <3>2. (shared.dir \o tail(m))[k] = (shared.dir \o tail(n))[k]
      BY <1>1, <1>7
    <3> HIDE DEF k
    <3> QED
      BY <2>2, <3>1, <3>2
  <2> QED
    BY <2>1, <2>3
<1>8. ASSUME setting.separate
      PROVE  SweepPath(n) # <<>>
  <2>1. Len(tail(n)) = 1
    BY <1>8 DEF tail
  <2> DEFINE up == shared.dir
             own == tail(n)
  <2>2. SweepPath(n) = up \o own /\ IsSeq(up) /\ IsSeq(own) /\ Len(own) = 1
    BY <1>1, <1>2, <1>3, <2>1
  <2> HIDE DEF up, own
  <2>3. Len(up \o own) = Len(up) + 1 /\ Len(up) \in Nat
    BY <2>2, Joined
  <2>4. up \o own # <<>>
    BY <2>3
  <2> QED
    BY <2>2, <2>4
<1> QED
  BY <1>4, <1>5, <1>6, <1>7, <1>8

(***************************************************************************)
(* ControlInv holds throughout.                                            *)
(***************************************************************************)

LEMMA ControlInit == Init => ControlInv
<1> SUFFICES ASSUME Init PROVE ControlInv
  OBVIOUS
<1> USE SweepAssumption, SettingsAssumption
<1>1. TypeOK
  <2>1. setting.num \in Nat
    <3>1. setting \in Settings
      BY DEF Init
    <3> QED
      BY <3>1
  <2> QED
    BY <2>1 DEF Init, TypeOK, NewShared, MainShared
<1>2. GlobalInv
  BY DEF Init, GlobalInv, NewGlobal
<1>3. IsShared(shared) /\ IsShared(inner)
  BY DEF Init, IsShared, NewShared, MainShared
<1>4. waiting \in Seq(ToSet(setting.queue) \ {Unset, <<>>})
  BY DEF Init
<1>5. shared.dir = <<>>
  BY DEF Init, NewShared, MainShared
<1>6. held # Unset /\ found = <<>> /\ stoichTable = NoTable /\ buffer = <<>>
  BY DEF Init
<1>7. pc # "pipe" /\ ~AtWork /\ (~setting.queued => pc # "queue")
  BY DEF Init, AtWork
<1> QED
  BY <1>1, <1>2, <1>3, <1>4, <1>5, <1>6, <1>7 DEF ControlInv

(* The set at hand is a set of parameters. *)
LEMMA HeadWaits ==
  ASSUME ControlInv, waiting # <<>>
  PROVE  /\ Head(waiting) \notin {Unset, <<>>}
         /\ Tail(waiting) \in Seq(ToSet(setting.queue) \ {Unset, <<>>})
<1>1. waiting \in Seq(ToSet(setting.queue) \ {Unset, <<>>})
  BY DEF ControlInv
<1> QED
  BY <1>1, HeadTailProperties

(* The working directories stay where they are while the block that runs the
   sweep does and GlobalData has none. *)
LEMMA PathsStay ==
  ASSUME shared' = shared, setting' = setting, global'.dir = global.dir
  PROVE  /\ WorkingDir(shared, global)' = WorkingDir(shared, global)
         /\ \A n : SweepPath(n)' = SweepPath(n)
BY DEF WorkingDir, SweepPath, IsAbsolute

(* What handing parameters to the potential leaves it with is a set. *)
LEMMA HeldIsSet ==
  ASSUME held # Unset
  PROVE  Parameterised(global, setting.tag, held) # Unset
BY DEF Parameterised

LEMMA ControlStep == ControlInv /\ [Next]_vars => ControlInv'
<1> SUFFICES ASSUME ControlInv, [Next]_vars PROVE ControlInv'
  OBVIOUS
<1> USE SweepAssumption, SettingsAssumption
<1>1. CASE NextParams
  <2>1. /\ pc = "queue" /\ waiting # <<>> /\ setting.queued /\ pc' = "stoich"
        /\ UNCHANGED <<setting, held, waiting, stoich, found, inner, attempt, passing, buffer,
                       stoichTable>>
    BY <1>1, SettingsAssumption DEF NextParams, queueVars, pipeVars, ControlInv, TypeOK
  <2>2. unique' = unique + 1 /\ unique \in Nat
    BY <1>1 DEF NextParams, ControlInv, TypeOK
  <2>3. WorkingDir(MainShared, global) = <<>>
    BY WorkingDirs
  <2>4. IsShared(shared)' /\ shared'.dir = ParamsDir(unique') /\ shared'.dir # <<>>
    <3>1. shared' = [shared EXCEPT !.dir = Append(<<>>, <<"dir", unique'>>)]
      BY <1>1, <2>3 DEF NextParams
    <3>2. Append(<<>>, <<"dir", unique'>>) = ParamsDir(unique')
      BY DEF ParamsDir
    <3>3. ParamsDir(unique') # <<>>
      BY <2>2, DirsAreRelative
    <3> QED
      BY <3>1, <3>2, <3>3 DEF IsShared, ControlInv
  <2>5. /\ global' = [global EXCEPT !.params[QueueTag] = Head(waiting)]
        /\ DOMAIN global.params = Tags
    BY <1>1, <2>1, HeadWaits DEF NextParams, SetParameters, ControlInv, GlobalInv
  <2>6. global'.params[QueueTag] = Head(waiting) /\ GlobalInv'
    BY <2>5 DEF ControlInv, GlobalInv
  <2>7. TypeOK'
    <3>1. unique' \in Nat
      BY <2>2
    <3>2. todo' \subseteq StoichRange
      BY <1>1 DEF NextParams
    <3> QED
      BY <2>1, <2>4, <3>1, <3>2 DEF ControlInv, TypeOK
  <2>8. shared'.dir # <<>> => \E k \in 1..unique' : shared'.dir = ParamsDir(k)
    <3>1. unique' \in 1..unique'
      BY <2>2
    <3> QED
      BY <2>4, <3>1
  <2> QED
    BY <2>1, <2>4, <2>6, <2>7, <2>8 DEF ControlInv, AtWork
<1>2. CASE SkipStoich
  <2>1. /\ todo' \subseteq todo
        /\ UNCHANGED <<pc, setting, global, unique, held, waiting, buffer, shared, stoich, found,
                       stoichTable, inner, attempt, passing>>
    BY <1>2 DEF SkipStoich, programVars, queueVars, pipeVars
  <2>2. pc = "stoich"
    BY <1>2 DEF SkipStoich
  <2>3. TypeOK'
    BY <2>1 DEF ControlInv, TypeOK
  <2>4. GlobalInv'
    BY <2>1 DEF ControlInv, GlobalInv
  <2> QED
    BY <2>1, <2>2, <2>3, <2>4 DEF ControlInv, AtWork
<1>3. CASE RunStoich
  <2> DEFINE n == Upcoming
  <2>1. /\ pc = "stoich" /\ pc' = "pipe" /\ stoich' = n /\ n \in todo /\ todo' \subseteq todo
        /\ attempt' = 0
        /\ UNCHANGED <<setting, unique, waiting, buffer, shared, found, stoichTable, passing>>
    BY <1>3 DEF RunStoich, queueVars, Upcoming
  <2>2. global' = [global EXCEPT !.generation = n]
    BY <1>3 DEF RunStoich, SettingsFor
  <2>3. inner' = [[inner EXCEPT !.dir = SweepPath(n)] EXCEPT !.species = held']
    BY <1>3 DEF RunStoich, InnerFor
  <2>4. held' # Unset
    BY <1>3, HeldIsSet DEF RunStoich, ControlInv
  <2> HIDE DEF n
  <2>5. GlobalInv' /\ global'.generation = n /\ global'.params = global.params
    BY <2>2 DEF ControlInv, GlobalInv
  <2>6. IsShared(inner') /\ inner'.dir = SweepPath(n) /\ inner'.species = held'
    BY <2>3 DEF ControlInv, IsShared
  <2>7. global'.dir = global.dir
    BY <2>5 DEF GlobalInv, ControlInv
  <2>8. TypeOK'
    <3>1. setting.num \in Nat /\ 0 \in 0..setting.num
      BY DEF ControlInv, TypeOK
    <3> QED
      BY <2>1, <2>5, <3>1 DEF ControlInv, TypeOK
  <2>9. SweepPath(stoich)' = SweepPath(n)
    BY <2>1, <2>7 DEF SweepPath, WorkingDir
  <2> QED
    BY <2>1, <2>4, <2>5, <2>6, <2>8, <2>9 DEF ControlInv, AtWork
<1>4. CASE Generate
  <2>1. /\ pc = "pipe" /\ attempt' = attempt + 1 /\ attempt < setting.num
        /\ unique' \in {unique, unique + 1}
        /\ UNCHANGED <<pc, setting, global, held, waiting, buffer, shared, todo, stoich, found,
                       stoichTable, inner>>
    BY <1>4 DEF Generate, queueVars, stoichVars
  <2>2. unique \in Nat /\ unique' \in Nat /\ unique <= unique'
    BY <2>1 DEF ControlInv, TypeOK
  <2>3. attempt' \in 0..setting'.num
    <3>1. setting.num \in Nat /\ attempt \in 0..setting.num
      BY DEF ControlInv, TypeOK
    <3> QED
      BY <2>1, <3>1
  <2>4. TypeOK'
    BY <2>1, <2>2, <2>3 DEF ControlInv, TypeOK
  <2>5. GlobalInv'
    BY <2>1 DEF ControlInv, GlobalInv
  <2>6. SweepPath(stoich)' = SweepPath(stoich)
    BY <2>1 DEF SweepPath, WorkingDir
  <2>7. shared'.dir # <<>> => \E k \in 1..unique' : shared'.dir = ParamsDir(k)
    <3>1. \A k \in 1..unique : k \in 1..unique'
      BY <2>2
    <3> QED
      BY <2>1, <3>1 DEF ControlInv
  <2> QED
    BY <2>1, <2>4, <2>5, <2>6, <2>7 DEF ControlInv, AtWork
<1>5. CASE \E p \in passing : Optimise(p) \/ Save(p) \/ Finish(p)
  <2>1. /\ pc = "pipe"
        /\ UNCHANGED <<pc, setting, global, unique, held, waiting, buffer, shared, todo, stoich,
                       stoichTable, inner, attempt>>
    BY <1>5 DEF Optimise, Save, Finish, programVars, queueVars, stoichVars, ControlInv, TypeOK
  <2>2. TypeOK'
    BY <2>1 DEF ControlInv, TypeOK
  <2>3. GlobalInv'
    BY <2>1 DEF ControlInv, GlobalInv
  <2>4. SweepPath(stoich)' = SweepPath(stoich)
    BY <2>1 DEF SweepPath, WorkingDir
  <2> QED
    BY <2>1, <2>2, <2>3, <2>4 DEF ControlInv, AtWork
<1>6. CASE EndRun
  <2>1. /\ pc = "pipe" /\ pc' = "stoich" /\ found' = <<>> /\ passing = {}
        /\ (~setting.queued => buffer' = buffer)
        /\ UNCHANGED <<setting, global, unique, held, waiting, shared, todo, stoich, attempt,
                       passing>>
    BY <1>6 DEF EndRun, Released, programVars
  <2>2. IsShared(inner')
    BY <1>6 DEF EndRun, ResetOrNot, IsShared, NewShared, ControlInv
  <2>3. TypeOK'
    BY <2>1 DEF ControlInv, TypeOK
  <2>4. GlobalInv'
    BY <2>1 DEF ControlInv, GlobalInv
  <2> QED
    BY <2>1, <2>2, <2>3, <2>4 DEF ControlInv, AtWork
<1>7. CASE EndStoich
  <2>1. /\ pc = "stoich" /\ pc' = "end" /\ ~setting.queued /\ stoichTable' = NoTable
        /\ UNCHANGED <<setting, global, unique, held, waiting, buffer, shared, todo, stoich, found,
                       inner, attempt, passing>>
    BY <1>7 DEF EndStoich, programVars, queueVars, pipeVars
  <2>2. TypeOK'
    BY <2>1 DEF ControlInv, TypeOK
  <2>3. GlobalInv'
    BY <2>1 DEF ControlInv, GlobalInv
  <2> QED
    BY <2>1, <2>2, <2>3 DEF ControlInv, AtWork
<1>8. CASE EndParams
  <2>1. /\ pc = "stoich" /\ pc' = "queue" /\ setting.queued /\ stoichTable' = NoTable
        /\ buffer' = <<>> /\ waiting' = Tail(waiting) /\ todo = {}
        /\ shared' \in {shared, NewShared(<<"inner", unique>>)}
        /\ UNCHANGED <<setting, global, unique, held, todo, stoich, found, inner, attempt, passing>>
    BY <1>8 DEF EndParams, ParamsDone, ResetOrNot, programVars, pipeVars
  <2>2. TypeOK'
    BY <2>1 DEF ControlInv, TypeOK
  <2>3. GlobalInv'
    BY <2>1 DEF ControlInv, GlobalInv
  <2>4. waiting' \in Seq(ToSet(setting'.queue) \ {Unset, <<>>})
    <3>1. waiting # <<>>
      BY <2>1 DEF ControlInv, TypeOK
    <3> QED
      BY <2>1, <3>1, HeadWaits
  <2>5. IsShared(shared') /\ shared'.dir \in {shared.dir, <<>>}
    BY <2>1 DEF IsShared, NewShared, ControlInv
  <2> QED
    BY <2>1, <2>2, <2>3, <2>4, <2>5 DEF ControlInv, AtWork
<1>9. CASE EndQueue
  <2>1. /\ pc = "queue" /\ pc' = "end"
        /\ UNCHANGED <<setting, global, unique, held, waiting, buffer, shared, todo, stoich, found,
                       stoichTable, inner, attempt, passing>>
    BY <1>9 DEF EndQueue, programVars, queueVars, stoichVars, pipeVars
  <2>2. TypeOK'
    BY <2>1 DEF ControlInv, TypeOK
  <2>3. GlobalInv'
    BY <2>1 DEF ControlInv, GlobalInv
  <2> QED
    BY <2>1, <2>2, <2>3 DEF ControlInv, AtWork
<1>10. CASE UNCHANGED vars
  <2>1. UNCHANGED <<pc, setting, global, unique, held, waiting, buffer, shared, todo, stoich, found,
                    stoichTable, inner, attempt, passing>>
    BY <1>10 DEF vars, programVars, queueVars, stoichVars, pipeVars
  <2>2. TypeOK'
    BY <2>1 DEF ControlInv, TypeOK
  <2>3. GlobalInv'
    BY <2>1 DEF ControlInv, GlobalInv
  <2>4. SweepPath(stoich)' = SweepPath(stoich)
    BY <2>1 DEF SweepPath, WorkingDir
  <2> QED
    BY <2>1, <2>2, <2>3, <2>4 DEF ControlInv, AtWork
<1> QED
  BY <1>1, <1>2, <1>3, <1>4, <1>5, <1>6, <1>7, <1>8, <1>9, <1>10 DEF Next

(* The variables keep their types: while the inner pipe runs, GlobalData holds
   the settings of the stoichiometry it is run for, and the queue has a set in
   hand and a directory for it while the sweep is at work. *)
THEOREM TypeAlways == Spec => []TypeOK
<1>1. ControlInv => TypeOK
  BY DEF ControlInv
<1> QED
  BY <1>1, ControlInit, ControlStep, PTL DEF Spec

(***************************************************************************)
(* NameInv holds throughout.                                               *)
(***************************************************************************)

LEMMA NoNames == Batch(<<>>) /\ NamesOf(<<>>) = {}
BY EmptySeq DEF Batch, IsSeq, Distinct, NamesOf

LEMMA BatchesJoined ==
  ASSUME NEW s, IsSeq(s), NEW t, IsSeq(t)
  PROVE  /\ NamesOf(s \o t) = NamesOf(s) \cup NamesOf(t)
         /\ Batch(s) /\ Batch(t) /\ NamesOf(s) \cap NamesOf(t) = {} => Batch(s \o t)
<1> DEFINE m == Len(s)
           n == Len(t)
           u == s \o t
<1>1. /\ IsSeq(u) /\ m \in Nat /\ n \in Nat
      /\ DOMAIN s = 1..m /\ DOMAIN t = 1..n /\ DOMAIN u = 1..(m + n)
      /\ \A k \in 1..(m + n) : u[k] = IF k <= m THEN s[k] ELSE t[k - m]
  BY Joined
<1> HIDE DEF m, n, u
<1>2. \A k \in 1..m : k \in 1..(m + n) /\ u[k] = s[k]
  BY <1>1
<1>3. \A k \in 1..n : k + m \in 1..(m + n) /\ u[k + m] = t[k]
  <2> TAKE k \in 1..n
  <2>1. k + m \in 1..(m + n) /\ ~(k + m <= m) /\ k + m - m = k
    BY <1>1
  <2> QED
    BY <1>1, <2>1
<1>4. \A k \in 1..(m + n) : \/ k \in 1..m /\ u[k] = s[k]
                            \/ k - m \in 1..n /\ u[k] = t[k - m]
  BY <1>1
<1>5. NamesOf(u) = NamesOf(s) \cup NamesOf(t)
  <2>1. \A x \in NamesOf(u) : x \in NamesOf(s) \cup NamesOf(t)
    BY <1>1, <1>4 DEF NamesOf
  <2>2. \A x \in NamesOf(s) : x \in NamesOf(u)
    BY <1>1, <1>2 DEF NamesOf
  <2>3. \A x \in NamesOf(t) : x \in NamesOf(u)
    BY <1>1, <1>3 DEF NamesOf
  <2> QED
    BY <2>1, <2>2, <2>3
<1>6. ASSUME Batch(s), Batch(t), NamesOf(s) \cap NamesOf(t) = {}
      PROVE  Batch(u)
  <2>1. ASSUME NEW j \in DOMAIN u, NEW k \in DOMAIN u, u[j].name = u[k].name
        PROVE  j = k
    <3>1. \A i \in 1..m : s[i].name \in NamesOf(s)
      BY <1>1 DEF NamesOf
    <3>2. \A i \in 1..n : t[i].name \in NamesOf(t)
      BY <1>1 DEF NamesOf
    <3>3. CASE j \in 1..m /\ k \in 1..m
      BY <1>1, <1>2, <1>6, <2>1, <3>3 DEF Batch, Distinct
    <3>4. CASE j \in 1..m /\ k \notin 1..m
      <4>1. k - m \in 1..n /\ u[k] = t[k - m] /\ u[j] = s[j]
        BY <1>1, <1>2, <1>4, <3>4
      <4> QED
        BY <1>6, <2>1, <3>1, <3>2, <3>4, <4>1
    <3>5. CASE j \notin 1..m /\ k \in 1..m
      <4>1. j - m \in 1..n /\ u[j] = t[j - m] /\ u[k] = s[k]
        BY <1>1, <1>2, <1>4, <3>5
      <4> QED
        BY <1>6, <2>1, <3>1, <3>2, <3>5, <4>1
    <3>6. CASE j \notin 1..m /\ k \notin 1..m
      <4>1. /\ j - m \in 1..n /\ u[j] = t[j - m]
            /\ k - m \in 1..n /\ u[k] = t[k - m]
        BY <1>1, <1>4, <3>6
      <4>2. j - m = k - m
        BY <1>1, <1>6, <2>1, <4>1 DEF Batch, Distinct
      <4> QED
        BY <1>1, <4>2
    <3> QED
      BY <3>3, <3>4, <3>5, <3>6
  <2>2. \A k \in DOMAIN u : DOMAIN u[k] = Fields
    <3>1. \A k \in 1..m : DOMAIN s[k] = Fields
      BY <1>1, <1>6 DEF Batch
    <3>2. \A k \in 1..n : DOMAIN t[k] = Fields
      BY <1>1, <1>6 DEF Batch
    <3> QED
      BY <1>1, <1>4, <3>1, <3>2
  <2> QED
    BY <1>1, <2>1, <2>2 DEF Batch, Distinct
<1> QED
  BY <1>5, <1>6 DEF u

(* One more behind a sequence. *)
LEMMA Appended ==
  ASSUME NEW s, IsSeq(s), NEW x
  PROVE  /\ Append(s, x) = s \o <<x>> /\ IsSeq(<<x>>)
         /\ DOMAIN <<x>> = {1} /\ <<x>>[1] = x
<1>1. s \in Seq(ToSet(s) \cup {x})
  BY SeqMonotonic DEF IsSeq
<1>2. Append(s, x) = s \o <<x>>
  BY <1>1, AppendIsConcat
<1>3. <<x>> \in Seq({x})
  OBVIOUS
<1>4. IsSeq(<<x>>)
  BY <1>3, SeqIsSeq
<1>5. DOMAIN <<x>> = {1} /\ <<x>>[1] = x
  OBVIOUS
<1> QED
  BY <1>2, <1>4, <1>5

LEMMA BatchAppended ==
  ASSUME NEW s, Batch(s), NEW x, DOMAIN x = Fields, x.name \notin NamesOf(s)
  PROVE  Batch(Append(s, x)) /\ NamesOf(Append(s, x)) = NamesOf(s) \cup {x.name}
<1>1. IsSeq(s)
  BY DEF Batch
<1>2. /\ Append(s, x) = s \o <<x>> /\ IsSeq(<<x>>)
      /\ DOMAIN <<x>> = {1} /\ <<x>>[1] = x
  BY <1>1, Appended
<1>3. Batch(<<x>>) /\ NamesOf(<<x>>) = {x.name}
  <2> DEFINE t == <<x>>
  <2> HIDE DEF t
  <2>1. IsSeq(t) /\ DOMAIN t = {1} /\ t[1] = x
    BY <1>2 DEF t
  <2>2. Batch(t) /\ NamesOf(t) = {x.name}
    BY <2>1 DEF Batch, Distinct, NamesOf
  <2> QED
    BY <2>2 DEF t
<1>4. NamesOf(s) \cap NamesOf(<<x>>) = {}
  BY <1>3
<1> QED
  BY <1>1, <1>2, <1>3, <1>4, BatchesJoined

(* A structure that is marked keeps its name. *)
LEMMA TaggedBatch ==
  ASSUME NEW s, Batch(s)
  PROVE  /\ Batch(Tagged(s)) /\ NamesOf(Tagged(s)) = NamesOf(s)
         /\ DOMAIN Tagged(s) = DOMAIN s
         /\ \A k \in DOMAIN s :
              Tagged(s)[k] = [s[k] EXCEPT !.params = IF s[k].params = Unset THEN Head(waiting)
                                                      ELSE s[k].params]
<1> DEFINE t == Tagged(s)
<1>1. /\ DOMAIN t = DOMAIN s
      /\ \A k \in DOMAIN s :
           t[k] = [s[k] EXCEPT !.params = IF s[k].params = Unset THEN Head(waiting)
                                           ELSE s[k].params]
  BY DEF Tagged
<1>2. Len(s) \in Nat /\ DOMAIN s = 1..Len(s)
  BY LenProperties DEF Batch, IsSeq
<1>3. \E f : t = [k \in DOMAIN s |-> f[k]]
  <2> DEFINE g == [k \in DOMAIN s |->
                     [s[k] EXCEPT !.params = IF @ = Unset THEN Head(waiting) ELSE @]]
  <2>1. g = [k \in DOMAIN s |-> g[k]]
    OBVIOUS
  <2> QED
    BY <2>1 DEF Tagged
<1> HIDE DEF t
<1>4. IsSeq(t)
  <2>1. t \in [1..Len(s) -> ToSet(t)]
    BY <1>1, <1>2, <1>3 DEF ToSet
  <2>2. t \in Seq(ToSet(t))
    BY <1>2, <2>1
  <2> QED
    BY <2>2 DEF IsSeq
<1>5. \A k \in DOMAIN s : DOMAIN t[k] = Fields /\ t[k].name = s[k].name
  <2>1. \A k \in DOMAIN s : DOMAIN s[k] = Fields
    BY DEF Batch
  <2>2. "name" \in Fields
    BY DEF Fields, NewStructure
  <2> QED
    BY <1>1, <2>1, <2>2
<1>6. NamesOf(t) = NamesOf(s)
  <2>1. \A x \in NamesOf(t) : x \in NamesOf(s)
    BY <1>1, <1>5 DEF NamesOf
  <2>2. \A x \in NamesOf(s) : x \in NamesOf(t)
    BY <1>1, <1>5 DEF NamesOf
  <2> QED
    BY <2>1, <2>2
<1>7. Batch(t)
  BY <1>1, <1>4, <1>5 DEF Batch, Distinct
<1> QED
  BY <1>1, <1>6, <1>7 DEF t

(* A generated structure is given a name that none has yet. *)
LEMMA NameIsNew ==
  ASSUME NameInv, ControlInv
  PROVE  /\ <<"structure", unique + 1>> \notin
              NamesAt(Steps) \cup NamesOf(found) \cup NamesOf(buffer) \cup NamesOf(sent)
         /\ \A x \in NamesAt(Steps) \cup NamesOf(found) \cup NamesOf(buffer) \cup NamesOf(sent) :
              x \in {<<"structure", k>> : k \in 1..(unique + 1)}
         /\ <<"structure", unique + 1>> \in {<<"structure", k>> : k \in 1..(unique + 1)}
<1>1. unique \in Nat
  BY DEF ControlInv, TypeOK
<1>2. unique + 1 \notin 1..unique /\ unique + 1 \in 1..(unique + 1)
      /\ \A k \in 1..unique : k \in 1..(unique + 1)
  BY <1>1
<1>3. <<"structure", unique + 1>> \notin {<<"structure", k>> : k \in 1..unique}
  BY <1>2
<1>4. NamesAt(Steps) \cup NamesOf(found) \cup NamesOf(buffer) \cup NamesOf(sent)
        \subseteq {<<"structure", k>> : k \in 1..unique}
  BY DEF NameInv
<1>5. \A x \in {<<"structure", k>> : k \in 1..unique} :
        x \in {<<"structure", k>> : k \in 1..(unique + 1)}
  BY <1>2
<1> QED
  BY <1>2, <1>3, <1>4, <1>5

LEMMA NameInit == Init => NameInv
<1> SUFFICES ASSUME Init PROVE NameInv
  OBVIOUS
<1>1. found = <<>> /\ buffer = <<>> /\ sent = <<>> /\ passing = {} /\ DOMAIN disk = {}
  BY DEF Init
<1>2. \A steps : NamesAt(steps) = {}
  BY <1>1 DEF NamesAt
<1> QED
  BY <1>1, <1>2, NoNames DEF NameInv

(* A step that moves nothing. *)
LEMMA NamesStay ==
  ASSUME NameInv, unique \in Nat, unique' \in Nat, unique <= unique',
         UNCHANGED <<disk, buffer, sent, found, passing>>
  PROVE  NameInv'
<1>1. \A steps : NamesAt(steps)' = NamesAt(steps)
  BY DEF NamesAt
<1>2. \A k \in 1..unique : k \in 1..unique'
  OBVIOUS
<1>3. (NamesAt(Steps) \cup NamesOf(found) \cup NamesOf(buffer) \cup NamesOf(sent))'
        \subseteq {<<"structure", k>> : k \in 1..unique'}
  <2>1. \A x \in {<<"structure", k>> : k \in 1..unique} :
          x \in {<<"structure", k>> : k \in 1..unique'}
    BY <1>2
  <2> QED
    BY <1>1, <2>1 DEF NameInv
<1>4. NamesAt({"finish"})' = NamesAt({"finish"}) /\ NamesAt(Steps)' = NamesAt(Steps)
  BY <1>1 DEF Steps
<1> QED
  BY <1>3, <1>4 DEF NameInv

(* One structure in the pipe goes on from its step, or is dropped. *)
LEMMA NamesGoOn ==
  ASSUME NameInv, NEW p \in passing, NEW R,
         \A q \in R : /\ DOMAIN q = {"next", "structure"} /\ q.next \in Steps
                      /\ DOMAIN q.structure = Fields /\ q.structure.name = p.structure.name,
         \A q, r \in R : q = r,
         passing' = (passing \ {p}) \cup R
  PROVE  /\ \A q \in passing' : /\ DOMAIN q = {"next", "structure"} /\ q.next \in Steps
                                /\ DOMAIN q.structure = Fields
         /\ \A q, r \in passing' : q.structure.name = r.structure.name => q = r
         /\ NamesAt(Steps)' \subseteq NamesAt(Steps)
         /\ p.next # "finish" => NamesAt({"finish"}) \subseteq NamesAt({"finish"})'
<1>1. \A q \in passing : /\ DOMAIN q = {"next", "structure"} /\ q.next \in Steps
                         /\ DOMAIN q.structure = Fields
  BY DEF NameInv
<1>2. \A q, r \in passing : q.structure.name = r.structure.name => q = r
  BY DEF NameInv
<1>3. NamesAt(Steps)' \subseteq NamesAt(Steps)
  <2>1. \A x \in NamesAt(Steps)' : \E q \in passing' : x = q.structure.name
    BY DEF NamesAt
  <2>2. \A q \in passing : q.structure.name \in NamesAt(Steps)
    BY <1>1 DEF NamesAt
  <2> QED
    BY <2>1, <2>2
<1>4. ASSUME p.next # "finish"
      PROVE  NamesAt({"finish"}) \subseteq NamesAt({"finish"})'
  <2>1. \A x \in NamesAt({"finish"}) : \E q \in passing : q.next = "finish" /\ x = q.structure.name
    BY DEF NamesAt
  <2>2. \A q \in passing : q.next = "finish" => q \in passing'
    BY <1>4
  <2>3. \A q \in passing' : q.next = "finish" => q.structure.name \in NamesAt({"finish"})'
    BY DEF NamesAt
  <2> QED
    BY <2>1, <2>2, <2>3
<1> QED
  BY <1>1, <1>2, <1>3, <1>4

LEMMA NameGenerate == NameInv /\ ControlInv /\ Generate => NameInv'
<1> SUFFICES ASSUME NameInv, ControlInv, Generate PROVE NameInv'
  OBVIOUS
<1>1. /\ unique \in Nat
      /\ UNCHANGED <<disk, buffer, sent, found>>
  BY DEF Generate, ControlInv, TypeOK, queueVars, stoichVars
<1>2. CASE UNCHANGED <<unique, passing>>
  BY <1>1, <1>2, NamesStay
<1>3. CASE ~UNCHANGED <<unique, passing>>
  <2> DEFINE name == <<"structure", unique + 1>>
             s == Generated(global, inner, Unset, name)
             r == [next |-> "optimise", structure |-> s]
  <2>1. unique' = unique + 1 /\ passing' = passing \cup {r}
    BY <1>3 DEF Generate
  <2>2. DOMAIN s = Fields /\ s.name = name
    BY DEF Generated, NewStructure, Fields
  <2> HIDE DEF s
  <2>3. DOMAIN r = {"next", "structure"} /\ r.next = "optimise" /\ r.structure = s
    OBVIOUS
  <2> HIDE DEF r
  <2>4. name \notin NamesAt(Steps) \cup NamesOf(found) \cup NamesOf(buffer) \cup NamesOf(sent)
    BY NameIsNew
  <2>5. NamesAt(Steps)' = NamesAt(Steps) \cup {name}
    <3>1. \A q \in passing' : q.next \in Steps
      BY <2>1, <2>3 DEF NameInv, Steps
    <3>2. NamesAt(Steps)' = {q.structure.name : q \in passing'}
      BY <3>1 DEF NamesAt
    <3>3. NamesAt(Steps) = {q.structure.name : q \in passing}
      BY DEF NameInv, NamesAt
    <3> HIDE DEF name
    <3> QED
      BY <2>1, <2>2, <2>3, <3>2, <3>3
  <2>6. NamesAt({"finish"})' = NamesAt({"finish"})
    BY <2>1, <2>3 DEF NamesAt
  <2>7. /\ NamesOf(found)' = NamesOf(found) /\ NamesOf(buffer)' = NamesOf(buffer)
        /\ NamesOf(sent)' = NamesOf(sent)
    BY <1>1
  <2>8. (NamesAt(Steps) \cup NamesOf(found) \cup NamesOf(buffer) \cup NamesOf(sent))'
          \subseteq {<<"structure", k>> : k \in 1..unique'}
    BY <2>1, <2>5, <2>7, NameIsNew
  <2>9. \A q \in passing : q.structure.name \in NamesAt(Steps)
    BY DEF NameInv, NamesAt
  <2> HIDE DEF name
  <2>10. \A q, t \in passing' : q.structure.name = t.structure.name => q = t
    BY <2>1, <2>2, <2>3, <2>4, <2>9 DEF NameInv
  <2>11. \A q \in passing' : /\ DOMAIN q = {"next", "structure"} /\ q.next \in Steps
                             /\ DOMAIN q.structure = Fields
    BY <2>1, <2>2, <2>3 DEF NameInv, Steps
  <2>12. NamesAt(Steps)' \cap (NamesOf(found) \cup NamesOf(buffer) \cup NamesOf(sent)) = {}
    BY <2>4, <2>5 DEF NameInv
  <2> QED
    BY <1>1, <2>5, <2>6, <2>7, <2>8, <2>10, <2>11, <2>12 DEF NameInv
<1> QED
  BY <1>2, <1>3

(* What an optimiser that moves no atom makes of a structure. *)
LEMMA OptimisedIs ==
  ASSUME NEW s, DOMAIN s = Fields, NEW h, NEW failAction,
         NEW o \in Optimised(s, h, failAction, {s.atoms})
  PROVE  /\ DOMAIN o.structure = Fields
         /\ \A f \in Fields \ {"params", "energy", "enthalpy"} : o.structure[f] = s[f]
         /\ o.structure.params = IF h = Unset THEN s.params ELSE h
<1> DEFINE marked == IF h = Unset THEN s ELSE [s EXCEPT !.params = h]
<1>1. /\ DOMAIN marked = Fields
      /\ marked.params = IF h = Unset THEN s.params ELSE h
      /\ \A f \in Fields \ {"params"} : marked[f] = s[f]
  BY DEF Fields, NewStructure
<1> HIDE DEF marked
<1>2. \/ o.structure = [marked EXCEPT !.atoms = s.atoms, !.energy = TRUE, !.enthalpy = TRUE]
      \/ o.structure = [marked EXCEPT !.atoms = s.atoms]
  BY DEF Optimised, marked
<1> QED
  BY <1>1, <1>2 DEF Fields, NewStructure

LEMMA NameOptimise ==
  ASSUME NameInv, NEW p \in passing, Optimise(p)
  PROVE  NameInv'
<1>1. /\ p.next = "optimise"
      /\ UNCHANGED <<unique, disk, buffer, sent, found>>
  BY DEF Optimise, programVars, queueVars, stoichVars
<1> DEFINE h == IF setting.fits THEN held ELSE Unset
<1>2. PICK o \in Optimised(p.structure, h, setting.failAction, {p.structure.atoms}) :
        passing' = (passing \ {p}) \cup
          IF o.out THEN {[next |-> "save", structure |-> SymmetryFound(o.structure)]} ELSE {}
  BY DEF Optimise
<1> HIDE DEF h
<1> DEFINE s == SymmetryFound(o.structure)
           R == IF o.out THEN {[next |-> "save", structure |-> s]} ELSE {}
<1>3. DOMAIN s = Fields /\ s.name = p.structure.name
  <2>1. DOMAIN p.structure = Fields /\ "name" \in Fields
    BY DEF NameInv, Fields, NewStructure
  <2>2. DOMAIN o.structure = Fields /\ o.structure.name = p.structure.name
    BY <1>2, <2>1, OptimisedIs DEF Fields, NewStructure
  <2> QED
    BY <2>1, <2>2 DEF SymmetryFound
<1> HIDE DEF s
<1>4. \A q \in R : /\ DOMAIN q = {"next", "structure"} /\ q.next \in Steps
                   /\ DOMAIN q.structure = Fields /\ q.structure.name = p.structure.name
  BY <1>3 DEF Steps
<1>5. (\A q, r \in R : q = r) /\ passing' = (passing \ {p}) \cup R
  BY <1>2 DEF s
<1> HIDE DEF R
<1>6. /\ \A q \in passing' : /\ DOMAIN q = {"next", "structure"} /\ q.next \in Steps
                             /\ DOMAIN q.structure = Fields
      /\ \A q, r \in passing' : q.structure.name = r.structure.name => q = r
      /\ NamesAt(Steps)' \subseteq NamesAt(Steps)
      /\ NamesAt({"finish"}) \subseteq NamesAt({"finish"})'
  BY <1>1, <1>4, <1>5, NamesGoOn
<1> QED
  BY <1>1, <1>6 DEF NameInv

LEMMA NameSave ==
  ASSUME NameInv, NEW p \in passing, Save(p)
  PROVE  NameInv'
<1> DEFINE location == SaveLocation(p.structure, setting.multi, inner, global)
           saved == [p.structure EXCEPT !.saved = location]
           done == [next |-> "finish", structure |-> saved]
           failed == [p EXCEPT !.next = "finish"]
<1>1. /\ p.next = "save"
      /\ UNCHANGED <<unique, buffer, sent, found>>
      /\ \/ disk' = OnDisk(disk, saved, location) /\ passing' = (passing \ {p}) \cup {done}
         \/ disk' = disk /\ passing' = (passing \ {p}) \cup {failed}
  BY DEF Save, queueVars, stoichVars
<1>2. /\ DOMAIN p = {"next", "structure"}
      /\ DOMAIN p.structure = Fields /\ "name" \in Fields
  BY DEF NameInv, Fields, NewStructure
<1>3. DOMAIN saved = Fields /\ saved.name = p.structure.name /\ location.id = p.structure.name
  BY <1>2 DEF SaveLocation
<1> HIDE DEF location, saved
<1>4. \A q \in {done, failed} :
        /\ DOMAIN q = {"next", "structure"} /\ q.next = "finish"
        /\ DOMAIN q.structure = Fields /\ q.structure.name = p.structure.name
  BY <1>2, <1>3
<1> HIDE DEF done, failed
<1>5. PICK q \in {done, failed} : passing' = (passing \ {p}) \cup {q}
  BY <1>1
<1>6. "finish" \in Steps
  BY DEF Steps
<1>7. /\ \A t \in passing' : /\ DOMAIN t = {"next", "structure"} /\ t.next \in Steps
                             /\ DOMAIN t.structure = Fields
      /\ \A t, r \in passing' : t.structure.name = r.structure.name => t = r
      /\ NamesAt(Steps)' \subseteq NamesAt(Steps)
      /\ NamesAt({"finish"}) \subseteq NamesAt({"finish"})'
  <2> DEFINE R == {q}
  <2>1. \A r \in R : /\ DOMAIN r = {"next", "structure"} /\ r.next \in Steps
                     /\ DOMAIN r.structure = Fields /\ r.structure.name = p.structure.name
    BY <1>4, <1>6
  <2>2. (\A r, t \in R : r = t) /\ passing' = (passing \ {p}) \cup R
    BY <1>5
  <2> HIDE DEF R
  <2> QED
    BY <1>1, <2>1, <2>2, NamesGoOn
<1>8. p.structure.name \in NamesAt({"finish"})'
  <2>1. q \in passing' /\ q.next \in {"finish"} /\ q.structure.name = p.structure.name
    BY <1>4, <1>5
  <2> QED
    BY <2>1 DEF NamesAt
<1>9. \A l \in DOMAIN disk' :
        l.id \in (NamesAt({"finish"}) \cup NamesOf(found) \cup NamesOf(buffer) \cup NamesOf(sent))'
  <2>1. DOMAIN disk' \subseteq DOMAIN disk \cup {location}
    BY <1>1 DEF OnDisk
  <2>2. \A l \in DOMAIN disk :
          l.id \in NamesAt({"finish"}) \cup NamesOf(found) \cup NamesOf(buffer) \cup NamesOf(sent)
    BY DEF NameInv
  <2> QED
    BY <1>1, <1>3, <1>7, <1>8, <2>1, <2>2
<1> QED
  BY <1>1, <1>7, <1>9 DEF NameInv

LEMMA NameFinish ==
  ASSUME NameInv, NEW p \in passing, Finish(p)
  PROVE  NameInv'
<1>1. /\ p.next = "finish" /\ passing' = passing \ {p} /\ found' = Append(found, p.structure)
      /\ UNCHANGED <<unique, disk, buffer, sent>>
  BY DEF Finish, programVars, queueVars
<1> DEFINE name == p.structure.name
<1>2. \A q \in passing : q.structure.name \in NamesAt(Steps)
  BY DEF NameInv, NamesAt
<1>3. name \notin NamesOf(found) /\ name \notin NamesOf(buffer) /\ name \notin NamesOf(sent)
  BY <1>2 DEF NameInv
<1>4. Batch(found') /\ NamesOf(found') = NamesOf(found) \cup {name}
  BY <1>1, <1>3, BatchAppended DEF NameInv
<1>5. NamesAt(Steps)' \subseteq NamesAt(Steps) \ {name}
  <2>1. \A x \in NamesAt(Steps)' : \E q \in passing' : x = q.structure.name
    BY DEF NamesAt
  <2>2. \A q \in passing' : q \in passing /\ q.structure.name # name
    BY <1>1 DEF NameInv
  <2> QED
    BY <1>2, <2>1, <2>2
<1>6. NamesAt({"finish"}) \subseteq NamesAt({"finish"})' \cup {name}
  <2>1. \A x \in NamesAt({"finish"}) : \E q \in passing : q.next = "finish" /\ x = q.structure.name
    BY DEF NamesAt
  <2>2. \A q \in passing' : q.next = "finish" => q.structure.name \in NamesAt({"finish"})'
    BY DEF NamesAt
  <2> QED
    BY <1>1, <2>1, <2>2
<1>7. \A q \in passing' : q \in passing
  BY <1>1
<1>8. \A l \in DOMAIN disk' :
        l.id \in (NamesAt({"finish"}) \cup NamesOf(found) \cup NamesOf(buffer) \cup NamesOf(sent))'
  BY <1>1, <1>4, <1>6 DEF NameInv
<1>9. name \in {<<"structure", k>> : k \in 1..unique}
  BY <1>2 DEF NameInv
<1>10. (NamesAt(Steps) \cup NamesOf(found) \cup NamesOf(buffer) \cup NamesOf(sent))'
         \subseteq {<<"structure", k>> : k \in 1..unique'}
  BY <1>1, <1>4, <1>5, <1>9 DEF NameInv
<1>11. (NamesAt(Steps) \cap (NamesOf(found) \cup NamesOf(buffer) \cup NamesOf(sent)))' = {}
  BY <1>1, <1>4, <1>5 DEF NameInv
<1>12. /\ NamesOf(found') \cap NamesOf(buffer') = {}
       /\ (NamesOf(found') \cup NamesOf(buffer')) \cap NamesOf(sent') = {}
  BY <1>1, <1>3, <1>4 DEF NameInv
<1>13. Batch(buffer') /\ Batch(sent')
  BY <1>1 DEF NameInv
<1>14. /\ \A q \in passing' : /\ DOMAIN q = {"next", "structure"} /\ q.next \in Steps
                              /\ DOMAIN q.structure = Fields
       /\ \A q, r \in passing' : q.structure.name = r.structure.name => q = r
  BY <1>7 DEF NameInv
<1> QED
  BY <1>4, <1>8, <1>10, <1>11, <1>12, <1>13, <1>14 DEF NameInv

(* What a run found goes into the buffer or out, and is then no longer with
   the block that runs the sweep. *)
LEMMA NameEndRun ==
  ASSUME NameInv, EndRun
  PROVE  NameInv'
<1>1. /\ found' = <<>> /\ NamesOf(found') = {} /\ Batch(found')
      /\ UNCHANGED <<unique, disk, passing>>
  BY NoNames DEF EndRun, Released, programVars
<1>2. \A steps : NamesAt(steps)' = NamesAt(steps)
  BY <1>1 DEF NamesAt
<1>3. NamesAt(Steps)' = NamesAt(Steps) /\ NamesAt({"finish"})' = NamesAt({"finish"})
  BY <1>2 DEF Steps
<1>4. /\ Batch(found) /\ Batch(buffer) /\ Batch(sent)
      /\ NamesOf(buffer) \cap NamesOf(found) = {} /\ NamesOf(sent) \cap NamesOf(found) = {}
  BY DEF NameInv
<1>5. CASE setting.queued
  <2>1. buffer' = buffer \o Tagged(found) /\ sent' = sent
    BY <1>5 DEF EndRun, Released
  <2>2. Batch(Tagged(found)) /\ NamesOf(Tagged(found)) = NamesOf(found)
    BY <1>4, TaggedBatch
  <2>3. IsSeq(buffer) /\ IsSeq(Tagged(found))
    BY <1>4, <2>2 DEF Batch
  <2>4. Batch(buffer') /\ NamesOf(buffer') = NamesOf(buffer) \cup NamesOf(found)
    BY <1>4, <2>1, <2>2, <2>3, BatchesJoined
  <2> QED
    BY <1>1, <1>3, <2>1, <2>4 DEF NameInv
<1>6. CASE ~setting.queued
  <2>1. sent' = sent \o found /\ buffer' = buffer
    BY <1>6 DEF EndRun, Released
  <2>2. IsSeq(sent) /\ IsSeq(found)
    BY <1>4 DEF Batch
  <2>3. Batch(sent') /\ NamesOf(sent') = NamesOf(sent) \cup NamesOf(found)
    BY <1>4, <2>1, <2>2, BatchesJoined
  <2> QED
    BY <1>1, <1>3, <2>1, <2>3 DEF NameInv
<1> QED
  BY <1>5, <1>6

LEMMA NameEndParams ==
  ASSUME NameInv, EndParams
  PROVE  NameInv'
<1>1. /\ buffer' = <<>> /\ NamesOf(buffer') = {} /\ Batch(buffer')
      /\ sent' = sent \o buffer
      /\ UNCHANGED <<unique, disk, found, passing>>
  BY NoNames DEF EndParams, programVars, pipeVars
<1>2. \A steps : NamesAt(steps)' = NamesAt(steps)
  BY <1>1 DEF NamesAt
<1>3. NamesAt(Steps)' = NamesAt(Steps) /\ NamesAt({"finish"})' = NamesAt({"finish"})
  BY <1>2 DEF Steps
<1>4. /\ Batch(found) /\ Batch(buffer) /\ Batch(sent)
      /\ IsSeq(buffer) /\ IsSeq(sent)
      /\ NamesOf(sent) \cap NamesOf(buffer) = {}
  BY DEF NameInv, Batch
<1>5. Batch(sent') /\ NamesOf(sent') = NamesOf(sent) \cup NamesOf(buffer)
  BY <1>1, <1>4, BatchesJoined
<1> QED
  BY <1>1, <1>3, <1>5 DEF NameInv

LEMMA NameStep == ControlInv /\ NameInv /\ [Next]_vars => NameInv'
<1> SUFFICES ASSUME ControlInv, NameInv, [Next]_vars PROVE NameInv'
  OBVIOUS
<1>1. CASE Generate
  BY <1>1, NameGenerate
<1>2. CASE \E p \in passing : Optimise(p) \/ Save(p) \/ Finish(p)
  BY <1>2, NameOptimise, NameSave, NameFinish
<1>3. CASE EndRun
  BY <1>3, NameEndRun
<1>4. CASE EndParams
  BY <1>4, NameEndParams
<1>5. CASE \/ NextParams \/ SkipStoich \/ RunStoich \/ EndStoich \/ EndQueue \/ UNCHANGED vars
  <2>1. unique \in Nat
    BY DEF ControlInv, TypeOK
  <2>2. /\ UNCHANGED <<disk, buffer, sent, found, passing>>
        /\ unique' \in {unique, unique + 1}
    BY <1>5 DEF NextParams, SkipStoich, RunStoich, EndStoich, EndQueue, vars, programVars,
                queueVars, stoichVars, pipeVars
  <2>3. unique' \in Nat /\ unique <= unique'
    BY <2>1, <2>2
  <2> QED
    BY <2>1, <2>2, <2>3, NamesStay
<1> QED
  BY <1>1, <1>2, <1>3, <1>4, <1>5 DEF Next

(* Nothing that was saved is lost on its way out, and nothing is sent twice,
   for any number of parameter sets, stoichiometries and structures in a run,
   though both blocks buffer what finished, and one of them marks it. *)
THEOREM SentOnceAlways == Spec => []SavedIsSentOnce
<1>1. ControlInv /\ NameInv => SavedIsSentOnce
  <2> SUFFICES ASSUME ControlInv, NameInv PROVE SavedIsSentOnce
    OBVIOUS
  <2>1. /\ Batch(found) /\ Batch(buffer) /\ Batch(sent)
        /\ IsSeq(found) /\ IsSeq(buffer) /\ IsSeq(sent)
        /\ NamesOf(found) \cap NamesOf(buffer) = {}
        /\ (NamesOf(found) \cup NamesOf(buffer)) \cap NamesOf(sent) = {}
    BY DEF NameInv, Batch
  <2>2. /\ Batch(found \o buffer) /\ IsSeq(found \o buffer)
        /\ NamesOf(found \o buffer) = NamesOf(found) \cup NamesOf(buffer)
    BY <2>1, BatchesJoined DEF Batch
  <2>3. /\ Batch(Finished)
        /\ NamesOf(Finished) = NamesOf(found) \cup NamesOf(buffer) \cup NamesOf(sent)
    BY <2>1, <2>2, BatchesJoined DEF Finished
  <2>4. ASSUME NEW l \in DOMAIN disk
        PROVE  \/ \E k \in DOMAIN Finished : Finished[k].name = l.id
               \/ \E p \in passing : p.structure.name = l.id
    <3>1. l.id \in NamesAt({"finish"}) \cup NamesOf(Finished)
      BY <2>3 DEF NameInv
    <3>2. CASE l.id \in NamesOf(Finished)
      BY <3>2 DEF NamesOf
    <3>3. CASE l.id \in NamesAt({"finish"})
      BY <3>3 DEF NamesAt
    <3> QED
      BY <3>1, <3>2, <3>3
  <2>5. pc = "end" => found = <<>> /\ buffer = <<>>
    BY DEF ControlInv
  <2> QED
    BY <2>3, <2>4, <2>5 DEF SavedIsSentOnce, Batch, Distinct
<1> QED
  BY <1>1, ControlInit, ControlStep, NameInit, NameStep, PTL DEF Spec

(***************************************************************************)
(* ParamInv holds throughout.                                              *)
(***************************************************************************)

(* What is in a sequence that was put together was in one of its parts. *)
LEMMA FromEither ==
  ASSUME NEW s, IsSeq(s), NEW t, IsSeq(t)
  PROVE  \A k \in DOMAIN (s \o t) : \/ \E j \in DOMAIN s : (s \o t)[k] = s[j]
                                    \/ \E j \in DOMAIN t : (s \o t)[k] = t[j]
<1> DEFINE m == Len(s)
           n == Len(t)
           u == s \o t
<1> SUFFICES ASSUME NEW k \in DOMAIN u
             PROVE  \/ \E j \in DOMAIN s : u[k] = s[j]
                    \/ \E j \in DOMAIN t : u[k] = t[j]
  OBVIOUS
<1>1. /\ m \in Nat /\ n \in Nat
      /\ DOMAIN s = 1..m /\ DOMAIN t = 1..n /\ DOMAIN u = 1..(m + n)
      /\ \A j \in 1..(m + n) : u[j] = IF j <= m THEN s[j] ELSE t[j - m]
  BY Joined
<1>2. k \in DOMAIN u
  OBVIOUS
<1> HIDE DEF m, n, u
<1>3. CASE k <= m
  <2>1. k \in 1..m /\ u[k] = s[k]
    BY <1>1, <1>2, <1>3
  <2> QED
    BY <1>1, <2>1
<1>4. CASE ~(k <= m)
  <2>1. k - m \in 1..n /\ u[k] = t[k - m]
    BY <1>1, <1>2, <1>4
  <2> QED
    BY <1>1, <2>1
<1> QED
  BY <1>3, <1>4

LEMMA FromAppended ==
  ASSUME NEW s, IsSeq(s), NEW x, NEW k \in DOMAIN Append(s, x)
  PROVE  Append(s, x)[k] = x \/ \E j \in DOMAIN s : Append(s, x)[k] = s[j]
<1>1. /\ Append(s, x) = s \o <<x>> /\ IsSeq(<<x>>)
      /\ DOMAIN <<x>> = {1} /\ <<x>>[1] = x
  BY Appended
<1> DEFINE t == <<x>>
           u == Append(s, x)
<1>2. u = s \o t /\ IsSeq(t) /\ DOMAIN t = {1} /\ t[1] = x /\ k \in DOMAIN u
  BY <1>1
<1> HIDE DEF t, u
<1>3. \A i \in DOMAIN u : \/ \E j \in DOMAIN s : u[i] = s[j]
                          \/ \E j \in DOMAIN t : u[i] = t[j]
  BY <1>2, FromEither
<1> QED
  BY <1>2, <1>3 DEF u

LEMMA FieldsOf ==
  ASSUME NameInv
  PROVE  /\ {"name", "atoms", "cell", "radii", "params", "energy", "sg", "saved"} \subseteq Fields
         /\ \A p \in passing : /\ DOMAIN p = {"next", "structure"} /\ p.next \in Steps
                               /\ DOMAIN p.structure = Fields
         /\ \A k \in DOMAIN found : DOMAIN found[k] = Fields
         /\ \A k \in DOMAIN buffer : DOMAIN buffer[k] = Fields
         /\ \A k \in DOMAIN sent : DOMAIN sent[k] = Fields
         /\ IsSeq(found) /\ IsSeq(buffer) /\ IsSeq(sent)
BY DEF NameInv, Batch, Fields, NewStructure

(* A step that moves nothing and hands no parameters over. *)
LEMMA ParamStay ==
  ASSUME ParamInv, UNCHANGED <<setting, global, held, passing, found, buffer, sent, waiting>>,
         pc' = pc \/ (pc' # "pipe")
  PROVE  ParamInv'
BY DEF ParamInv, Marked, Parameterised

LEMMA ParamInit == Init => ParamInv
BY DEF Init, ParamInv

LEMMA ParamNext ==
  ASSUME ControlInv, ParamInv, NextParams
  PROVE  ParamInv'
<1>1. /\ pc = "queue" /\ pc' = "stoich"
      /\ UNCHANGED <<setting, held, passing, found, buffer, sent>>
  BY DEF NextParams, queueVars, pipeVars
<1>2. passing = {} /\ found = <<>> /\ buffer = <<>>
  BY <1>1 DEF ControlInv, TypeOK
<1>3. DOMAIN found' = {} /\ DOMAIN buffer' = {}
  BY <1>1, <1>2
<1>4. setting.fits => \A k \in DOMAIN sent : sent[k].params = sent[k].radii
  BY DEF ParamInv
<1> QED
  BY <1>1, <1>2, <1>3, <1>4 DEF ParamInv

LEMMA ParamRun ==
  ASSUME ControlInv, ParamInv, RunStoich
  PROVE  ParamInv'
<1>1. /\ pc = "stoich" /\ pc' = "pipe"
      /\ global' = [global EXCEPT !.generation = Upcoming]
      /\ held' = IF setting.fits THEN Parameterised(global, setting.tag, held) ELSE held
      /\ UNCHANGED <<setting, passing, found, buffer, sent, waiting>>
  BY DEF RunStoich, SettingsFor, queueVars
<1>2. global'.params = global.params
  BY <1>1 DEF ControlInv, GlobalInv
<1>3. setting.fits => Parameterised(global', setting.tag, held') = held'
  <2>1. \A h : Parameterised(global', setting.tag, h) = Parameterised(global, setting.tag, h)
    BY <1>2 DEF Parameterised
  <2>2. \A h : Parameterised(global, setting.tag, Parameterised(global, setting.tag, h))
                 = Parameterised(global, setting.tag, h)
    BY DEF Parameterised
  <2> QED
    BY <1>1, <2>1, <2>2
<1>4. passing' = {} /\ DOMAIN found' = {}
  BY <1>1 DEF ControlInv, TypeOK
<1>5. buffer # <<>> => held' = held
  BY <1>1 DEF ParamInv
<1>6. buffer = <<>> => DOMAIN buffer = {}
  OBVIOUS
<1>7. \A k \in DOMAIN buffer' :
        IF setting'.fits THEN buffer'[k].radii = held' /\ buffer'[k].params = held'
        ELSE buffer'[k].params = Head(waiting')
  BY <1>1, <1>5, <1>6 DEF ParamInv
<1>8. setting'.fits => \A k \in DOMAIN sent' : sent'[k].params = sent'[k].radii
  BY <1>1 DEF ParamInv
<1> QED
  BY <1>1, <1>3, <1>4, <1>7, <1>8 DEF ParamInv

LEMMA ParamGenerate ==
  ASSUME ControlInv, ParamInv, Generate
  PROVE  ParamInv'
<1>1. /\ pc = "pipe" /\ inner.species = held
      /\ UNCHANGED <<pc, setting, global, held, found, buffer, sent, waiting>>
  BY DEF Generate, ControlInv, queueVars, stoichVars
<1>2. CASE passing' = passing
  BY <1>1, <1>2, ParamStay
<1>3. CASE passing' # passing
  <2> DEFINE s == Generated(global, inner, Unset, <<"structure", unique'>>)
             r == [next |-> "optimise", structure |-> s]
  <2>1. passing' = passing \cup {r}
    BY <1>3 DEF Generate
  <2>2. s.radii = held /\ s.params = Unset
    BY <1>1 DEF Generated, NewStructure
  <2> HIDE DEF s
  <2>3. \A p \in passing' :
          IF p.next = "optimise" THEN p.structure.radii = held /\ p.structure.params = Unset
          ELSE Marked(p.structure)
    BY <2>1, <2>2 DEF ParamInv
  <2> QED
    BY <1>1, <2>3 DEF ParamInv, Marked, Parameterised
<1> QED
  BY <1>2, <1>3

LEMMA ParamOptimise ==
  ASSUME ControlInv, NameInv, ParamInv, NEW p \in passing, Optimise(p)
  PROVE  ParamInv'
<1>1. /\ p.next = "optimise"
      /\ UNCHANGED <<pc, setting, global, held, found, buffer, sent, waiting>>
  BY DEF Optimise, programVars, queueVars, stoichVars
<1> DEFINE h == IF setting.fits THEN held ELSE Unset
<1>2. PICK o \in Optimised(p.structure, h, setting.failAction, {p.structure.atoms}) :
        passing' = (passing \ {p}) \cup
          IF o.out THEN {[next |-> "save", structure |-> SymmetryFound(o.structure)]} ELSE {}
  BY DEF Optimise
<1> DEFINE s == SymmetryFound(o.structure)
<1>3. p.structure.radii = held /\ p.structure.params = Unset
  BY <1>1 DEF ParamInv
<1>4. Marked(s)
  <2>1. DOMAIN p.structure = Fields /\ {"params", "energy", "radii", "sg"} \subseteq Fields
    BY FieldsOf
  <2>2. o.structure.radii = held /\ o.structure.params = h
    <3> HIDE DEF h
    <3>1. /\ o.structure.radii = p.structure.radii
          /\ o.structure.params = IF h = Unset THEN p.structure.params ELSE h
      BY <1>2, <2>1, OptimisedIs DEF Fields, NewStructure
    <3> QED
      BY <1>3, <3>1
  <2>3. s.radii = held /\ s.params = h
    BY <2>2 DEF SymmetryFound
  <2> QED
    BY <2>3 DEF Marked
<1> HIDE DEF s, h
<1>5. \A q \in passing' : q \in passing \/ (q.next = "save" /\ q.structure = s)
  BY <1>2 DEF s
<1>6. \A q \in passing' :
        IF q.next = "optimise" THEN q.structure.radii = held /\ q.structure.params = Unset
        ELSE Marked(q.structure)
  BY <1>4, <1>5 DEF ParamInv
<1> QED
  BY <1>1, <1>6 DEF ParamInv, Marked, Parameterised

LEMMA ParamSave ==
  ASSUME NameInv, ParamInv, NEW p \in passing, Save(p)
  PROVE  ParamInv'
<1> DEFINE location == SaveLocation(p.structure, setting.multi, inner, global)
           saved == [p.structure EXCEPT !.saved = location]
           done == [next |-> "finish", structure |-> saved]
           failed == [p EXCEPT !.next = "finish"]
<1>1. /\ p.next = "save"
      /\ UNCHANGED <<pc, setting, global, held, found, buffer, sent, waiting>>
      /\ passing' = (passing \ {p}) \cup {done} \/ passing' = (passing \ {p}) \cup {failed}
  BY DEF Save, queueVars, stoichVars
<1>2. /\ DOMAIN p = {"next", "structure"}
      /\ DOMAIN p.structure = Fields /\ {"params", "radii"} \subseteq Fields
  BY FieldsOf
<1>3. Marked(p.structure)
  BY <1>1 DEF ParamInv
<1>4. saved.radii = p.structure.radii /\ saved.params = p.structure.params
  BY <1>2
<1> HIDE DEF location, saved
<1>5. \A q \in {done, failed} : q.next = "finish" /\ Marked(q.structure)
  BY <1>2, <1>3, <1>4 DEF Marked
<1> HIDE DEF done, failed
<1>6. \A q \in passing' :
        IF q.next = "optimise" THEN q.structure.radii = held /\ q.structure.params = Unset
        ELSE Marked(q.structure)
  BY <1>1, <1>5 DEF ParamInv
<1> QED
  BY <1>1, <1>6 DEF ParamInv, Marked, Parameterised

LEMMA ParamFinish ==
  ASSUME NameInv, ParamInv, NEW p \in passing, Finish(p)
  PROVE  ParamInv'
<1>1. /\ p.next = "finish" /\ passing' = passing \ {p} /\ found' = Append(found, p.structure)
      /\ UNCHANGED <<pc, setting, global, held, buffer, sent, waiting>>
  BY DEF Finish, programVars, queueVars
<1>2. Marked(p.structure)
  BY <1>1 DEF ParamInv
<1>3. \A k \in DOMAIN found' : Marked(found'[k])
  <2> TAKE k \in DOMAIN found'
  <2>1. found'[k] = p.structure \/ \E j \in DOMAIN found : found'[k] = found[j]
    BY <1>1, FieldsOf, FromAppended
  <2> QED
    BY <1>2, <2>1 DEF ParamInv
<1>4. \A q \in passing' : q \in passing
  BY <1>1
<1>5. \A q \in passing' :
        IF q.next = "optimise" THEN q.structure.radii = held /\ q.structure.params = Unset
        ELSE Marked(q.structure)
  BY <1>4 DEF ParamInv
<1> QED
  BY <1>1, <1>3, <1>5 DEF ParamInv, Marked, Parameterised

LEMMA ParamEndRun ==
  ASSUME ControlInv, NameInv, ParamInv, EndRun
  PROVE  ParamInv'
<1>1. /\ pc = "pipe" /\ pc' = "stoich" /\ passing = {} /\ found' = <<>>
      /\ UNCHANGED <<setting, global, held, waiting, passing>>
  BY DEF EndRun, Released, programVars
<1>2. \A k \in DOMAIN found : Marked(found[k])
  BY DEF ParamInv
<1>3. setting.fits => Parameterised(global, setting.tag, held) = held
  BY <1>1 DEF ParamInv
<1>4. DOMAIN found' = {}
  BY <1>1
<1>5. CASE setting.queued
  <2>1. buffer' = buffer \o Tagged(found) /\ sent' = sent
    BY <1>5 DEF EndRun, Released
  <2>2. /\ Batch(Tagged(found)) /\ DOMAIN Tagged(found) = DOMAIN found
        /\ \A k \in DOMAIN found :
             Tagged(found)[k] =
               [found[k] EXCEPT !.params = IF found[k].params = Unset THEN Head(waiting)
                                           ELSE found[k].params]
    BY TaggedBatch DEF NameInv
  <2>3. \A k \in DOMAIN found :
          IF setting.fits
          THEN Tagged(found)[k].radii = held /\ Tagged(found)[k].params = held
          ELSE Tagged(found)[k].params = Head(waiting)
    <3>1. \A k \in DOMAIN found : DOMAIN found[k] = Fields
      BY FieldsOf
    <3>2. {"radii", "params"} \subseteq Fields /\ held # Unset
      BY FieldsOf DEF ControlInv
    <3> QED
      BY <1>2, <2>2, <3>1, <3>2 DEF Marked
  <2>4. \A k \in DOMAIN buffer' :
          IF setting.fits THEN buffer'[k].radii = held /\ buffer'[k].params = held
          ELSE buffer'[k].params = Head(waiting)
    <3> TAKE k \in DOMAIN buffer'
    <3>1. \/ \E j \in DOMAIN buffer : buffer'[k] = buffer[j]
          \/ \E j \in DOMAIN Tagged(found) : buffer'[k] = Tagged(found)[j]
      <4>1. IsSeq(buffer) /\ IsSeq(Tagged(found))
        BY <2>2, FieldsOf DEF Batch
      <4>2. \A i \in DOMAIN (buffer \o Tagged(found)) :
              \/ \E j \in DOMAIN buffer : (buffer \o Tagged(found))[i] = buffer[j]
              \/ \E j \in DOMAIN Tagged(found) : (buffer \o Tagged(found))[i] = Tagged(found)[j]
        BY <4>1, FromEither
      <4> QED
        BY <2>1, <4>2
    <3> QED
      BY <2>2, <2>3, <3>1 DEF ParamInv
  <2>5. setting.fits => \A k \in DOMAIN sent : sent[k].params = sent[k].radii
    BY DEF ParamInv
  <2>6. setting.fits => Parameterised(global', setting.tag, held') = held'
    BY <1>1, <1>3
  <2> QED
    BY <1>1, <1>4, <2>1, <2>4, <2>5, <2>6 DEF ParamInv
<1>6. CASE ~setting.queued
  <2>1. sent' = sent \o found /\ buffer' = buffer
    BY <1>6 DEF EndRun, Released
  <2>2. ASSUME setting.fits, NEW k \in DOMAIN sent'
        PROVE  sent'[k].params = sent'[k].radii
    <3>1. \/ \E j \in DOMAIN sent : sent'[k] = sent[j]
          \/ \E j \in DOMAIN found : sent'[k] = found[j]
      BY <2>1, FieldsOf, FromEither
    <3> QED
      BY <1>2, <2>2, <3>1 DEF ParamInv, Marked
  <2>3. DOMAIN buffer' = {}
    <3>1. buffer = <<>>
      BY <1>6 DEF ControlInv
    <3> QED
      BY <2>1, <3>1
  <2>4. buffer' = <<>>
    BY <1>6, <2>1 DEF ControlInv
  <2> QED
    BY <1>1, <1>4, <2>2, <2>3, <2>4 DEF ParamInv
<1> QED
  BY <1>5, <1>6

LEMMA ParamEndParams ==
  ASSUME ControlInv, NameInv, ParamInv, EndParams
  PROVE  ParamInv'
<1>1. /\ pc = "stoich" /\ pc' = "queue" /\ buffer' = <<>> /\ sent' = sent \o buffer
      /\ UNCHANGED <<setting, held, passing, found>>
  BY DEF EndParams, programVars, pipeVars
<1>2. passing' = {} /\ DOMAIN found' = {} /\ DOMAIN buffer' = {}
  BY <1>1 DEF ControlInv, TypeOK
<1>3. ASSUME setting.fits, NEW k \in DOMAIN sent'
      PROVE  sent'[k].params = sent'[k].radii
  <2>1. \/ \E j \in DOMAIN sent : sent'[k] = sent[j]
        \/ \E j \in DOMAIN buffer : sent'[k] = buffer[j]
    BY <1>1, FieldsOf, FromEither
  <2> QED
    BY <1>3, <2>1 DEF ParamInv
<1> QED
  BY <1>1, <1>2, <1>3 DEF ParamInv

LEMMA ParamStep == ControlInv /\ NameInv /\ ParamInv /\ [Next]_vars => ParamInv'
<1> SUFFICES ASSUME ControlInv, NameInv, ParamInv, [Next]_vars PROVE ParamInv'
  OBVIOUS
<1>1. CASE NextParams
  BY <1>1, ParamNext
<1>2. CASE RunStoich
  BY <1>2, ParamRun
<1>3. CASE Generate
  BY <1>3, ParamGenerate
<1>4. CASE \E p \in passing : Optimise(p) \/ Save(p) \/ Finish(p)
  BY <1>4, ParamOptimise, ParamSave, ParamFinish
<1>5. CASE EndRun
  BY <1>5, ParamEndRun
<1>6. CASE EndParams
  BY <1>6, ParamEndParams
<1>7. CASE SkipStoich \/ EndStoich \/ EndQueue \/ UNCHANGED vars
  <2>1. /\ UNCHANGED <<setting, global, held, passing, found, buffer, sent, waiting>>
        /\ pc' = pc \/ pc' # "pipe"
    BY <1>7 DEF SkipStoich, EndStoich, EndQueue, vars, programVars, queueVars, stoichVars, pipeVars
  <2> QED
    BY <2>1, ParamStay
<1> QED
  BY <1>1, <1>2, <1>3, <1>4, <1>5, <1>6, <1>7 DEF Next

(* Whatever sets are refused, a structure is marked with the parameters it was
   built for and optimised with, and with the set at hand where nothing else
   marks it. *)
THEOREM MarkedAlways == Spec => []MarkedAsUsed
<1>1. ControlInv /\ NameInv /\ ParamInv => MarkedAsUsed
  <2> SUFFICES ASSUME ControlInv, NameInv, ParamInv PROVE MarkedAsUsed
    OBVIOUS
  <2>1. IsSeq(found) /\ IsSeq(buffer) /\ IsSeq(sent) /\ IsSeq(found \o buffer)
    BY FieldsOf, Joined
  <2>2. ASSUME setting.fits, NEW k \in DOMAIN Finished
        PROVE  Finished[k].params = Finished[k].radii
    <3> DEFINE u == found \o buffer
    <3>1. Finished = u \o sent /\ IsSeq(u) /\ u = found \o buffer
      BY <2>1 DEF Finished
    <3>2. \A j \in DOMAIN u : \/ \E i \in DOMAIN found : u[j] = found[i]
                              \/ \E i \in DOMAIN buffer : u[j] = buffer[i]
      <4>1. IsSeq(found) /\ IsSeq(buffer)
        BY <2>1
      <4>2. \A j \in DOMAIN (found \o buffer) :
              \/ \E i \in DOMAIN found : (found \o buffer)[j] = found[i]
              \/ \E i \in DOMAIN buffer : (found \o buffer)[j] = buffer[i]
        BY <4>1, FromEither
      <4> QED
        BY <4>2
    <3> HIDE DEF u
    <3>3. \/ \E j \in DOMAIN u : Finished[k] = u[j]
          \/ \E j \in DOMAIN sent : Finished[k] = sent[j]
      <4>1. \A i \in DOMAIN (u \o sent) : \/ \E j \in DOMAIN u : (u \o sent)[i] = u[j]
                                          \/ \E j \in DOMAIN sent : (u \o sent)[i] = sent[j]
        BY <2>1, <3>1, FromEither
      <4> QED
        BY <3>1, <4>1
    <3>4. \A i \in DOMAIN found : found[i].params = found[i].radii
      BY <2>2 DEF ParamInv, Marked
    <3>5. \A i \in DOMAIN buffer : buffer[i].params = buffer[i].radii
      BY <2>2 DEF ParamInv
    <3>6. \A i \in DOMAIN sent : sent[i].params = sent[i].radii
      BY <2>2 DEF ParamInv
    <3> QED
      BY <3>2, <3>3, <3>4, <3>5, <3>6
  <2>3. ASSUME NEW k \in DOMAIN buffer,
               ~setting.fits \/ (setting.tag = QueueTag /\ Head(waiting) \notin Refused)
        PROVE  buffer[k].params = Head(waiting)
    <3>1. CASE ~setting.fits
      BY <3>1 DEF ParamInv
    <3>2. CASE setting.fits /\ setting.tag = QueueTag /\ Head(waiting) \notin Refused
      <4>1. buffer # <<>>
        OBVIOUS
      <4>2. setting.queued /\ pc \in {"stoich", "pipe"}
        BY <4>1 DEF ControlInv, TypeOK
      <4>3. waiting # <<>> /\ global.params[QueueTag] = Head(waiting)
        BY <4>2 DEF ControlInv, TypeOK, AtWork
      <4>4. Head(waiting) # Unset
        BY <4>3, HeadWaits
      <4>5. Parameterised(global, QueueTag, held) = Head(waiting)
        BY <3>2, <4>3, <4>4, SweepAssumption DEF Parameterised
      <4>6. Parameterised(global, QueueTag, held) = held
        BY <3>2, <4>1 DEF ParamInv
      <4> QED
        BY <3>2, <4>5, <4>6 DEF ParamInv
    <3> QED
      BY <2>3, <3>1, <3>2
  <2> QED
    BY <2>2, <2>3 DEF MarkedAsUsed
<1> QED
  BY <1>1, ControlInit, ControlStep, NameInit, NameStep, ParamInit, ParamStep, PTL DEF Spec

(***************************************************************************)
(* Where structures are saved, and what a row tells of it.                 *)
(***************************************************************************)

LEMMA JoinedTwice ==
  ASSUME NEW s, IsSeq(s), NEW t, IsSeq(t), NEW u, IsSeq(u)
  PROVE  (s \o t) \o u = s \o (t \o u)
<1> DEFINE U == ToSet(s) \cup ToSet(t) \cup ToSet(u)
<1>1. s \in Seq(U) /\ t \in Seq(U) /\ u \in Seq(U)
  BY SeqMonotonic DEF IsSeq
<1> HIDE DEF U
<1> QED
  BY <1>1, ConcatAssociative

(* What lies below a directory lies below those above it. *)
LEMMA PrefixOfPrefix ==
  ASSUME NEW s, IsSeq(s), NEW t, IsSeq(t), NEW u, IsSeq(u), IsPrefix(s \o t, u)
  PROVE  IsPrefix(s, u)
<1> DEFINE st == s \o t
           r == SubSeq(u, Len(st) + 1, Len(u))
<1>1. IsSeq(st)
  BY Joined
<1>2. IsSeq(r) /\ st \o r = u
  <2> HIDE DEF st
  <2> QED
    BY <1>1, BelowPrefix DEF st
<1> HIDE DEF r
<1>3. IsSeq(t \o r)
  BY <1>2, Joined
<1>4. (s \o t) \o r = s \o (t \o r)
  <2>1. IsSeq(r)
    BY <1>2
  <2> HIDE DEF st
  <2> QED
    BY <2>1, JoinedTwice
<1>5. u = s \o (t \o r)
  BY <1>2, <1>4
<1> QED
  BY <1>3, <1>5, JoinedPrefix

LEMMA CurrentDir ==
  /\ IsSeq(Current) /\ IsAbsolute(Current)
  /\ Absolute(<<>>) = Current
<1>1. Current \in Seq({Root, <<"cwd">>})
  BY DEF Current
<1>2. IsSeq(Current)
  BY <1>1, SeqIsSeq
<1>3. IsAbsolute(Current)
  BY DEF Current, IsAbsolute
<1>4. Absolute(<<>>) = Current
  BY <1>2, DirsAreRelative, JoinedEmpty DEF Absolute
<1> QED
  BY <1>2, <1>3, <1>4

(* A path that starts where an absolute one is, is absolute. *)
LEMMA JoinedAbsolute ==
  ASSUME NEW s, IsSeq(s), NEW t, IsSeq(t), s # <<>>
  PROVE  s \o t # <<>> /\ (s \o t)[1] = s[1]
<1> DEFINE m == Len(s)
           n == Len(t)
           u == s \o t
<1>1. /\ IsSeq(u) /\ Len(u) = m + n /\ m \in Nat /\ n \in Nat
      /\ \A k \in 1..(m + n) : u[k] = IF k <= m THEN s[k] ELSE t[k - m]
  BY Joined
<1>2. m # 0
  BY EmptySeq DEF IsSeq
<1> HIDE DEF m, n
<1>3. 1 \in 1..(m + n) /\ 1 <= m
  BY <1>1, <1>2
<1>4. u[1] = s[1]
  BY <1>1, <1>3
<1>5. Len(u) # 0
  BY <1>1, <1>3
<1>6. u # <<>>
  <2> HIDE DEF u
  <2> QED
    BY <1>5
<1> QED
  BY <1>4, <1>6

(* The absolute path of a file made relative to a directory it lies below
   leads there from the directory. *)
LEMMA RelativeLeadsThere ==
  ASSUME NEW dir, IsSeq(dir), ~IsAbsolute(dir),
         NEW path, IsSeq(path), IsPrefix(Current \o dir, path)
  PROVE  /\ Absolute(dir) = Current \o dir
         /\ Absolute(dir) \o MakeRelative(dir, path) = path
<1> DEFINE base == Current \o dir
<1>1. Absolute(dir) = base /\ IsSeq(base)
  BY CurrentDir, Joined DEF Absolute
<1>2. base # <<>> /\ base[1] = Current[1] /\ Current[1] = Root
  BY CurrentDir, JoinedAbsolute DEF IsAbsolute
<1>3. Absolute(path) = path
  <2>1. path = base \o SubSeq(path, Len(base) + 1, Len(path))
        /\ IsSeq(SubSeq(path, Len(base) + 1, Len(path)))
    <3> HIDE DEF base
    <3> QED
      BY <1>1, BelowPrefix DEF base
  <2> HIDE DEF base
  <2>2. path # <<>> /\ path[1] = base[1]
    BY <1>1, <1>2, <2>1, JoinedAbsolute
  <2> QED
    BY <1>2, <2>2 DEF Absolute, IsAbsolute
<1>4. MakeRelative(dir, path) = SubSeq(path, Len(base) + 1, Len(path))
  BY <1>1, <1>3 DEF MakeRelative
<1>5. base \o SubSeq(path, Len(base) + 1, Len(path)) = path
  <2> HIDE DEF base
  <2> QED
    BY <1>1, BelowPrefix DEF base
<1> QED
  BY <1>1, <1>4, <1>5

(* A set of numbers with a bound has a greatest. *)
LEMMA HighestExists ==
  ASSUME NEW n \in Nat, NEW S \in SUBSET (1..n), S # {}
  PROVE  Max(S) \in S
<1> DEFINE Good == {m \in Nat : \A T \in SUBSET (1..m) :
                      T # {} => \E x \in T : \A y \in T : x >= y}
<1>1. 0 \in Good
  <2>1. 1..0 = {}
    OBVIOUS
  <2>2. \A T \in SUBSET (1..0) : T = {}
    BY <2>1
  <2> QED
    BY <2>2
<1>2. ASSUME NEW m \in Nat, m \in Good
      PROVE  m + 1 \in Good
  <2> SUFFICES ASSUME NEW T \in SUBSET (1..(m + 1)), T # {}
               PROVE  \E x \in T : \A y \in T : x >= y
    OBVIOUS
  <2>1. CASE m + 1 \in T
    <3>1. \A y \in T : m + 1 >= y
      OBVIOUS
    <3> QED
      BY <2>1, <3>1
  <2>2. CASE m + 1 \notin T
    <3>1. \A y \in T : y \in 1..m
      BY <2>2
    <3>2. T \in SUBSET (1..m)
      BY <3>1
    <3> QED
      BY <1>2, <3>2
  <2> QED
    BY <2>1, <2>2
<1> HIDE DEF Good
<1>3. n \in Good
  BY <1>1, <1>2, NumberInduction
<1>4. \E x \in S : \A y \in S : x >= y
  BY <1>3 DEF Good
<1> QED
  BY <1>4 DEF Max

(* The cell after a loop holds what it did or one of the values. *)
LEMMA LastIsOne ==
  ASSUME NEW n \in Nat, NEW values, DOMAIN values = 1..n, NEW cell
  PROVE  \/ LastOf(values, cell) = cell /\ \A k \in DOMAIN values : values[k] = Unset
         \/ \E k \in DOMAIN values : values[k] # Unset /\ LastOf(values, cell) = values[k]
<1> DEFINE given == {k \in DOMAIN values : values[k] # Unset}
<1>1. LastOf(values, cell) = IF given = {} THEN cell ELSE values[Max(given)]
  BY DEF LastOf
<1>2. given # {} => Max(given) \in given
  <2>1. given \in SUBSET (1..n)
    OBVIOUS
  <2> HIDE DEF given
  <2> QED
    BY <2>1, HighestExists
<1> QED
  BY <1>1, <1>2

(* What the loop over structures leaves in a row. *)
LEMMA RowAfterCells ==
  ASSUME NEW row, DOMAIN row = RowFields, NEW structures, NEW dir
  PROVE  /\ DOMAIN RowAfter(row, structures, dir) = RowFields
         /\ RowAfter(row, structures, dir).atoms = row.atoms
         /\ RowAfter(row, structures, dir).params = row.params
         /\ \E values :
              /\ DOMAIN values = DOMAIN structures
              /\ \A k \in DOMAIN structures : values[k] = RelativeSavePath(structures[k], dir)
              /\ RowAfter(row, structures, dir).lowest = LastOf(values, row.lowest)
         /\ {"atoms", "params", "energy", "sg", "lowest"} = RowFields
<1>1. {"atoms", "params", "energy", "sg", "lowest"} = RowFields
  BY DEF RowFields, EmptyRow
<1>2. /\ DOMAIN RowAfter(row, structures, dir) = RowFields
      /\ RowAfter(row, structures, dir).atoms = row.atoms
      /\ RowAfter(row, structures, dir).params = row.params
  BY <1>1 DEF RowAfter
<1> DEFINE values == [k \in DOMAIN structures |-> RelativeSavePath(structures[k], dir)]
<1>3. RowAfter(row, structures, dir).lowest = LastOf(values, row.lowest)
  BY <1>1 DEF RowAfter
<1>4. /\ DOMAIN values = DOMAIN structures
      /\ \A k \in DOMAIN structures : values[k] = RelativeSavePath(structures[k], dir)
  OBVIOUS
<1> HIDE DEF values
<1> QED
  BY <1>1, <1>2, <1>3, <1>4

(***************************************************************************)
(* PlaceInv holds throughout.                                              *)
(***************************************************************************)

(* Nothing on the disk is lost or written over: a location has the name of the
   structure in it, and that is saved once. *)
DiskKept == \A l \in DOMAIN disk : l \in DOMAIN disk' /\ disk'[l] = disk[l]

LEMMA SavedElsewhere ==
  ASSUME NameInv, NEW p \in passing, p.next = "save",
         NEW location, location.id = p.structure.name
  PROVE  location \notin DOMAIN disk
<1>1. p.structure.name \in NamesAt(Steps)
  BY DEF NameInv, NamesAt
<1>2. p.structure.name \notin NamesOf(found) \cup NamesOf(buffer) \cup NamesOf(sent)
  BY <1>1 DEF NameInv
<1>3. p.structure.name \notin NamesAt({"finish"})
  <2>1. \A q \in passing : q.next = "finish" => q.structure.name # p.structure.name
    BY DEF NameInv
  <2> QED
    BY <2>1 DEF NamesAt
<1> QED
  BY <1>2, <1>3 DEF NameInv

LEMMA DiskIsKept == NameInv /\ [Next]_vars => DiskKept
<1> SUFFICES ASSUME NameInv, [Next]_vars PROVE DiskKept
  OBVIOUS
<1>1. ASSUME NEW p \in passing, Save(p)
      PROVE  DiskKept
  <2> DEFINE location == SaveLocation(p.structure, setting.multi, inner, global)
             saved == [p.structure EXCEPT !.saved = location]
  <2>1. p.next = "save" /\ (disk' = disk \/ disk' = OnDisk(disk, saved, location))
    BY <1>1 DEF Save
  <2>2. location.id = p.structure.name
    BY DEF SaveLocation
  <2> HIDE DEF location, saved
  <2>3. location \notin DOMAIN disk
    BY <2>1, <2>2, SavedElsewhere
  <2> QED
    BY <2>1, <2>3 DEF DiskKept, OnDisk
<1>2. CASE ~\E p \in passing : Save(p)
  <2>1. disk' = disk
    BY <1>2 DEF Next, NextParams, SkipStoich, RunStoich, Generate, Optimise, Finish, EndRun,
                EndStoich, EndParams, EndQueue, vars, programVars
  <2> QED
    BY <2>1 DEF DiskKept
<1> QED
  BY <1>1, <1>2

LEMMA SavedStays ==
  ASSUME DiskKept, setting' = setting
  PROVE  \A s, dir : IsSavedIn(s, dir) => IsSavedIn(s, dir)'
BY DEF DiskKept, IsSavedIn

LEMMA SettingStays == [Next]_vars => setting' = setting
BY DEF Next, NextParams, SkipStoich, RunStoich, Generate, Optimise, Save, Finish, EndRun,
       EndStoich, EndParams, EndQueue, vars, programVars

(* A structure is saved in or below the directory of the inner engine. *)
LEMMA SavedBelow ==
  ASSUME ControlInv, NameInv, pc = "pipe", NEW p \in passing,
         NEW location, location = SaveLocation(p.structure, setting.multi, inner, global)
  PROVE  /\ location = [path |-> location.path, id |-> p.structure.name]
         /\ IsSeq(location.path) /\ IsPrefix(Current \o inner.dir, location.path)
<1> DEFINE dir == inner.dir
           one == <<<<global.seed, inner.instance>>>>
           own == <<p.structure.name>>
<1>1. IsSeq(dir) /\ ~IsAbsolute(dir)
  BY SweepPaths DEF ControlInv
<1>2. WorkingDir(inner, global) = dir
  <2>1. global.dir = <<>>
    BY DEF ControlInv, GlobalInv
  <2>2. <<>> \o dir = dir
    BY <1>1, JoinedEmpty
  <2> QED
    BY <1>1, <2>1, <2>2 DEF WorkingDir
<1>3. IsSeq(<<>>) /\ IsSeq(one) /\ IsSeq(own)
  <2>1. one \in Seq({<<global.seed, inner.instance>>}) /\ own \in Seq({p.structure.name})
    OBVIOUS
  <2>2. IsSeq(one)
    BY <2>1, SeqIsSeq
  <2>3. IsSeq(own)
    BY <2>1, SeqIsSeq
  <2> QED
    BY <2>2, <2>3, EmptySeq DEF IsSeq
<1>4. ~IsAbsolute(<<>>) /\ ~IsAbsolute(one) /\ ~IsAbsolute(own)
  <2>1. \E k : p.structure.name = <<"structure", k>>
    <3>1. p.structure.name \in NamesAt(Steps)
      BY DEF NameInv, NamesAt
    <3> QED
      BY <3>1 DEF NameInv
  <2>2. \A x, y : <<x, y>> # Root
    BY DEF Root
  <2> QED
    BY <2>1, <2>2 DEF IsAbsolute
<1>5. PICK rest \in {<<>>, one, own} :
        location = [path |-> Absolute(dir \o rest), id |-> p.structure.name]
  <2>1. Append(dir, p.structure.name) = dir \o own
    BY <1>1, Appended
  <2> QED
    BY <1>2, <2>1 DEF SaveLocation, OutputFileStemPath, OutputFileStem
<1> HIDE DEF one, own, dir
<1>6. IsSeq(rest) /\ ~IsAbsolute(rest)
  BY <1>3, <1>4, <1>5
<1>7. ~IsAbsolute(dir \o rest) /\ IsSeq(dir \o rest)
  <2>1. CASE dir = <<>>
    <3>1. dir \o rest = rest
      BY <1>6, <2>1, JoinedEmpty
    <3> QED
      BY <1>6, <3>1
  <2>2. CASE dir # <<>>
    <3>1. (dir \o rest)[1] = dir[1]
      BY <1>1, <1>6, <2>2, JoinedAbsolute
    <3>2. IsSeq(dir \o rest)
      BY <1>1, <1>6, Joined
    <3> QED
      BY <1>1, <2>2, <3>1, <3>2 DEF IsAbsolute
  <2> QED
    BY <2>1, <2>2
<1>8. location.path = Current \o (dir \o rest)
  BY <1>5, <1>7 DEF Absolute
<1>9. Current \o (dir \o rest) = (Current \o dir) \o rest
  BY <1>1, <1>6, CurrentDir, JoinedTwice
<1>10. IsSeq(Current \o dir)
  BY <1>1, CurrentDir, Joined
<1>11. IsSeq(location.path)
  BY <1>7, <1>8, CurrentDir, Joined
<1>12. IsPrefix(Current \o dir, location.path)
  BY <1>6, <1>8, <1>9, <1>10, JoinedPrefix
<1> QED
  BY <1>5, <1>11, <1>12 DEF dir

LEMMA PlaceInit == Init => PlaceInv
BY DEF Init, PlaceInv

(* A step that moves no structures, or begins a run when there are none. *)
LEMMA PlaceStay ==
  ASSUME PlaceInv, DiskKept, setting' = setting,
         UNCHANGED <<passing, found>>, buffer' = <<>> \/ UNCHANGED <<buffer, shared>>,
         UNCHANGED <<stoich, inner>> \/ (passing = {} /\ found = <<>>)
  PROVE  PlaceInv'
<1>1. \A s, dir : IsSavedIn(s, dir) => IsSavedIn(s, dir)'
  BY SavedStays
<1>2. \A k \in DOMAIN buffer' : IsSavedIn(buffer[k], shared.dir) /\ buffer' = buffer /\ shared' = shared
  BY DEF PlaceInv
<1>3. \A k \in DOMAIN buffer' : IsSavedIn(buffer[k], shared.dir)'
  BY <1>1, <1>2 DEF IsSavedIn
<1>4. CASE UNCHANGED <<stoich, inner>>
  <2>1. \A k \in DOMAIN found : IsSavedIn(found[k], inner.dir)'
    BY <1>1, <1>4 DEF PlaceInv, IsSavedIn
  <2>2. \A p \in passing : p.next = "finish" => IsSavedIn(p.structure, inner.dir)'
    BY <1>1, <1>4 DEF PlaceInv, IsSavedIn
  <2> QED
    BY <1>3, <1>4, <2>1, <2>2 DEF PlaceInv, IsSavedIn
<1>5. CASE passing = {} /\ found = <<>>
  BY <1>3, <1>5 DEF PlaceInv
<1> QED
  BY <1>4, <1>5

LEMMA PlaceGenerate ==
  ASSUME ControlInv, PlaceInv, DiskKept, Generate
  PROVE  PlaceInv'
<1>1. /\ pc = "pipe" /\ global.generation = stoich /\ stoich \in StoichRange
      /\ UNCHANGED <<setting, found, buffer, stoich, shared, inner>>
  BY DEF Generate, ControlInv, TypeOK, queueVars, stoichVars
<1>2. \A s, dir : IsSavedIn(s, dir) => IsSavedIn(s, dir)'
  BY <1>1, SavedStays
<1>3. \A p \in passing' :
        \/ p \in passing
        \/ p.next = "optimise" /\ p.structure.atoms = stoich /\ p.structure.saved = Unset
  <2>1. CASE passing' = passing
    BY <2>1
  <2>2. CASE passing' # passing
    <3> DEFINE s == Generated(global, inner, Unset, <<"structure", unique'>>)
               r == [next |-> "optimise", structure |-> s]
    <3>1. passing' = passing \cup {r}
      BY <2>2 DEF Generate
    <3>2. s.atoms = stoich /\ s.saved = Unset
      BY <1>1, SettingsAssumption DEF Generated, NewStructure
    <3> HIDE DEF s
    <3> QED
      BY <3>1, <3>2
  <2> QED
    BY <2>1, <2>2
<1>4. /\ \A k \in DOMAIN found : IsSavedIn(found[k], inner.dir)'
      /\ \A k \in DOMAIN buffer : IsSavedIn(buffer[k], shared.dir)'
      /\ \A p \in passing : p.next = "finish" => IsSavedIn(p.structure, inner.dir)'
  BY <1>1, <1>2 DEF PlaceInv, IsSavedIn
<1> QED
  BY <1>1, <1>3, <1>4 DEF PlaceInv, IsSavedIn

LEMMA PlaceOptimise ==
  ASSUME ControlInv, NameInv, PlaceInv, DiskKept, NEW p \in passing, Optimise(p)
  PROVE  PlaceInv'
<1>1. /\ p.next = "optimise"
      /\ UNCHANGED <<setting, found, buffer, stoich, shared, inner>>
  BY DEF Optimise, programVars, queueVars, stoichVars
<1>2. \A s, dir : IsSavedIn(s, dir) => IsSavedIn(s, dir)'
  BY <1>1, SavedStays
<1> DEFINE h == IF setting.fits THEN held ELSE Unset
<1>3. PICK o \in Optimised(p.structure, h, setting.failAction, {p.structure.atoms}) :
        passing' = (passing \ {p}) \cup
          IF o.out THEN {[next |-> "save", structure |-> SymmetryFound(o.structure)]} ELSE {}
  BY DEF Optimise
<1> HIDE DEF h
<1> DEFINE s == SymmetryFound(o.structure)
<1>4. s.atoms = stoich /\ s.saved = Unset
  <2>1. DOMAIN p.structure = Fields /\ {"atoms", "saved"} \subseteq Fields
    BY FieldsOf
  <2>2. p.structure.atoms = stoich /\ p.structure.saved = Unset
    BY <1>1 DEF PlaceInv
  <2>3. o.structure.atoms = stoich /\ o.structure.saved = Unset
    BY <1>3, <2>1, <2>2, OptimisedIs DEF Fields, NewStructure
  <2> QED
    BY <2>3 DEF SymmetryFound
<1> HIDE DEF s
<1>5. \A q \in passing' :
        q \in passing \/ (q.next = "save" /\ q.structure.atoms = stoich /\ q.structure.saved = Unset)
  BY <1>3, <1>4 DEF s
<1>6. /\ \A k \in DOMAIN found : IsSavedIn(found[k], inner.dir)'
      /\ \A k \in DOMAIN buffer : IsSavedIn(buffer[k], shared.dir)'
      /\ \A q \in passing : q.next = "finish" => IsSavedIn(q.structure, inner.dir)'
  BY <1>1, <1>2 DEF PlaceInv, IsSavedIn
<1> QED
  BY <1>1, <1>5, <1>6 DEF PlaceInv, IsSavedIn

LEMMA PlaceSave ==
  ASSUME ControlInv, NameInv, ParamInv, PlaceInv, DiskKept, NEW p \in passing, Save(p)
  PROVE  PlaceInv'
<1>0. PICK location : location = SaveLocation(p.structure, setting.multi, inner, global)
  OBVIOUS
<1> DEFINE saved == [p.structure EXCEPT !.saved = location]
           done == [next |-> "finish", structure |-> saved]
           failed == [p EXCEPT !.next = "finish"]
<1>1. /\ p.next = "save" /\ pc = "pipe"
      /\ UNCHANGED <<setting, found, buffer, stoich, shared, inner>>
      /\ \/ disk' = OnDisk(disk, saved, location) /\ passing' = (passing \ {p}) \cup {done}
         \/ disk' = disk /\ passing' = (passing \ {p}) \cup {failed}
  BY <1>0 DEF Save, queueVars, stoichVars, ControlInv, TypeOK
<1>2. \A s, dir : IsSavedIn(s, dir) => IsSavedIn(s, dir)'
  BY <1>1, SavedStays
<1>3. /\ DOMAIN p = {"next", "structure"}
      /\ DOMAIN p.structure = Fields /\ {"atoms", "params", "saved"} \subseteq Fields
  BY FieldsOf
<1>4. p.structure.atoms = stoich /\ p.structure.saved = Unset
  BY <1>1 DEF PlaceInv
<1>5. /\ location = [path |-> location.path, id |-> p.structure.name]
      /\ IsSeq(location.path) /\ IsPrefix(Current \o inner.dir, location.path)
  BY <1>0, <1>1, SavedBelow
<1>6. saved.atoms = stoich /\ saved.saved = location /\ saved.params = p.structure.params
  BY <1>3, <1>4
<1>7. failed.next = "finish" /\ failed.structure = p.structure
  BY <1>3
<1>8. done.next = "finish" /\ done.structure = saved
  OBVIOUS
<1> HIDE DEF saved, done, failed
<1>9. \A q \in passing' :
        \/ q \in passing
        \/ q.next = "finish" /\ q.structure.atoms = stoich /\ IsSavedIn(q.structure, inner.dir)'
  <2>1. CASE disk' = disk /\ passing' = (passing \ {p}) \cup {failed}
    BY <1>4, <1>7, <2>1 DEF IsSavedIn
  <2>2. CASE disk' = OnDisk(disk, saved, location) /\ passing' = (passing \ {p}) \cup {done}
    <3>1. location \in DOMAIN disk' /\ disk'[location] = saved
      BY <2>2 DEF OnDisk
    <3>2. location = [path |-> location.path, id |-> location.id]
      BY <1>5
    <3>3. IsSavedIn(saved, inner.dir)'
      BY <1>1, <1>5, <1>6, <3>1, <3>2 DEF IsSavedIn
    <3>4. IsSavedIn(done.structure, inner.dir)'
      BY <1>8, <3>3 DEF IsSavedIn
    <3> QED
      BY <1>6, <1>8, <2>2, <3>4
  <2> QED
    BY <1>1, <2>1, <2>2
<1>10. /\ \A k \in DOMAIN found : IsSavedIn(found[k], inner.dir)'
       /\ \A k \in DOMAIN buffer : IsSavedIn(buffer[k], shared.dir)'
       /\ \A q \in passing : q.next = "finish" => IsSavedIn(q.structure, inner.dir)'
  BY <1>1, <1>2 DEF PlaceInv, IsSavedIn
<1> QED
  BY <1>1, <1>9, <1>10 DEF PlaceInv, IsSavedIn

LEMMA PlaceFinish ==
  ASSUME NameInv, PlaceInv, DiskKept, NEW p \in passing, Finish(p)
  PROVE  PlaceInv'
<1>1. /\ p.next = "finish" /\ passing' = passing \ {p} /\ found' = Append(found, p.structure)
      /\ UNCHANGED <<setting, disk, buffer, stoich, shared, inner>>
  BY DEF Finish, programVars, queueVars
<1>2. p.structure.atoms = stoich /\ IsSavedIn(p.structure, inner.dir)
  BY <1>1 DEF PlaceInv
<1>3. \A k \in DOMAIN found' : found'[k] = p.structure \/ \E j \in DOMAIN found : found'[k] = found[j]
  BY <1>1, FieldsOf, FromAppended
<1>4. \A k \in DOMAIN found' : found'[k].atoms = stoich /\ IsSavedIn(found'[k], inner.dir)
  BY <1>2, <1>3 DEF PlaceInv
<1>5. \A q \in passing' : q \in passing
  BY <1>1
<1> QED
  BY <1>1, <1>4, <1>5 DEF PlaceInv, IsSavedIn

(* The directory a run is in lies below that of the sweep, so that what is
   saved in it is below both. *)
LEMMA SavedAbove ==
  ASSUME ControlInv, pc = "pipe", NEW x, IsSavedIn(x, inner.dir)
  PROVE  IsSavedIn(x, shared.dir)
<1> SUFFICES ASSUME x.saved # Unset
             PROVE  IsPrefix(Current \o shared.dir, x.saved.path)
  BY DEF IsSavedIn
<1>1. IsSeq(x.saved.path) /\ IsPrefix(Current \o inner.dir, x.saved.path)
  BY DEF IsSavedIn
<1>2. /\ IsSeq(shared.dir) /\ IsSeq(inner.dir) /\ IsPrefix(shared.dir, inner.dir)
  BY SweepPaths, WorkingDirs DEF ControlInv
<1> DEFINE rest == SubSeq(inner.dir, Len(shared.dir) + 1, Len(inner.dir))
<1>3. IsSeq(rest) /\ shared.dir \o rest = inner.dir
  BY <1>2, BelowPrefix
<1> HIDE DEF rest
<1>4. (Current \o shared.dir) \o rest = Current \o (shared.dir \o rest)
  <2> DEFINE up == shared.dir
  <2>1. IsSeq(Current) /\ IsSeq(up) /\ IsSeq(rest)
    BY <1>2, <1>3, CurrentDir
  <2> HIDE DEF up
  <2>2. (Current \o up) \o rest = Current \o (up \o rest)
    BY <2>1, JoinedTwice
  <2> QED
    BY <2>2 DEF up
<1>5. IsSeq(Current \o shared.dir)
  BY <1>2, CurrentDir, Joined
<1> DEFINE above == Current \o shared.dir
<1>6. IsPrefix(above \o rest, x.saved.path) /\ IsSeq(above)
  BY <1>1, <1>3, <1>4, <1>5
<1> HIDE DEF above
<1>7. IsPrefix(above, x.saved.path)
  BY <1>1, <1>3, <1>6, PrefixOfPrefix
<1> QED
  BY <1>7 DEF above

LEMMA PlaceEndRun ==
  ASSUME ControlInv, NameInv, ParamInv, PlaceInv, EndRun
  PROVE  PlaceInv'
<1>1. /\ pc = "pipe" /\ passing = {} /\ found' = <<>>
      /\ UNCHANGED <<setting, disk, stoich, shared, passing>>
  BY DEF EndRun, Released, programVars
<1>2. DOMAIN found' = {}
  BY <1>1
<1>3. \A k \in DOMAIN found : IsSavedIn(found[k], shared.dir)
  BY <1>1, SavedAbove DEF PlaceInv
<1>4. \A k \in DOMAIN buffer' : IsSavedIn(buffer'[k], shared.dir)
  <2>1. CASE setting.queued
    <3>1. buffer' = buffer \o Tagged(found)
      BY <2>1 DEF EndRun, Released
    <3>2. /\ IsSeq(Tagged(found)) /\ DOMAIN Tagged(found) = DOMAIN found
          /\ \A k \in DOMAIN found :
               Tagged(found)[k] =
                 [found[k] EXCEPT !.params = IF found[k].params = Unset THEN Head(waiting)
                                             ELSE found[k].params]
      BY TaggedBatch DEF NameInv, Batch
    <3>3. ASSUME NEW k \in DOMAIN found
          PROVE  IsSavedIn(Tagged(found)[k], shared.dir)
      <4> DEFINE t == Tagged(found)[k]
      <4>1. DOMAIN found[k] = Fields /\ {"saved", "atoms", "params"} \subseteq Fields
        BY FieldsOf
      <4>2. setting.fits => found[k].params # Unset
        BY DEF ParamInv, Marked, ControlInv
      <4>3. /\ t.saved = found[k].saved /\ t.atoms = found[k].atoms
            /\ setting.fits => t.params = found[k].params
        BY <3>2, <4>1, <4>2
      <4> HIDE DEF t
      <4>4. IsSavedIn(t, shared.dir)
        BY <1>3, <4>3 DEF IsSavedIn
      <4> QED
        BY <4>4 DEF t
    <3>4. \A k \in DOMAIN (buffer \o Tagged(found)) :
            \/ \E j \in DOMAIN buffer : (buffer \o Tagged(found))[k] = buffer[j]
            \/ \E j \in DOMAIN Tagged(found) : (buffer \o Tagged(found))[k] = Tagged(found)[j]
      BY <3>2, FieldsOf, FromEither
    <3> QED
      BY <3>1, <3>2, <3>3, <3>4 DEF PlaceInv
  <2>2. CASE ~setting.queued
    BY <2>2 DEF EndRun, Released, PlaceInv
  <2> QED
    BY <2>1, <2>2
<1> QED
  BY <1>1, <1>2, <1>4 DEF PlaceInv, IsSavedIn

LEMMA PlaceStep ==
  ControlInv /\ NameInv /\ ParamInv /\ PlaceInv /\ [Next]_vars => PlaceInv'
<1> SUFFICES ASSUME ControlInv, NameInv, ParamInv, PlaceInv, [Next]_vars PROVE PlaceInv'
  OBVIOUS
<1>1. DiskKept /\ setting' = setting
  BY DiskIsKept, SettingStays
<1>2. CASE Generate
  BY <1>1, <1>2, PlaceGenerate
<1>3. CASE \E p \in passing : Optimise(p) \/ Save(p) \/ Finish(p)
  BY <1>1, <1>3, PlaceOptimise, PlaceSave, PlaceFinish
<1>4. CASE EndRun
  BY <1>4, PlaceEndRun
<1>5. CASE \/ NextParams \/ SkipStoich \/ RunStoich \/ EndStoich \/ EndParams \/ EndQueue
           \/ UNCHANGED vars
  <2>1. UNCHANGED <<passing, found>>
    BY <1>5 DEF NextParams, SkipStoich, RunStoich, EndStoich, EndParams, EndQueue, vars, pipeVars,
                stoichVars
  <2>2. buffer' = <<>> \/ UNCHANGED <<buffer, shared>>
    BY <1>5 DEF NextParams, SkipStoich, RunStoich, EndStoich, EndParams, EndQueue, vars,
                stoichVars, queueVars, ControlInv
  <2>3. UNCHANGED <<stoich, inner>> \/ (passing = {} /\ found = <<>>)
    BY <1>5 DEF NextParams, SkipStoich, RunStoich, EndStoich, EndParams, EndQueue, vars,
                stoichVars, pipeVars, ControlInv, TypeOK
  <2> QED
    BY <1>1, <2>1, <2>2, <2>3, PlaceStay
<1> QED
  BY <1>2, <1>3, <1>4, <1>5 DEF Next

(***************************************************************************)
(* RowInv holds throughout.                                                *)
(***************************************************************************)

(* The path in a row that has had none before leads to a structure that was
   among those entered. *)
LEMMA LowestLeads ==
  ASSUME NEW batch, IsSeq(batch), NEW dir, IsSeq(dir), ~IsAbsolute(dir),
         \A k \in DOMAIN batch : IsSavedIn(batch[k], dir),
         NEW values, DOMAIN values = DOMAIN batch,
         \A k \in DOMAIN batch : values[k] = RelativeSavePath(batch[k], dir),
         NEW low, low # Unset, low = LastOf(values, Unset)
  PROVE  \E k \in DOMAIN batch :
           /\ batch[k].saved # Unset
           /\ [low EXCEPT !.path = Absolute(dir) \o @] = batch[k].saved
<1>1. Len(batch) \in Nat /\ DOMAIN values = 1..Len(batch)
  BY LenProperties DEF IsSeq
<1>2. PICK k \in DOMAIN batch : values[k] # Unset /\ low = values[k]
  <2>1. \/ LastOf(values, Unset) = Unset /\ \A k \in DOMAIN values : values[k] = Unset
        \/ \E k \in DOMAIN values : values[k] # Unset /\ LastOf(values, Unset) = values[k]
    BY <1>1, LastIsOne
  <2> QED
    BY <2>1
<1> DEFINE at == batch[k].saved
<1>3. at # Unset /\ low = [at EXCEPT !.path = MakeRelative(dir, @)]
  BY <1>2 DEF RelativeSavePath
<1>4. /\ at = [path |-> at.path, id |-> at.id]
      /\ IsSeq(at.path) /\ IsPrefix(Current \o dir, at.path)
  BY <1>3 DEF IsSavedIn
<1> HIDE DEF at
<1>5. Absolute(dir) \o MakeRelative(dir, at.path) = at.path
  BY <1>4, RelativeLeadsThere
<1> DEFINE rel == MakeRelative(dir, at.path)
           base == Absolute(dir)
<1>6. low = [path |-> rel, id |-> at.id] /\ base \o rel = at.path
  BY <1>3, <1>4, <1>5
<1> HIDE DEF rel, base
<1>7. low.path = rel /\ DOMAIN low = {"path", "id"} /\ low.id = at.id
  BY <1>6
<1>8. [low EXCEPT !.path = base \o rel] = [path |-> base \o rel, id |-> at.id]
  <2> DEFINE up == base \o rel
             id == at.id
             one == [low EXCEPT !.path = up]
             two == [path |-> up, id |-> id]
  <2> HIDE DEF up, id
  <2>1. DOMAIN one = {"path", "id"} /\ one.path = up /\ one.id = id
    BY <1>7 DEF id
  <2>2. one = [f \in {"path", "id"} |-> one[f]]
    BY <1>7
  <2>3. two = [f \in {"path", "id"} |-> two[f]]
    OBVIOUS
  <2>4. two.path = up /\ two.id = id
    OBVIOUS
  <2> HIDE DEF one, two
  <2>5. one = two
    BY <2>1, <2>2, <2>3, <2>4
  <2> QED
    BY <2>5 DEF one, two, up, id
<1>9. [low EXCEPT !.path = base \o @] = at
  BY <1>4, <1>6, <1>7, <1>8
<1> QED
  BY <1>3, <1>9 DEF at, base

(* What a row tells stays true. *)
LEMMA TellsOn ==
  ASSUME DiskKept
  PROVE  \A row, key, dir :
           RowIsTrue(row, key, dir) =>
             /\ RowIsTrue(row, key, dir)'
             /\ row.lowest # Unset => Saved(row, dir)' = Saved(row, dir)
BY DEF DiskKept, RowIsTrue, Saved

(* The rows of stoichiometries stay when none has been run since. *)
LEMMA StoichRowsStay ==
  ASSUME StoichRows, DiskKept, UNCHANGED <<setting, stoichTable, shared>>,
         global'.dir = global.dir, Ran' = Ran, pc \in {"stoich", "pipe"}
  PROVE  StoichRows'
<1> SUFFICES ASSUME setting.separate
             PROVE  /\ DOMAIN stoichTable = {SweepPath(n) : n \in Ran}'
                    /\ \A n \in Ran :
                         LET row == stoichTable[SweepPath(n)]
                         IN /\ DOMAIN row = RowFields /\ row.atoms = n
                            /\ RowIsTrue(row, SweepPath(n), shared.dir)'
                            /\ row.lowest # Unset => Saved(row, shared.dir)'.atoms = n
  <2>1. \A n : SweepPath(n)' = SweepPath(n)
    BY PathsStay
  <2> QED
    BY <2>1 DEF StoichRows, RowIsTrue, Saved
<1>1. \A n : SweepPath(n)' = SweepPath(n)
  BY PathsStay
<1>2. DOMAIN stoichTable = {SweepPath(n) : n \in Ran}'
  BY <1>1 DEF StoichRows
<1>3. ASSUME NEW n \in Ran
      PROVE  LET row == stoichTable[SweepPath(n)]
             IN /\ DOMAIN row = RowFields /\ row.atoms = n
                /\ RowIsTrue(row, SweepPath(n), shared.dir)'
                /\ row.lowest # Unset => Saved(row, shared.dir)'.atoms = n
  <2>1. PICK row, key, dir : row = stoichTable[SweepPath(n)] /\ key = SweepPath(n) /\ dir = shared.dir
    OBVIOUS
  <2>2. /\ DOMAIN row = RowFields /\ row.atoms = n
        /\ RowIsTrue(row, key, dir)
        /\ row.lowest # Unset => Saved(row, dir).atoms = n
    BY <2>1 DEF StoichRows
  <2>3. /\ RowIsTrue(row, key, dir)'
        /\ row.lowest # Unset => Saved(row, dir)'.atoms = n
    BY <2>2, TellsOn
  <2> QED
    BY <1>1, <2>1, <2>2, <2>3 DEF RowIsTrue, Saved
<1> QED
  BY <1>2, <1>3

LEMMA TableRowsStay ==
  ASSUME TableRows, DiskKept, UNCHANGED <<setting, table>>
  PROVE  TableRows'
<1>1. ASSUME NEW key \in DOMAIN table
      PROVE  /\ RowIsTrue(table[key], key, <<>>)'
             /\ (setting.fits /\ table[key].lowest # Unset) =>
                  Saved(table[key], <<>>)'.params = table[key].params
  <2>1. PICK row : row = table[key]
    OBVIOUS
  <2>2. /\ RowIsTrue(row, key, <<>>)
        /\ (setting.fits /\ row.lowest # Unset) => Saved(row, <<>>).params = row.params
    BY <2>1 DEF TableRows
  <2>3. /\ RowIsTrue(row, key, <<>>)'
        /\ (setting.fits /\ row.lowest # Unset) => Saved(row, <<>>)'.params = row.params
    BY <2>2, TellsOn
  <2> QED
    BY <2>1, <2>3 DEF RowIsTrue, Saved
<1> QED
  BY <1>1 DEF TableRows, RowIsTrue, Saved

LEMMA RowInit == Init => RowInv
<1> SUFFICES ASSUME Init PROVE RowInv
  OBVIOUS
<1>1. pc # "pipe" /\ ~AtWork /\ DOMAIN table = {} /\ DOMAIN stoichTable = {}
  BY DEF Init, AtWork, NoTable
<1>2. pc = "stoich" => Ran = {}
  BY DEF Init, Ran
<1>3. {SweepPath(n) : n \in {}} = {}
  OBVIOUS
<1>4. StoichRows
  BY <1>1, <1>2, <1>3 DEF StoichRows
<1> QED
  BY <1>1, <1>4 DEF RowInv, RunsOnce, TableKeys, TableRows

LEMMA RowNextParams ==
  ASSUME ControlInv, RowInv, DiskKept, NextParams
  PROVE  RowInv'
<1>1. /\ pc = "queue" /\ pc' = "stoich" /\ todo' = StoichRange
      /\ unique' = unique + 1 /\ unique \in Nat
      /\ shared' = [shared EXCEPT !.dir = Append(WorkingDir(MainShared, global), <<"dir", unique'>>)]
      /\ UNCHANGED <<setting, stoichTable, table>>
  BY DEF NextParams, queueVars, pipeVars, ControlInv, TypeOK
<1>2. shared'.dir = ParamsDir(unique')
  <2>1. Append(WorkingDir(MainShared, global), <<"dir", unique'>>) = ParamsDir(unique')
    BY WorkingDirs DEF ParamsDir
  <2> QED
    BY <1>1, <2>1 DEF ControlInv, IsShared
<1>3. DOMAIN stoichTable' = {} /\ Ran' = {}
  BY <1>1 DEF ControlInv, NoTable, Ran
<1>4. {SweepPath(n) : n \in Ran}' = {}
  BY <1>3
<1>5. StoichRows'
  BY <1>3, <1>4 DEF StoichRows
<1>6. TableKeys'
  <2>1. \A k \in 1..unique : k \in 1..unique' /\ k # unique'
    BY <1>1
  <2>2. \A k \in 1..unique : ParamsDir(k) # ParamsDir(unique')
    BY <2>1 DEF ParamsDir
  <2>3. {ParamsDir(k) : k \in 1..unique} \subseteq {ParamsDir(k) : k \in 1..unique'}
    BY <2>1
  <2>4. ParamsDir(unique') \notin {ParamsDir(k) : k \in 1..unique}
    BY <2>2
  <2> QED
    BY <1>1, <1>2, <2>3, <2>4 DEF RowInv, TableKeys
<1>7. TableRows'
  BY <1>1, TableRowsStay DEF RowInv
<1>8. RunsOnce'
  BY <1>1 DEF RunsOnce
<1> QED
  BY <1>5, <1>6, <1>7, <1>8 DEF RowInv

(* The steps of the loop that turn to a stoichiometry. *)
LEMMA RowTurns ==
  ASSUME ControlInv, RowInv, DiskKept, SkipStoich \/ RunStoich
  PROVE  RowInv'
<1> DEFINE n == Upcoming
<1>1. PICK m : m = n
  OBVIOUS
<1>2. /\ pc = "stoich" /\ m \in todo /\ todo' = todo \ {m}
      /\ UNCHANGED <<setting, stoichTable, table, shared, unique>>
  BY <1>1 DEF SkipStoich, RunStoich, programVars, queueVars, Upcoming
<1>3. global'.dir = global.dir
  BY DEF SkipStoich, RunStoich, programVars, SettingsFor, ControlInv, GlobalInv
<1>4. (Skipped(m) /\ pc' = "stoich") \/ (~Skipped(m) /\ pc' = "pipe" /\ stoich' = m)
  BY <1>1, <1>2 DEF SkipStoich, RunStoich
<1> HIDE DEF n
<1>5. Ran' = Ran
  <2>1. \A k \in StoichRange : k \in Ran' <=> k \in Ran
    BY <1>2, <1>4 DEF Ran
  <2> QED
    BY <2>1 DEF Ran
<1>6. StoichRows'
  BY <1>2, <1>3, <1>5, StoichRowsStay DEF RowInv
<1>7. TableRows'
  BY <1>2, TableRowsStay DEF RowInv
<1>8. TableKeys'
  BY <1>2, <1>4 DEF RowInv, TableKeys, AtWork
<1>9. RunsOnce'
  BY <1>2, <1>4 DEF RunsOnce
<1> QED
  BY <1>6, <1>7, <1>8, <1>9 DEF RowInv

(* The steps of the inner pipe. *)
LEMMA RowPipe ==
  ASSUME ControlInv, RowInv, DiskKept,
         Generate \/ \E p \in passing : Optimise(p) \/ Save(p) \/ Finish(p)
  PROVE  RowInv'
<1>1. /\ pc = "pipe" /\ unique' \in {unique, unique + 1} /\ unique \in Nat
      /\ UNCHANGED <<pc, setting, global, stoichTable, table, shared, todo, stoich>>
  BY DEF Generate, Optimise, Save, Finish, programVars, queueVars, stoichVars, ControlInv, TypeOK
<1>2. Ran' = Ran
  BY <1>1 DEF Ran
<1>3. StoichRows'
  BY <1>1, <1>2, StoichRowsStay DEF RowInv
<1>4. TableRows'
  BY <1>1, TableRowsStay DEF RowInv
<1>5. TableKeys'
  <2>1. \A k \in 1..unique : k \in 1..unique'
    BY <1>1
  <2>2. {ParamsDir(k) : k \in 1..unique} \subseteq {ParamsDir(k) : k \in 1..unique'}
    BY <2>1
  <2> QED
    BY <1>1, <2>2 DEF RowInv, TableKeys, AtWork
<1>6. RunsOnce'
  BY <1>1 DEF RowInv, RunsOnce
<1> QED
  BY <1>3, <1>4, <1>5, <1>6 DEF RowInv

(* The row of the stoichiometry that was run. *)
LEMMA RowEntered ==
  ASSUME ControlInv, NameInv, PlaceInv, RowInv, pc = "pipe", setting.separate,
         NEW path, path = SweepPath(stoich)
  PROVE  \E row :
           /\ StoichEntered = [k \in DOMAIN stoichTable \cup {path} |->
                                 IF k = path THEN row ELSE stoichTable[k]]
           /\ DOMAIN row = RowFields /\ row.atoms = stoich
           /\ RowIsTrue(row, path, shared.dir)
           /\ row.lowest # Unset => Saved(row, shared.dir).atoms = stoich
<1>1. /\ IsSeq(path) /\ ~IsAbsolute(path) /\ path # <<>>
      /\ \A m : SweepPath(m) = path => m = stoich
  BY SweepPaths
<1>2. /\ WorkingDir(shared, global) = shared.dir
      /\ IsSeq(shared.dir) /\ ~IsAbsolute(shared.dir)
  BY WorkingDirs
<1>3. path \notin DOMAIN stoichTable
  BY <1>1 DEF RowInv, StoichRows, Ran
<1>4. stoich # Unset
  BY SettingsAssumption DEF ControlInv, TypeOK
<1> DEFINE blank == [EmptyRow EXCEPT !.atoms = stoich]
           made == WithRow(stoichTable, path, blank)
           row == RowAfter(blank, found, shared.dir)
<1>5. DOMAIN blank = RowFields /\ blank.atoms = stoich /\ blank.lowest = Unset
  BY DEF EmptyRow, RowFields
<1>6. /\ DOMAIN row = RowFields /\ row.atoms = stoich
      /\ \E values :
           /\ DOMAIN values = DOMAIN found
           /\ \A k \in DOMAIN found : values[k] = RelativeSavePath(found[k], shared.dir)
           /\ row.lowest = LastOf(values, Unset)
  <2> HIDE DEF blank
  <2> QED
    BY <1>5, RowAfterCells
<1>7. blank # EmptyRow /\ row # EmptyRow
  <2>1. EmptyRow.atoms = Unset
    BY DEF EmptyRow
  <2> HIDE DEF blank, row
  <2> QED
    BY <1>4, <1>5, <1>6, <2>1
<1>8. StoichEntered = WithRow(made, path, RowAfter(RowOf(made, path), found, shared.dir))
  BY <1>1, <1>2, <1>3 DEF StoichEntered, KeyOf, RowOf
<1>9. made = [k \in DOMAIN stoichTable \cup {path} |-> IF k = path THEN blank ELSE stoichTable[k]]
  <2> HIDE DEF blank
  <2> QED
    BY <1>7 DEF WithRow
<1> HIDE DEF made, blank
<1>10. RowOf(made, path) = blank
  BY <1>9 DEF RowOf
<1>11. StoichEntered = WithRow(made, path, row)
  BY <1>8, <1>10
<1> HIDE DEF row
<1>12. StoichEntered = [k \in DOMAIN stoichTable \cup {path} |->
                          IF k = path THEN row ELSE stoichTable[k]]
  <2>1. StoichEntered = [k \in DOMAIN made \cup {path} |-> IF k = path THEN row ELSE made[k]]
    BY <1>7, <1>11 DEF WithRow
  <2> QED
    BY <1>9, <2>1
<1>13. ASSUME row.lowest # Unset
       PROVE  /\ RowIsTrue(row, path, shared.dir)
              /\ Saved(row, shared.dir).atoms = stoich
  <2>1. IsSeq(found)
    BY FieldsOf
  <2>2. \A k \in DOMAIN found : found[k].atoms = stoich /\ IsSavedIn(found[k], path)
    BY DEF PlaceInv, ControlInv
  <2>3. \A k \in DOMAIN found : IsSavedIn(found[k], shared.dir)
    BY SavedAbove DEF PlaceInv
  <2> DEFINE low == row.lowest
             dir == shared.dir
  <2>4. PICK values : /\ DOMAIN values = DOMAIN found
                      /\ \A k \in DOMAIN found : values[k] = RelativeSavePath(found[k], dir)
                      /\ low # Unset /\ low = LastOf(values, Unset)
    BY <1>6, <1>13
  <2>5. IsSeq(dir) /\ ~IsAbsolute(dir) /\ \A k \in DOMAIN found : IsSavedIn(found[k], dir)
    BY <1>2, <2>3
  <2> HIDE DEF low, dir
  <2>6. PICK k \in DOMAIN found :
          /\ found[k].saved # Unset
          /\ [low EXCEPT !.path = Absolute(dir) \o @] = found[k].saved
    <3>1. low # Unset /\ low = LastOf(values, Unset) /\ DOMAIN values = DOMAIN found
      BY <2>4
    <3>2. IsSeq(dir) /\ ~IsAbsolute(dir)
      BY <2>5
    <3>3. \A k \in DOMAIN found : IsSavedIn(found[k], dir)
      BY <2>5
    <3>4. \A k \in DOMAIN found : values[k] = RelativeSavePath(found[k], dir)
      BY <2>4
    <3>5. \E k \in DOMAIN found :
            /\ found[k].saved # Unset
            /\ [low EXCEPT !.path = Absolute(dir) \o @] = found[k].saved
      BY <2>1, <3>1, <3>2, <3>3, <3>4, LowestLeads
    <3> QED
      BY <3>5
  <2>7. /\ found[k].saved \in DOMAIN disk
        /\ IsPrefix(Current \o path, found[k].saved.path)
        /\ disk[found[k].saved].atoms = stoich
    BY <2>2, <2>6 DEF IsSavedIn
  <2>8. Absolute(path) = Current \o path
    BY <1>1 DEF Absolute
  <2> QED
    BY <2>6, <2>7, <2>8 DEF RowIsTrue, Saved, LeadsTo, low, dir
<1> QED
  BY <1>6, <1>12, <1>13 DEF RowIsTrue

LEMMA RowEndRun ==
  ASSUME ControlInv, NameInv, PlaceInv, RowInv, DiskKept, EndRun
  PROVE  RowInv'
<1>1. /\ pc = "pipe" /\ pc' = "stoich" /\ stoichTable' = StoichEntered
      /\ stoich \notin todo /\ ~Skipped(stoich) /\ stoich \in StoichRange
      /\ UNCHANGED <<setting, global, unique, disk, table, shared, todo, stoich>>
  BY DEF EndRun, programVars, RowInv, RunsOnce, ControlInv, TypeOK
<1>2. Ran' = Ran \cup {stoich}
  <2>1. \A n \in StoichRange : n \in Ran' <=> n \in Ran \/ n = stoich
    BY <1>1 DEF Ran
  <2> QED
    BY <1>1, <2>1 DEF Ran
<1>3. ASSUME setting.separate
      PROVE  StoichRows'
  <2>1. PICK path, up, at : path = SweepPath(stoich) /\ up = shared.dir /\ at = stoich
    OBVIOUS
  <2>2. PICK row :
          /\ StoichEntered = [k \in DOMAIN stoichTable \cup {path} |->
                                IF k = path THEN row ELSE stoichTable[k]]
          /\ DOMAIN row = RowFields /\ row.atoms = stoich
          /\ RowIsTrue(row, path, shared.dir)
          /\ row.lowest # Unset => Saved(row, shared.dir).atoms = stoich
    BY <1>1, <1>3, <2>1, RowEntered
  <2>3. \A n : SweepPath(n)' = SweepPath(n)
    BY <1>1, PathsStay
  <2>4. DOMAIN stoichTable = {SweepPath(n) : n \in Ran}
    BY <1>1, <1>3 DEF RowInv, StoichRows
  <2>5. DOMAIN stoichTable' = {SweepPath(n) : n \in Ran'}
    BY <1>1, <1>2, <2>1, <2>2, <2>4
  <2>6. ASSUME NEW n \in Ran, n # stoich
        PROVE  stoichTable'[SweepPath(n)] = stoichTable[SweepPath(n)]
    <3>1. SweepPath(n) # path
      BY <1>3, <2>1, <2>6, SweepPaths
    <3> QED
      BY <1>1, <2>2, <2>4, <3>1
  <2>7. stoichTable'[path] = row
    BY <1>1, <2>2
  <2>8. stoich \notin Ran
    BY <1>1 DEF Ran
  <2>9. ASSUME NEW n \in Ran
        PROVE  LET r == stoichTable'[SweepPath(n)]
               IN /\ DOMAIN r = RowFields /\ r.atoms = n
                  /\ RowIsTrue(r, SweepPath(n), shared.dir)
                  /\ r.lowest # Unset => Saved(r, shared.dir).atoms = n
    <3>1. stoichTable'[SweepPath(n)] = stoichTable[SweepPath(n)]
      BY <2>6, <2>8
    <3> QED
      BY <1>1, <1>3, <3>1 DEF RowInv, StoichRows
  <2>10. ASSUME NEW n \in Ran'
         PROVE  LET r == stoichTable'[SweepPath(n)]
                IN /\ DOMAIN r = RowFields /\ r.atoms = n
                   /\ RowIsTrue(r, SweepPath(n), shared.dir)
                   /\ r.lowest # Unset => Saved(r, shared.dir).atoms = n
    <3>1. CASE n \in Ran
      BY <2>9, <3>1
    <3>2. CASE n = stoich
      BY <2>1, <2>2, <2>7, <3>2
    <3> QED
      BY <1>2, <3>1, <3>2
  <2>11. {SweepPath(n) : n \in Ran}' = {SweepPath(n) : n \in Ran'}
    BY <2>3
  <2> QED
    BY <1>1, <2>3, <2>5, <2>10, <2>11 DEF StoichRows, RowIsTrue, Saved
<1>4. ~setting.separate => StoichRows'
  BY <1>1 DEF StoichRows
<1>5. TableRows'
  BY <1>1, TableRowsStay DEF RowInv
<1>6. TableKeys'
  BY <1>1 DEF RowInv, TableKeys, AtWork
<1>7. RunsOnce'
  BY <1>1 DEF RunsOnce
<1> QED
  BY <1>3, <1>4, <1>5, <1>6, <1>7 DEF RowInv

(* What is below the directory of the sweep is below the program's. *)
LEMMA SavedInCurrent ==
  ASSUME ControlInv, NEW x, IsSavedIn(x, shared.dir)
  PROVE  IsSavedIn(x, <<>>)
<1> SUFFICES ASSUME x.saved # Unset
             PROVE  IsPrefix(Current \o <<>>, x.saved.path)
  BY DEF IsSavedIn
<1> DEFINE up == shared.dir
           path == x.saved.path
<1>1. IsSeq(path) /\ IsPrefix(Current \o up, path)
  BY DEF IsSavedIn
<1>2. IsSeq(up) /\ IsSeq(Current)
  BY WorkingDirs, CurrentDir
<1> HIDE DEF up, path
<1>3. IsPrefix(Current, path)
  BY <1>1, <1>2, PrefixOfPrefix
<1>4. Current \o <<>> = Current
  BY <1>2, JoinedEmpty
<1> QED
  BY <1>3, <1>4 DEF path

(* The row of the parameters at hand. *)
LEMMA ParamsRow ==
  ASSUME ControlInv, NameInv, ParamInv, PlaceInv, AtWork,
         NEW row, row = RowWithParams(EmptyRow, buffer, <<>>)
  PROVE  /\ RowIsTrue(row, shared.dir, <<>>)
         /\ (setting.fits /\ row.lowest # Unset) => Saved(row, <<>>).params = row.params
<1> SUFFICES ASSUME row.lowest # Unset
             PROVE  /\ RowIsTrue(row, shared.dir, <<>>)
                    /\ setting.fits => Saved(row, <<>>).params = row.params
  BY DEF RowIsTrue
<1> DEFINE first == RowAfter(EmptyRow, buffer, <<>>)
           marks == [k \in DOMAIN buffer |-> buffer[k].params]
<1>1. row = [first EXCEPT !.params = LastOf(marks, @)]
  BY DEF RowWithParams
<1>2. EmptyRow.lowest = Unset /\ EmptyRow.params = Unset /\ DOMAIN EmptyRow = RowFields
  BY DEF EmptyRow, RowFields
<1>3. PICK values :
        /\ DOMAIN values = DOMAIN buffer
        /\ \A k \in DOMAIN buffer : values[k] = RelativeSavePath(buffer[k], <<>>)
        /\ first.lowest = LastOf(values, Unset)
  BY <1>2, RowAfterCells
<1>4. DOMAIN first = RowFields /\ first.params = Unset /\ {"params", "lowest"} \subseteq RowFields
  BY <1>2, RowAfterCells
<1>5. DOMAIN marks = DOMAIN buffer /\ \A k \in DOMAIN buffer : marks[k] = buffer[k].params
  OBVIOUS
<1> HIDE DEF first, marks
<1>6. row.lowest = LastOf(values, Unset) /\ row.params = LastOf(marks, Unset)
  BY <1>1, <1>3, <1>4
<1>7. IsSeq(buffer) /\ Len(buffer) \in Nat /\ DOMAIN buffer = 1..Len(buffer)
  <2>1. IsSeq(buffer)
    BY FieldsOf
  <2> QED
    BY <2>1, LenProperties DEF IsSeq
<1>8. \A k \in DOMAIN buffer : IsSavedIn(buffer[k], <<>>)
  BY SavedInCurrent DEF PlaceInv
<1> DEFINE low == row.lowest
<1>9. low # Unset /\ low = LastOf(values, Unset)
  BY <1>6
<1> HIDE DEF low
<1>10. PICK k \in DOMAIN buffer :
         /\ buffer[k].saved # Unset
         /\ [low EXCEPT !.path = Absolute(<<>>) \o @] = buffer[k].saved
  <2> DEFINE dir == <<>>
  <2>1. IsSeq(dir) /\ ~IsAbsolute(dir) /\ \A k \in DOMAIN buffer : IsSavedIn(buffer[k], dir)
    BY <1>8, DirsAreRelative, EmptySeq DEF IsSeq
  <2>2. \A k \in DOMAIN buffer : values[k] = RelativeSavePath(buffer[k], dir)
    BY <1>3
  <2> HIDE DEF dir
  <2>3. \E k \in DOMAIN buffer :
          /\ buffer[k].saved # Unset
          /\ [low EXCEPT !.path = Absolute(dir) \o @] = buffer[k].saved
    <3>1. IsSeq(buffer) /\ DOMAIN values = DOMAIN buffer
      BY <1>3, <1>7
    <3> QED
      BY <1>9, <2>1, <2>2, <3>1, LowestLeads
  <2> QED
    BY <2>3 DEF dir
<1>11. /\ buffer[k].saved \in DOMAIN disk
       /\ IsPrefix(Current \o shared.dir, buffer[k].saved.path)
       /\ setting.fits => disk[buffer[k].saved].params = buffer[k].params
  BY <1>10 DEF PlaceInv, IsSavedIn
<1>12. Absolute(shared.dir) = Current \o shared.dir
  BY WorkingDirs DEF Absolute
<1>13. RowIsTrue(row, shared.dir, <<>>) /\ Saved(row, <<>>) = disk[buffer[k].saved]
  BY <1>10, <1>11, <1>12 DEF RowIsTrue, Saved, LeadsTo, low
<1>14. ASSUME setting.fits
       PROVE  row.params = buffer[k].params
  <2>1. \A j \in DOMAIN buffer : buffer[j].params = held
    BY <1>14 DEF ParamInv
  <2>2. \/ LastOf(marks, Unset) = Unset /\ \A j \in DOMAIN marks : marks[j] = Unset
        \/ \E j \in DOMAIN marks : marks[j] # Unset /\ LastOf(marks, Unset) = marks[j]
    BY <1>5, <1>7, LastIsOne
  <2>3. held # Unset
    BY DEF ControlInv
  <2> QED
    BY <1>5, <1>6, <2>1, <2>2, <2>3
<1> QED
  BY <1>11, <1>13, <1>14

LEMMA RowEndParams ==
  ASSUME ControlInv, NameInv, ParamInv, PlaceInv, RowInv, DiskKept, EndParams
  PROVE  RowInv'
<1>1. PICK path : path = shared.dir
  OBVIOUS
<1>2. PICK row : row = RowWithParams(EmptyRow, buffer, <<>>)
  OBVIOUS
<1>3. /\ pc = "stoich" /\ pc' = "queue" /\ setting.queued
      /\ table' = WithRow(table, path, RowWithParams(RowOf(table, path), buffer, <<>>))
      /\ UNCHANGED <<setting, unique, disk>>
  BY <1>1, WorkingDirs DEF EndParams, programVars
<1>4. AtWork /\ path \notin DOMAIN table
  BY <1>1, <1>3 DEF AtWork, RowInv, TableKeys
<1>5. table' = WithRow(table, path, row)
  BY <1>2, <1>3, <1>4 DEF RowOf
<1>6. /\ RowIsTrue(row, path, <<>>)
      /\ (setting.fits /\ row.lowest # Unset) => Saved(row, <<>>).params = row.params
  BY <1>1, <1>2, <1>4, ParamsRow
<1>7. \A key \in DOMAIN table' :
        \/ key = path /\ table'[key] = row
        \/ key \in DOMAIN table /\ table'[key] = table[key]
  BY <1>5 DEF WithRow
<1>8. TableRows'
  <2>1. ASSUME NEW key \in DOMAIN table'
        PROVE  /\ RowIsTrue(table'[key], key, <<>>)
               /\ (setting.fits /\ table'[key].lowest # Unset) =>
                    Saved(table'[key], <<>>).params = table'[key].params
    BY <1>6, <1>7 DEF RowInv, TableRows
  <2> QED
    BY <1>3, <2>1 DEF TableRows, RowIsTrue, Saved
<1>9. TableKeys'
  <2>1. path \in {ParamsDir(k) : k \in 1..unique}
    BY <1>1, <1>4 DEF AtWork, ControlInv, TypeOK
  <2>2. DOMAIN table' \subseteq DOMAIN table \cup {path}
    BY <1>7
  <2> QED
    BY <1>3, <2>1, <2>2 DEF RowInv, TableKeys, AtWork
<1>10. StoichRows' /\ RunsOnce'
  BY <1>3 DEF StoichRows, RunsOnce
<1> QED
  BY <1>8, <1>9, <1>10 DEF RowInv

LEMMA RowStep ==
  ControlInv /\ NameInv /\ ParamInv /\ PlaceInv /\ RowInv /\ [Next]_vars => RowInv'
<1> SUFFICES ASSUME ControlInv, NameInv, ParamInv, PlaceInv, RowInv, [Next]_vars PROVE RowInv'
  OBVIOUS
<1>1. DiskKept /\ setting' = setting
  BY DiskIsKept, SettingStays
<1>2. CASE NextParams
  BY <1>1, <1>2, RowNextParams
<1>3. CASE SkipStoich \/ RunStoich
  BY <1>1, <1>3, RowTurns
<1>4. CASE Generate \/ \E p \in passing : Optimise(p) \/ Save(p) \/ Finish(p)
  BY <1>1, <1>4, RowPipe
<1>5. CASE EndRun
  BY <1>1, <1>5, RowEndRun
<1>6. CASE EndParams
  BY <1>1, <1>6, RowEndParams
<1>7. CASE EndStoich \/ EndQueue
  <2>1. pc' = "end" /\ UNCHANGED <<table, unique>>
    BY <1>7 DEF EndStoich, EndQueue, programVars, queueVars
  <2>2. TableRows'
    BY <1>1, <2>1, TableRowsStay DEF RowInv
  <2> QED
    BY <2>1, <2>2 DEF RowInv, StoichRows, RunsOnce, TableKeys, AtWork
<1>8. CASE UNCHANGED vars
  <2>1. UNCHANGED <<pc, setting, global, unique, disk, table, shared, todo, stoich, stoichTable>>
    BY <1>8 DEF vars, programVars, queueVars, stoichVars
  <2>2. Ran' = Ran
    BY <2>1 DEF Ran
  <2>3. StoichRows'
    <3>1. CASE pc \in {"stoich", "pipe"}
      BY <1>1, <2>1, <2>2, <3>1, StoichRowsStay DEF RowInv
    <3>2. CASE pc \notin {"stoich", "pipe"}
      BY <2>1, <3>2 DEF StoichRows
    <3> QED
      BY <3>1, <3>2
  <2>4. TableRows'
    BY <1>1, <2>1, TableRowsStay DEF RowInv
  <2> QED
    BY <2>1, <2>3, <2>4 DEF RowInv, RunsOnce, TableKeys, AtWork
<1> QED
  BY <1>2, <1>3, <1>4, <1>5, <1>6, <1>7, <1>8 DEF Next

(* Whatever is saved or fails to be, a path in the table of either block leads
   to a structure on the disk that is below the directory of its row and agrees
   with it on the atoms or the parameters, to the end of the program. *)
THEOREM RowsAlwaysTrue == Spec => []RowsTellTheTruth
<1>1. ControlInv /\ RowInv => RowsTellTheTruth
  <2> SUFFICES ASSUME ControlInv, RowInv PROVE RowsTellTheTruth
    OBVIOUS
  <2>1. WorkingDir(shared, global) = shared.dir /\ WorkingDir(MainShared, global) = <<>>
    BY WorkingDirs
  <2>2. ASSUME setting.separate, NEW key \in DOMAIN stoichTable
        PROVE  stoichTable[key].lowest # Unset =>
                 /\ Saved(stoichTable[key], shared.dir).atoms = stoichTable[key].atoms
                 /\ RowIsTrue(stoichTable[key], key, shared.dir)
    <3>1. pc \in {"stoich", "pipe"}
      BY DEF ControlInv, TypeOK, NoTable
    <3>2. PICK n \in Ran : key = SweepPath(n)
      BY <2>2, <3>1 DEF RowInv, StoichRows
    <3> QED
      BY <2>2, <3>1, <3>2 DEF RowInv, StoichRows
  <2>3. \A key \in DOMAIN table :
          /\ RowIsTrue(table[key], key, <<>>)
          /\ (setting.fits /\ table[key].lowest # Unset) =>
               Saved(table[key], <<>>).params = table[key].params
    BY DEF RowInv, TableRows
  <2> QED
    BY <2>1, <2>2, <2>3 DEF RowsTellTheTruth, RowIsTrue, Saved, LeadsTo
<1> QED
  BY <1>1, ControlInit, ControlStep, NameInit, NameStep, ParamInit, ParamStep,
     PlaceInit, PlaceStep, RowInit, RowStep, PTL DEF Spec

(***************************************************************************)
(* The sweep is complete.                                                  *)
(***************************************************************************)

(* There are finitely many functions between finite sets: each is a set of
   pairs. *)
LEMMA FiniteFunctions ==
  ASSUME NEW S, IsFiniteSet(S), NEW T, IsFiniteSet(T)
  PROVE  IsFiniteSet([S -> T])
<1> DEFINE pairs(f) == {<<x, f[x]>> : x \in S}
           graph == [f \in [S -> T] |-> pairs(f)]
<1>1. IsFiniteSet(SUBSET (S \X T))
  <2>1. IsFiniteSet(S \X T)
    BY FS_Product
  <2> QED
    BY <2>1, FS_SUBSET
<1>2. graph \in [[S -> T] -> SUBSET (S \X T)]
  OBVIOUS
<1>3. ASSUME NEW f \in [S -> T], NEW g \in [S -> T], graph[f] = graph[g]
      PROVE  f = g
  <2>1. ASSUME NEW x \in S
        PROVE  f[x] = g[x]
    <3>1. <<x, f[x]>> \in pairs(g)
      BY <1>3
    <3>2. PICK y \in S : <<x, f[x]>> = <<y, g[y]>>
      BY <3>1
    <3> QED
      BY <3>2
  <2> QED
    BY <2>1
<1>4. graph \in Injection([S -> T], SUBSET (S \X T))
  <2>1. DOMAIN graph = [S -> T]
    OBVIOUS
  <2> HIDE DEF graph
  <2> QED
    BY <1>2, <1>3, <2>1 DEF Injection, IsInjective
<1> HIDE DEF graph
<1> QED
  BY <1>1, <1>4, FS_Injection

(* What a stoichiometry in the ranges adds up to. *)
LEMMA TotalBounds ==
  ASSUME NEW n \in StoichRange
  PROVE  /\ Total(n) \in Nat
         /\ \A p \in Species : n[p] \in Nat /\ n[p] <= Total(n) /\ n[p] \in Ranges[p][1]..Ranges[p][2]
<1>1. ASSUME NEW p \in Species
      PROVE  n[p] \in Nat /\ n[p] \in Ranges[p][1]..Ranges[p][2]
  <2>1. Ranges[p] \in Nat \X Nat
    BY SweepAssumption
  <2>2. Ranges[p][1] \in Nat /\ Ranges[p][2] \in Nat
    BY <2>1
  <2>3. n[p] \in UNION {Ranges[q][1]..Ranges[q][2] : q \in Species}
    BY DEF StoichRange
  <2>4. PICK q \in Species : n[p] \in Ranges[q][1]..Ranges[q][2]
    BY <2>3
  <2>5. n[p] \in Int
    BY <2>4
  <2>6. Ranges[p][1] <= n[p] /\ n[p] < Ranges[p][2] + 1
    BY DEF StoichRange
  <2> QED
    BY <2>2, <2>5, <2>6
<1>2. Total(n) = SumOf(n, Species)
  BY DEF Total, SumOf
<1>3. SumOf(n, Species) \in Nat /\ \A p \in Species : n[p] <= SumOf(n, Species)
  BY <1>1, SumBounds, SweepAssumption
<1> QED
  BY <1>1, <1>2, <1>3

Wanted ==
  {n \in [Species -> 0..MaxAtoms] :
     /\ \A p \in Species : n[p] \in Ranges[p][1]..Ranges[p][2]
     /\ Total(n) \in 1..MaxAtoms}

LEMMA WantedIsFinite == IsFiniteSet(Wanted)
<1>1. IsFiniteSet(0..MaxAtoms)
  BY FS_Interval, SweepAssumption
<1>2. IsFiniteSet([Species -> 0..MaxAtoms])
  BY <1>1, FiniteFunctions, SweepAssumption
<1>3. Wanted \in SUBSET [Species -> 0..MaxAtoms]
  BY DEF Wanted
<1> QED
  BY <1>2, <1>3, FS_Subset

(* The stoichiometries wanted are those that the loop does not skip. *)
LEMMA WantedAreRun == Wanted = {n \in StoichRange : ~Skipped(n)}
<1>1. ASSUME NEW n \in Wanted
      PROVE  n \in StoichRange /\ ~Skipped(n)
  <2>1. /\ n \in [Species -> 0..MaxAtoms] /\ MaxAtoms \in Nat
        /\ \A p \in Species : n[p] \in Ranges[p][1]..Ranges[p][2]
        /\ Total(n) \in 1..MaxAtoms
    BY SweepAssumption DEF Wanted
  <2>2. n \in [Species -> UNION {Ranges[p][1]..Ranges[p][2] : p \in Species}]
    BY <2>1
  <2>3. \A p \in Species : Ranges[p][1] <= n[p] /\ n[p] < Ranges[p][2] + 1
    <3> TAKE p \in Species
    <3>1. Ranges[p] \in Nat \X Nat
      BY SweepAssumption
    <3>2. Ranges[p][1] \in Nat /\ Ranges[p][2] \in Nat
      BY <3>1
    <3>3. n[p] \in Ranges[p][1]..Ranges[p][2]
      BY <2>1
    <3> QED
      BY <3>2, <3>3
  <2>4. ~Skipped(n)
    BY <2>1 DEF Skipped
  <2> QED
    BY <2>2, <2>3, <2>4 DEF StoichRange
<1>2. ASSUME NEW n \in StoichRange, ~Skipped(n)
      PROVE  n \in Wanted
  <2>1. /\ Total(n) \in Nat /\ MaxAtoms \in Nat
        /\ \A p \in Species :
             n[p] \in Nat /\ n[p] <= Total(n) /\ n[p] \in Ranges[p][1]..Ranges[p][2]
    BY TotalBounds, SweepAssumption
  <2>2. Total(n) # 0 /\ ~(Total(n) > MaxAtoms)
    BY <1>2 DEF Skipped
  <2>3. Total(n) \in 1..MaxAtoms
    BY <2>1, <2>2
  <2>4. \A p \in Species : n[p] \in 0..MaxAtoms
    BY <2>1, <2>2
  <2>5. n \in [Species -> 0..MaxAtoms]
    BY <2>4 DEF StoichRange
  <2> QED
    BY <2>1, <2>3, <2>5 DEF Wanted
<1> QED
  BY <1>1, <1>2

(* For any ranges of atoms and any bound on their number, and for each set of
   parameters anew, the sweep has made a row for every stoichiometry within
   the limits when it is through, and no row twice. *)
THEOREM SweepAlwaysComplete == Spec => []SweepIsComplete
<1>1. ControlInv /\ RowInv => SweepIsComplete
  <2> SUFFICES ASSUME ControlInv, RowInv, pc = "stoich", todo = {}, setting.separate
               PROVE  /\ {stoichTable[key].atoms : key \in DOMAIN stoichTable} = Wanted
                      /\ Cardinality(DOMAIN stoichTable) = Cardinality(Wanted)
    BY DEF SweepIsComplete, Wanted
  <2>1. Ran = Wanted
    BY WantedAreRun DEF Ran
  <2>2. /\ DOMAIN stoichTable = {SweepPath(n) : n \in Wanted}
        /\ \A n \in Wanted : stoichTable[SweepPath(n)].atoms = n
    BY <2>1 DEF RowInv, StoichRows
  <2>3. {stoichTable[key].atoms : key \in DOMAIN stoichTable} = Wanted
    BY <2>2
  <2> DEFINE path == [n \in Wanted |-> SweepPath(n)]
  <2>4. path \in [Wanted -> DOMAIN stoichTable] /\ \A n \in Wanted : path[n] = SweepPath(n)
    BY <2>2
  <2>5. \A m, n \in Wanted : path[m] = path[n] => m = n
    BY <2>4, SweepPaths
  <2>6. \A key \in DOMAIN stoichTable : \E n \in Wanted : path[n] = key
    BY <2>2, <2>4
  <2> HIDE DEF path
  <2>7. path \in Bijection(Wanted, DOMAIN stoichTable)
    <3>1. DOMAIN path = Wanted
      BY <2>4
    <3> QED
      BY <2>4, <2>5, <2>6, <3>1 DEF Bijection, Injection, Surjection, IsInjective
  <2>8. Cardinality(DOMAIN stoichTable) = Cardinality(Wanted)
    <3>1. ExistsBijection(Wanted, DOMAIN stoichTable)
      BY <2>7 DEF ExistsBijection
    <3> QED
      BY <3>1, WantedIsFinite, FS_Bijection
  <2> QED
    BY <2>3, <2>8
<1> QED
  BY <1>1, ControlInit, ControlStep, NameInit, NameStep, ParamInit, ParamStep,
     PlaceInit, PlaceStep, RowInit, RowStep, PTL DEF Spec
==============================================================================
