---------------------------- MODULE ProgramProofs ----------------------------
(***************************************************************************)
(* What holds of every run of Program, whatever the documents: a barrier's *)
(* books agree with where the structures are, and each structure ends      *)
(* once.                                                                   *)
(***************************************************************************)
EXTENDS Program, SumProofs

Places == {"moving", "held", "finished", "dropped", "freed"}

(* A structure of the run is a record whose data may be anything. *)
IsEntry(e) ==
  /\ e = [data |-> e.data, where |-> e.where, stage |-> e.stage, line |-> e.line]
  /\ e.where \in Places

Entries(q) ==
  /\ \E S : q \in Seq(S)
  /\ \A i \in DOMAIN q : IsEntry(q[i])

StructuresOK == Entries(structures)

Before == {"args", "exists", "yaml", "define", "schema", "build", "engine"}
Phases == {"initialising", "initialised", "starting"}

(* The pipe is that of the document once it has been built; there are no
   structures before it runs, and what a block keeps is there from the engine
   on; and whoever is at "releasing" is a barrier that was asked. *)
PhaseOK ==
  /\ pc \in Before \cup Phases \cup {"running", "releasing", "exit"}
  /\ document \in Inputs /\ (pipe # <<>> => pipe = Pipe[document] /\ pipe # Unset)
  /\ pc \in Before \cup Phases => structures = <<>>
  /\ pc \in Before => own = <<>>
  /\ pc \in Phases \cup {"running", "releasing"} => DOMAIN own = DOMAIN pipe
  /\ pc = "releasing" => stage \in BarrierStages
  /\ DOMAIN own \subseteq DOMAIN pipe

IsBarrier(b) == b = [store |-> b.store, hull |-> b.hull]

OwnOK ==
  /\ own = [k \in DOMAIN own |-> own[k]]
  /\ \A k \in DOMAIN own : pipe[k].type = "keepStableCompositions" => IsBarrier(own[k])

(* A barrier counts as idle only while nothing moves, and has nothing then,
   but for the hull barrier, which may have nothing that is stable. *)
IdleOK ==
  /\ (\E i \in DOMAIN structures : Moving(i)) => idle = {}
  /\ pc = "releasing" => \A i \in DOMAIN structures : ~Moving(i)
  /\ \A k \in idle \cap DOMAIN own :
       pipe[k].type \in Barriers \ {"keepStableCompositions"} => own[k] = {}

Inv == StructuresOK /\ PhaseOK /\ OwnOK /\ IdleOK /\ BooksAreKept

(* Nothing has been read or made: the invariant of main holds where it begins. *)
THEOREM InitInv == Init => Inv
<1> SUFFICES ASSUME Init PROVE Inv
  OBVIOUS
<1>1. StructuresOK
  <2>1. structures \in Seq({})
    BY DEF Init
  <2> QED
    BY <2>1 DEF Init, StructuresOK, Entries
<1>2. PhaseOK /\ OwnOK /\ IdleOK /\ BooksAreKept
  BY DEF Init, PhaseOK, OwnOK, IdleOK, BooksAreKept, Before, Phases
<1> QED
  BY <1>1, <1>2 DEF Inv

(* Before there is an engine: reading the input and building the pipe. *)
LEMMA BeforeInv ==
  ASSUME Inv, ReadInput \/ BuildPipe
  PROVE  Inv'
<1> USE DEF Before, Phases
<1>1. pc \in Before /\ structures = <<>> /\ own = <<>>
  BY DEF Inv, PhaseOK, ReadInput, BuildPipe, NextStep
<1>2. structures' = <<>> /\ own' = <<>> /\ idle' = idle
  BY <1>1 DEF ReadInput, BuildPipe, Fail, NextStep, flowVars, engineVars
<1>3. pc' \in Before \cup {"exit"}
  BY <1>1 DEF ReadInput, BuildPipe, Fail, NextStep
<1>4. document' \in Inputs /\ (pipe' # <<>> => pipe' = Pipe[document'] /\ pipe' # Unset)
  BY DEF Inv, PhaseOK, ReadInput, BuildPipe, Fail, NextStep, mainVars
<1>5. StructuresOK'
  BY <1>2, <1>1 DEF Inv, StructuresOK
<1>6. PhaseOK' /\ OwnOK' /\ IdleOK' /\ BooksAreKept'
  BY <1>2, <1>3, <1>4 DEF PhaseOK, OwnOK, IdleOK, BooksAreKept, KeepsBook, Moving
<1> QED
  BY <1>5, <1>6 DEF Inv

(* The engine is made, and with it what the blocks keep. *)
LEMMA MakeEngineInv ==
  ASSUME Inv, MakeEngine
  PROVE  Inv'
<1> USE DEF Before, Phases
<1>1. structures = <<>> /\ own = <<>> /\ pc = "engine"
  BY DEF Inv, PhaseOK, MakeEngine
<1>2. structures' = <<>> /\ idle' = idle /\ document' = document /\ pipe' = pipe
  BY <1>1 DEF MakeEngine, Fail, flowVars, mainVars
<1>3. /\ StructuresOK' /\ document' \in Inputs
      /\ pipe' # <<>> => pipe' = Pipe[document'] /\ pipe' # Unset
  BY <1>2, <1>1 DEF Inv, StructuresOK, PhaseOK
<1>4. CASE CreateEngine(Document[document].engine) = Unset
  <2>1. own' = <<>> /\ pc' = "exit"
    BY <1>1, <1>4 DEF MakeEngine, Fail, engineVars
  <2>2. PhaseOK' /\ OwnOK' /\ IdleOK' /\ BooksAreKept'
    BY <2>1, <1>2, <1>3 DEF PhaseOK, OwnOK, IdleOK, BooksAreKept, KeepsBook, Moving
  <2> QED
    BY <2>2, <1>3 DEF Inv
<1>5. CASE CreateEngine(Document[document].engine) # Unset
  <2>1. own' = [k \in DOMAIN pipe |-> New(pipe[k])] /\ pc' = "initialising"
    BY <1>5 DEF MakeEngine
  <2>2. \A k \in DOMAIN own' :
          /\ pipe[k].type \in Barriers \ {"keepStableCompositions"} => own'[k] = {}
          /\ pipe[k].type = "keepStableCompositions" =>
               own'[k] = [store |-> {}, hull |-> Stable!NoHull]
    BY <2>1 DEF New, Stable!NewBarrier
  <2>3. PhaseOK' /\ OwnOK' /\ IdleOK'
    BY <2>1, <2>2, <1>2, <1>3 DEF PhaseOK, OwnOK, IdleOK, IsBarrier, Moving
  <2>4. BooksAreKept'
    BY <2>1, <2>2, <1>2 DEF BooksAreKept, KeepsBook, Held
  <2> QED
    BY <1>3, <2>3, <2>4 DEF Inv
<1> QED
  BY <1>4, <1>5

(* What the phases change belongs to blocks that are no barriers. *)
LEMMA NoBarriers ==
  \A type \in {"loadStructures", "pasteFragment", "geomOptimise", "cutAndPaste",
               "separateAtoms", "writeStructures"} : type \notin Barriers \cup {"keepStableCompositions"}
BY DEF Barriers

(* The phases: only blocks that are no barriers change what they keep. *)
LEMMA PhaseInv ==
  ASSUME Inv, Initialising \/ Initialised \/ Starting
  PROVE  Inv'
<1> USE DEF Before, Phases
<1>1. /\ pc \in Phases /\ structures = <<>>
      /\ structures' = <<>> /\ idle' = idle /\ document' = document /\ pipe' = pipe
  BY DEF Inv, PhaseOK, Initialising, Initialised, Starting, flowVars, mainVars
<1>2. pc' \in Phases \cup {"running"}
  BY <1>1 DEF Initialising, Initialised, Starting, Told, NextPhase
<1>3. /\ DOMAIN own' = DOMAIN own /\ own' = [k \in DOMAIN own' |-> own'[k]]
      /\ \A k \in DOMAIN own :
           pipe[k].type \in Barriers \cup {"keepStableCompositions"} => own'[k] = own[k]
  <2>1. CASE UNCHANGED own
    BY <2>1 DEF Inv, OwnOK
  <2>2. CASE \E v : /\ OwnBecomes(v)
                   /\ pipe[stage].type \notin Barriers \cup {"keepStableCompositions"}
    <3>1. PICK v : OwnBecomes(v)
      BY <2>2
    <3>2. own' = [k \in DOMAIN own |-> IF k = stage THEN v ELSE own[k]]
      BY <3>1 DEF OwnBecomes
    <3> QED
      BY <2>2, <3>2
  <2>3. UNCHANGED own \/ \E v : OwnBecomes(v)
                              /\ pipe[stage].type \notin Barriers \cup {"keepStableCompositions"}
    BY NoBarriers DEF Initialising, ReadOrTuned, Initialised, Starting, Separators
  <2> QED
    BY <2>1, <2>2, <2>3
<1>4. StructuresOK'
  BY <1>1 DEF Inv, StructuresOK
<1>5. PhaseOK' /\ OwnOK' /\ IdleOK'
  BY <1>1, <1>2, <1>3 DEF Inv, PhaseOK, OwnOK, IdleOK, IsBarrier, Moving
<1>6. BooksAreKept'
  BY <1>1, <1>3 DEF Inv, BooksAreKept, KeepsBook, Held
<1> QED
  BY <1>4, <1>5, <1>6 DEF Inv

------------------------------------------------------------------------------
(* What actions do with the structures. *)

(* Whoever is held stays where it is, and only moving structures are new. *)
HeldStay ==
  /\ \A i \in DOMAIN structures :
       /\ i \in DOMAIN structures'
       /\ structures[i].where = "held" <=> structures'[i].where = "held"
       /\ structures[i].where = "held" => structures'[i].stage = structures[i].stage
  /\ \A i \in DOMAIN structures' \ DOMAIN structures : structures'[i].where # "held"

(* A step that neither holds nor lets go of a structure leaves what every
   barrier holds. *)
LEMMA HeldSame == ASSUME HeldStay, NEW k PROVE Held(k)' = Held(k)
BY DEF HeldStay, Held

(* ... and with it the books, if it changes no block. *)
LEMMA BooksStay ==
  ASSUME BooksAreKept, HeldStay, UNCHANGED <<own, pipe>>
  PROVE  BooksAreKept'
<1> SUFFICES ASSUME NEW k \in DOMAIN own
             PROVE  KeepsBook(k)'
  BY DEF BooksAreKept
<1>1. Held(k)' = Held(k)
  BY HeldSame
<1> QED
  BY <1>1 DEF BooksAreKept, KeepsBook

(* A structure goes on to the next block. *)
LEMMA PassedOK ==
  ASSUME StructuresOK, NEW i \in DOMAIN structures, NEW s
  PROVE  /\ Entries(Passed(i, s))
         /\ DOMAIN Passed(i, s) = DOMAIN structures
         /\ Passed(i, s)[i].where = "moving"
         /\ \A j \in DOMAIN structures : j # i => Passed(i, s)[j] = structures[j]
<1> DEFINE e == Entry(s, structures[i].stage + 1, structures[i].line)
           passed == Passed(i, s)
<1>1. PICK S : structures \in Seq(S)
  BY DEF StructuresOK, Entries
<1>2. IsEntry(e) /\ e.where = "moving"
  BY DEF IsEntry, Entry, Places
<1>3. passed = [structures EXCEPT ![i] = e]
  BY DEF Passed
<1> HIDE DEF e, passed
<1>4. passed \in Seq(S \cup {e})
  BY <1>1, <1>3
<1>5. /\ DOMAIN passed = DOMAIN structures
      /\ passed[i] = e
      /\ \A j \in DOMAIN structures : j # i => passed[j] = structures[j]
  BY <1>1, <1>3
<1>6. Entries(passed)
  BY <1>2, <1>4, <1>5 DEF StructuresOK, Entries
<1> QED
  BY <1>2, <1>5, <1>6 DEF passed

(* Some structures are put to a place. *)
LEMMA PutOK ==
  ASSUME StructuresOK, NEW these, NEW where \in Places
  PROVE  /\ Entries(Put(these, where))
         /\ DOMAIN Put(these, where) = DOMAIN structures
         /\ \A j \in DOMAIN structures :
              /\ Put(these, where)[j].stage = structures[j].stage
              /\ Put(these, where)[j].where = IF j \in these THEN where ELSE structures[j].where
              /\ j \notin these => Put(these, where)[j] = structures[j]
<1> DEFINE to(e) == [data |-> e.data, where |-> where, stage |-> e.stage, line |-> e.line]
           put == Put(these, where)
<1>1. PICK S : structures \in Seq(S)
  BY DEF StructuresOK, Entries
<1>2. \A j \in DOMAIN structures : IsEntry(structures[j]) /\ IsEntry(to(structures[j]))
  BY DEF StructuresOK, Entries, IsEntry
<1>3. put = [j \in DOMAIN structures |->
               IF j \in these THEN to(structures[j]) ELSE structures[j]]
  BY <1>2 DEF Put, IsEntry
<1> HIDE DEF put
<1>4. put \in Seq(S \cup {to(structures[j]) : j \in DOMAIN structures})
  BY <1>1, <1>3
<1>5. Entries(put)
  BY <1>2, <1>3, <1>4 DEF Entries
<1> QED
  BY <1>2, <1>3, <1>5 DEF put

(* Structures come in behind those there are. *)
LEMMA JoinedOK ==
  ASSUME NEW q, Entries(q), NEW T, NEW more \in Seq(T),
         \A j \in DOMAIN more : IsEntry(more[j]) /\ more[j].where = "moving"
  PROVE  /\ Entries(q \o more)
         /\ DOMAIN q \subseteq DOMAIN (q \o more)
         /\ \A j \in DOMAIN q : (q \o more)[j] = q[j]
         /\ \A j \in DOMAIN (q \o more) \ DOMAIN q : (q \o more)[j].where = "moving"
<1>1. PICK S : q \in Seq(S)
  BY DEF Entries
<1> DEFINE all == q \o more
<1>2. all \in Seq(S \cup T)
  BY <1>1
<1>3. /\ DOMAIN all = 1..(Len(q) + Len(more)) /\ DOMAIN q = 1..Len(q) /\ Len(q) \in Nat
      /\ \A j \in DOMAIN q : all[j] = q[j]
      /\ \A j \in DOMAIN all \ DOMAIN q : j - Len(q) \in DOMAIN more /\ all[j] = more[j - Len(q)]
  BY <1>1
<1> HIDE DEF all
<1>4. \A j \in DOMAIN all : IsEntry(all[j])
  BY <1>3 DEF Entries
<1>5. Entries(all)
  BY <1>2, <1>4 DEF Entries
<1>6. DOMAIN q \subseteq DOMAIN all /\ \A j \in DOMAIN all \ DOMAIN q : all[j].where = "moving"
  BY <1>1, <1>3
<1> QED
  BY <1>3, <1>5, <1>6 DEF all

(* Structure i goes to one of some places, and nobody else is touched. *)
Goes(i, places) ==
  /\ StructuresOK'
  /\ structures'[i].where \in places
  /\ DOMAIN structures \subseteq DOMAIN structures'
  /\ \A j \in DOMAIN structures : j # i => structures'[j] = structures[j]
  /\ \A j \in DOMAIN structures' \ DOMAIN structures : structures'[j].where = "moving"

(* A structure that is passed on is the only one that moves. *)
LEMMA PassOnGoes ==
  ASSUME StructuresOK, NEW i \in DOMAIN structures, NEW s, structures' = Passed(i, s)
  PROVE  Goes(i, {"moving"}) /\ DOMAIN structures' = DOMAIN structures
BY PassedOK DEF Goes, StructuresOK

(* The same for one that is put somewhere: into a barrier, on the heap, or to
   the end of the pipe. *)
LEMMA PutGoes ==
  ASSUME StructuresOK, NEW i \in DOMAIN structures, NEW where \in Places,
         structures' = Put({i}, where)
  PROVE  Goes(i, {where}) /\ DOMAIN structures' = DOMAIN structures
<1>1. /\ Entries(Put({i}, where)) /\ DOMAIN Put({i}, where) = DOMAIN structures
      /\ Put({i}, where)[i].where = where
      /\ \A j \in DOMAIN structures : j # i => Put({i}, where)[j] = structures[j]
  BY PutOK
<1> QED
  BY <1>1 DEF Goes, StructuresOK

(* The number of clones is a number, whatever the option says. *)
LEMMA CloneGoes ==
  ASSUME Inv, NEW i \in DOMAIN structures, Clone(i)
  PROVE  Goes(i, {"moving"})
<1>1. \A times \in IF OptionsAt(i).times = Garbage THEN GarbageTimes ELSE {OptionsAt(i).times} :
        times \in Int
  <2>1. Here(i) \in DOMAIN pipe /\ pipe[Here(i)].type = "clone"
    BY DEF Clone, At, Here
  <2>2. pipe = Pipe[document] /\ pipe # Unset /\ document \in Inputs
    BY <2>1 DEF Inv, PhaseOK
  <2> QED
    BY <2>1, <2>2, ProgramAssumption DEF OptionsAt
<1> DEFINE names(times) == [k \in 1..(IF times > 1 THEN times ELSE 1) |-> Fresh(k)]
           named == OptionsAt(i).giveUniqueNames # FALSE
           out(times) == Cloned(Data(i), times, named, names(times))
           clones(times) == [k \in 1..(Len(out(times)) - 1) |->
                               Entry(out(times)[k + 1], Here(i) + 1,
                                     structures[i].line \cup {Len(structures) + k})]
<1>2. PICK times \in IF OptionsAt(i).times = Garbage THEN GarbageTimes ELSE {OptionsAt(i).times} :
        structures' = Passed(i, out(times)[1]) \o clones(times)
  BY DEF Clone
<1>3. times \in Int
  BY <1>1
<1>4. Len(out(times)) \in Nat \ {0}
  <2> DEFINE n == IF times > 1 THEN times ELSE 1
             each == [k \in 1..n |-> IF named THEN Named(Data(i), names(times)[k]) ELSE Data(i)]
  <2>1. n \in Nat \ {0}
    BY <1>3
  <2>2. out(times) = each
    BY DEF Cloned
  <2> HIDE DEF n
  <2>3. Len(each) = n
    BY <2>1
  <2> QED
    BY <2>1, <2>2, <2>3
<1> HIDE DEF out
<1> DEFINE more == clones(times)
           q == Passed(i, out(times)[1])
<1>5. /\ more \in Seq({more[j] : j \in DOMAIN more})
      /\ \A j \in DOMAIN more : IsEntry(more[j]) /\ more[j].where = "moving"
  <2> DEFINE m == Len(out(times)) - 1
             e(k) == Entry(out(times)[k + 1], Here(i) + 1,
                           structures[i].line \cup {Len(structures) + k})
  <2>1. m \in Nat
    BY <1>4
  <2>2. \A k \in 1..m : IsEntry(e(k)) /\ e(k).where = "moving"
    BY DEF IsEntry, Entry, Places
  <2> HIDE DEF m, e
  <2>3. more = [k \in 1..m |-> e(k)]
    BY DEF m, e
  <2> HIDE DEF more
  <2> QED
    BY <2>1, <2>2, <2>3
<1>6. Entries(q) /\ DOMAIN q = DOMAIN structures /\ q[i].where = "moving"
      /\ \A j \in DOMAIN structures : j # i => q[j] = structures[j]
  BY PassedOK DEF Inv
<1>7. structures' = q \o more
  BY <1>2
<1> HIDE DEF more, q
<1> QED
  BY <1>5, <1>6, <1>7, JoinedOK DEF Goes, StructuresOK

(* A block that holds nothing passes a structure on or drops it. *)
LEMMA StreamGoes ==
  ASSUME Inv, NEW i \in DOMAIN structures, Stream(i)
  PROVE  /\ \/ Goes(i, {"moving"})
            \/ Goes(i, {"dropped"}) /\ DOMAIN structures' = DOMAIN structures
         /\ pc = "running" /\ Moving(i)
         /\ UNCHANGED <<pc, stage, document, pipe, own, idle>>
<1>1. CASE \/ AutoScale(i) \/ Rescale(i) \/ NiggliReduce(i) \/ FindSymmetryGroup(i)
           \/ PasteFragment(i) \/ SeparateAtoms(i) \/ CutAndPaste(i) \/ LetThrough(i)
  <2>1. /\ pc = "running" /\ Moving(i)
        /\ \E s : PassOn(i, s)
    BY <1>1 DEF AutoScale, Rescale, NiggliReduce, FindSymmetryGroup, PasteFragment,
               SeparateAtoms, CutAndPaste, LetThrough, At
  <2>2. PICK s : PassOn(i, s)
    BY <2>1
  <2>3. Goes(i, {"moving"})
    BY <2>2, PassOnGoes DEF PassOn, Inv
  <2> QED
    BY <2>1, <2>2, <2>3 DEF PassOn, mainVars, engineVars
<1>2. CASE Clone(i)
  <2>1. Goes(i, {"moving"})
    BY <1>2, CloneGoes
  <2> QED
    BY <1>2, <2>1 DEF Clone, At, mainVars
<1>3. CASE GeomOptimise(i)
  <2>1. (\E s : structures' = Passed(i, s)) \/ structures' = Put({i}, "dropped")
    BY <1>3 DEF GeomOptimise
  <2>2. \/ Goes(i, {"moving"})
        \/ Goes(i, {"dropped"}) /\ DOMAIN structures' = DOMAIN structures
    BY <2>1, PassOnGoes, PutGoes DEF Inv, Places
  <2> QED
    BY <1>3, <2>2 DEF GeomOptimise, At, mainVars, engineVars
<1>4. CASE WriteStructures(i)
  <2>1. \E s : structures' = Passed(i, s)
    BY <1>4 DEF WriteStructures
  <2>2. Goes(i, {"moving"})
    BY <2>1, PassOnGoes DEF Inv
  <2> QED
    BY <1>4, <2>2 DEF WriteStructures, At, mainVars
<1> QED
  BY <1>1, <1>2, <1>3, <1>4 DEF Stream

(* If one that moves goes on, is dropped or comes to the end, the books stay. *)
LEMMA GoesInv ==
  ASSUME Inv, NEW i \in DOMAIN structures, Moving(i), pc = "running",
         Goes(i, {"moving", "dropped", "finished"}),
         UNCHANGED <<pc, stage, document, pipe, own, idle>>
  PROVE  Inv'
<1>1. HeldStay
  BY DEF Goes, HeldStay, Moving
<1>2. BooksAreKept'
  BY <1>1, BooksStay DEF Inv
<1>3. PhaseOK' /\ OwnOK'
  BY DEF Inv, PhaseOK, OwnOK, IsBarrier, BarrierStages, Before, Phases
<1>4. idle = {}
  BY DEF Inv, IdleOK
<1>5. IdleOK'
  BY <1>4 DEF IdleOK
<1> QED
  BY <1>2, <1>3, <1>5 DEF Inv, Goes

(* A block that is no barrier preserves the invariant. *)
LEMMA StreamInv ==
  ASSUME Inv, NEW i \in DOMAIN structures, Stream(i)
  PROVE  Inv'
<1>1. Goes(i, {"moving", "dropped", "finished"})
  BY StreamGoes DEF Goes
<1> QED
  BY <1>1, StreamGoes, GoesInv

(* So does a structure that comes out at the end of the pipe. *)
LEMMA FinishInv ==
  ASSUME Inv, NEW i \in DOMAIN structures, Finish(i)
  PROVE  Inv'
<1>1. Goes(i, {"finished"})
  BY PutGoes DEF Finish, Inv, Places
<1>2. Goes(i, {"moving", "dropped", "finished"})
  BY <1>1 DEF Goes
<1>3. pc = "running" /\ Moving(i) /\ UNCHANGED <<pc, stage, document, pipe, own, idle>>
  BY DEF Finish, mainVars, engineVars
<1> QED
  BY <1>2, <1>3, GoesInv

(* The start block sends a structure into the pipe, which is moving. *)
LEMMA SendJoins ==
  ASSUME StructuresOK, NEW s, Send(s)
  PROVE  /\ StructuresOK' /\ idle' = {}
         /\ DOMAIN structures \subseteq DOMAIN structures'
         /\ \A j \in DOMAIN structures : structures'[j] = structures[j]
         /\ \A j \in DOMAIN structures' \ DOMAIN structures : structures'[j].where = "moving"
<1> DEFINE e == Entry(s, 2, {Len(structures) + 1})
<1>1. IsEntry(e) /\ e.where = "moving"
  BY DEF IsEntry, Entry, Places
<1>2. structures' = Append(structures, e) /\ idle' = {}
  BY DEF Send
<1> HIDE DEF e
<1>3. PICK S : structures \in Seq(S)
  BY DEF StructuresOK, Entries
<1>4. /\ structures' \in Seq(S \cup {e})
      /\ DOMAIN structures \subseteq DOMAIN structures'
      /\ \A j \in DOMAIN structures : structures'[j] = structures[j]
      /\ \A j \in DOMAIN structures' \ DOMAIN structures : structures'[j] = e
  BY <1>2, <1>3
<1>5. StructuresOK'
  BY <1>1, <1>4 DEF StructuresOK, Entries
<1> QED
  BY <1>1, <1>2, <1>4, <1>5

(* A start block makes a structure or makes none, and does nothing else. *)
LEMMA StartJoins ==
  ASSUME Start
  PROVE  /\ UNCHANGED <<structures, idle>> \/ \E s : Send(s)
         /\ pc = "running" /\ UNCHANGED <<pc, stage, document, pipe, own>>
<1>1. UNCHANGED <<structures, idle>> \/ \E s : Send(s)
  BY DEF Start
<1> QED
  BY <1>1 DEF Start, mainVars

(* A start block preserves the invariant: what it makes is held by nobody. *)
LEMMA StartInv ==
  ASSUME Inv, Start
  PROVE  Inv'
<1>1. pc = "running" /\ UNCHANGED <<pc, stage, document, pipe, own>>
  BY StartJoins
<1>2. /\ StructuresOK' /\ idle' \in {idle, {}} /\ HeldStay
      /\ (idle' = {} \/ structures' = structures)
  <2>1. CASE UNCHANGED <<structures, idle>>
    BY <2>1 DEF Inv, StructuresOK, HeldStay
  <2>2. CASE \E s : Send(s)
    BY <2>2, SendJoins DEF Inv, HeldStay
  <2> QED
    BY <2>1, <2>2, StartJoins
<1>3. BooksAreKept'
  BY <1>1, <1>2, BooksStay DEF Inv
<1>4. PhaseOK' /\ OwnOK'
  BY <1>1 DEF Inv, PhaseOK, OwnOK, IsBarrier, BarrierStages, Before, Phases
<1>5. IdleOK'
  BY <1>1, <1>2 DEF Inv, IdleOK, Moving
<1> QED
  BY <1>2, <1>3, <1>4, <1>5 DEF Inv

------------------------------------------------------------------------------
(* Barriers. *)

(* While one moves no barrier is idle, and one barrier's books change. *)
LEMMA KeepStableInInv ==
  ASSUME Inv, NEW i \in DOMAIN structures, KeepStableIn(i)
  PROVE  Inv'
<1>0. PICK k : k = Here(i)
  OBVIOUS
<1>1. /\ pc = "running" /\ Moving(i) /\ k \in DOMAIN pipe
      /\ pipe[k].type = "keepStableCompositions"
      /\ own' = [own EXCEPT ![k] = [store |-> own[k].store \cup {i}, hull |-> Stable!NoHull]]
      /\ structures' = Put({i}, "held")
      /\ UNCHANGED <<pc, stage, document, pipe, idle>>
  BY <1>0 DEF KeepStableIn, At, Here, Stable!In, mainVars
<1>2. DOMAIN own = DOMAIN pipe /\ idle = {} /\ own = [j \in DOMAIN own |-> own[j]]
  BY <1>1 DEF Inv, PhaseOK, IdleOK, OwnOK
<1>3. /\ StructuresOK' /\ DOMAIN structures' = DOMAIN structures
      /\ \A j \in DOMAIN structures :
           /\ structures'[j].stage = structures[j].stage
           /\ structures'[j].where = IF j = i THEN "held" ELSE structures[j].where
  <2>1. "held" \in Places /\ StructuresOK
    BY DEF Places, Inv
  <2> QED
    BY <1>1, <2>1, PutOK DEF StructuresOK
<1>4. Held(k)' = Held(k) \cup {i}
  BY <1>0, <1>3 DEF Held, Here
<1>5. \A m \in DOMAIN pipe \ {k} : Held(m)' = Held(m)
  BY <1>0, <1>3, <1>1 DEF Held, Here, Moving
<1>6. /\ DOMAIN own' = DOMAIN own
      /\ own'[k] = [store |-> own[k].store \cup {i}, hull |-> Stable!NoHull]
      /\ \A m \in DOMAIN own \ {k} : own'[m] = own[m]
  BY <1>1, <1>2
<1>7. OwnOK'
  BY <1>1, <1>2, <1>6 DEF Inv, OwnOK, IsBarrier
<1>8. PhaseOK' /\ IdleOK'
  BY <1>1, <1>2, <1>6 DEF Inv, PhaseOK, IdleOK, Before, Phases
<1>9. BooksAreKept'
  <2> SUFFICES ASSUME NEW m \in DOMAIN own
      PROVE  KeepsBook(m)'
    BY <1>1, <1>6 DEF BooksAreKept
  <2>0. KeepsBook(m)
    BY DEF Inv, BooksAreKept
  <2>1. CASE m = k
    <3>1. own[k].store = Held(k)
      BY <2>0, <2>1, <1>1 DEF KeepsBook
    <3>2. own'[k].store = Held(k)' /\ own'[k].hull = Stable!NoHull
      BY <3>1, <1>4, <1>6
    <3> QED
      BY <3>2, <2>1, <1>1 DEF KeepsBook
  <2>2. CASE m # k
    <3>1. own'[m] = own[m] /\ Held(m)' = Held(m)
      BY <2>2, <1>2, <1>5, <1>6
    <3> QED
      BY <2>0, <3>1, <1>1 DEF KeepsBook
  <2> QED
    BY <2>1, <2>2
<1> QED
  BY <1>3, <1>7, <1>8, <1>9 DEF Inv

(* An entry at another place, or at another place and block. *)
Moved(e, where, k) == [data |-> e.data, where |-> where, stage |-> k, line |-> e.line]

(* A structure of which only place and stage change stays one. *)
LEMMA MovedOK ==
  ASSUME NEW e, IsEntry(e), NEW where \in Places, NEW k
  PROVE  /\ [e EXCEPT !.where = where] = Moved(e, where, e.stage)
         /\ IsEntry(Moved(e, where, k))
<1>1. IsEntry(Moved(e, where, k))
  BY DEF IsEntry, Moved
<1>2. [e EXCEPT !.where = where] = Moved(e, where, e.stage)
  BY DEF IsEntry, Moved
<1> QED
  BY <1>1, <1>2

(* ... and so does the list, if that is all that happens to any of them. *)
LEMMA PlacedOK ==
  ASSUME StructuresOK, NEW q, q = [j \in DOMAIN structures |-> q[j]],
         \A j \in DOMAIN structures : q[j] # structures[j] =>
           \E where \in Places : \E k : q[j] = Moved(structures[j], where, k)
  PROVE  Entries(q)
<1>1. PICK S : structures \in Seq(S)
  BY DEF StructuresOK, Entries
<1>2. \A j \in DOMAIN structures : IsEntry(q[j])
  <2> SUFFICES ASSUME NEW j \in DOMAIN structures PROVE IsEntry(q[j])
    OBVIOUS
  <2>1. CASE q[j] = structures[j]
    BY <2>1 DEF StructuresOK, Entries
  <2>2. CASE q[j] # structures[j]
    <3>1. PICK where \in Places : \E k : q[j] = Moved(structures[j], where, k)
      BY <2>2
    <3> QED
      BY <3>1 DEF IsEntry, Moved
  <2> QED
    BY <2>1, <2>2
<1>3. q \in Seq({q[j] : j \in DOMAIN structures})
  BY <1>1
<1> QED
  BY <1>2, <1>3 DEF Entries

(* The other barriers drop some of what they hold when one comes in. *)
LEMMA KeepInPuts ==
  ASSUME Inv, NEW i \in DOMAIN structures, KeepIn(i)
  PROVE  /\ pc = "running" /\ Moving(i) /\ Here(i) \in DOMAIN pipe
         /\ pipe[Here(i)].type \in Barriers \ {"keepStableCompositions"}
         /\ UNCHANGED <<pc, stage, document, pipe, idle>>
         /\ StructuresOK' /\ DOMAIN structures' = DOMAIN structures
         /\ \E some \in SUBSET (Held(Here(i)) \cup {i}) :
              /\ own' = [own EXCEPT ![Here(i)] = (@ \cup {i}) \ some]
              /\ \A j \in DOMAIN structures :
                   /\ structures'[j].stage = structures[j].stage
                   /\ structures'[j].where = IF j \in some THEN "dropped"
                                             ELSE IF j = i THEN "held" ELSE structures[j].where
<1>1. /\ pc = "running" /\ Moving(i) /\ Here(i) \in DOMAIN pipe
      /\ pipe[Here(i)].type \in Barriers \ {"keepStableCompositions"}
      /\ UNCHANGED <<pc, stage, document, pipe, idle>>
  BY DEF KeepIn, Keepers, Barriers, At, Here, mainVars
<1>2. own[Here(i)] = Held(Here(i))
  BY <1>1 DEF Inv, PhaseOK, BooksAreKept, KeepsBook
<1>3. PICK some \in SUBSET (Held(Here(i)) \cup {i}) :
        /\ own' = [own EXCEPT ![Here(i)] = (@ \cup {i}) \ some]
        /\ structures' = [j \in DOMAIN structures |->
                            IF j \in some THEN [structures[j] EXCEPT !.where = "dropped"]
                            ELSE IF j = i THEN [structures[j] EXCEPT !.where = "held"]
                            ELSE structures[j]]
  BY <1>2 DEF KeepIn
<1>4. \A j \in DOMAIN structures :
        /\ IsEntry(structures[j])
        /\ [structures[j] EXCEPT !.where = "dropped"]
              = Moved(structures[j], "dropped", structures[j].stage)
        /\ [structures[j] EXCEPT !.where = "held"]
              = Moved(structures[j], "held", structures[j].stage)
  BY MovedOK DEF Inv, StructuresOK, Entries, Places
<1>5. structures' = [j \in DOMAIN structures |->
                       IF j \in some THEN Moved(structures[j], "dropped", structures[j].stage)
                       ELSE IF j = i THEN Moved(structures[j], "held", structures[j].stage)
                       ELSE structures[j]]
  BY <1>3, <1>4
<1>6. StructuresOK'
  <2>1. StructuresOK /\ "dropped" \in Places /\ "held" \in Places
    BY DEF Inv, Places
  <2>2. structures' = [j \in DOMAIN structures |-> structures'[j]]
    BY <1>5
  <2>3. \A j \in DOMAIN structures : structures'[j] # structures[j] =>
           \E where \in Places : \E k : structures'[j] = Moved(structures[j], where, k)
    BY <1>5, <2>1
  <2> QED
    BY <2>1, <2>2, <2>3, PlacedOK DEF StructuresOK
<1>7. \A j \in DOMAIN structures :
        /\ structures'[j].stage = structures[j].stage
        /\ structures'[j].where = IF j \in some THEN "dropped"
                                  ELSE IF j = i THEN "held" ELSE structures[j].where
  BY <1>5 DEF Moved
<1> QED
  BY <1>1, <1>3, <1>5, <1>6, <1>7

(* The other barriers preserve the invariant when a structure comes in: each
   sends away a part of what it held and of what came, and keeps the rest. *)
LEMMA KeepInInv ==
  ASSUME Inv, NEW i \in DOMAIN structures, KeepIn(i)
  PROVE  Inv'
<1>0. PICK k : k = Here(i)
  OBVIOUS
<1>1. /\ pc = "running" /\ Moving(i) /\ k \in DOMAIN pipe
      /\ pipe[k].type \in Barriers \ {"keepStableCompositions"}
      /\ UNCHANGED <<pc, stage, document, pipe, idle>>
      /\ StructuresOK' /\ DOMAIN structures' = DOMAIN structures
  BY <1>0, KeepInPuts
<1>2. PICK some \in SUBSET (Held(k) \cup {i}) :
        /\ own' = [own EXCEPT ![k] = (@ \cup {i}) \ some]
        /\ \A j \in DOMAIN structures :
             /\ structures'[j].stage = structures[j].stage
             /\ structures'[j].where = IF j \in some THEN "dropped"
                                       ELSE IF j = i THEN "held" ELSE structures[j].where
  BY <1>0, KeepInPuts
<1>3. DOMAIN own = DOMAIN pipe /\ idle = {} /\ own = [j \in DOMAIN own |-> own[j]]
  BY <1>1 DEF Inv, PhaseOK, IdleOK, OwnOK
<1>4. own[k] = Held(k)
  BY <1>1, <1>3 DEF Inv, BooksAreKept, KeepsBook
<1>5. Held(k)' = (Held(k) \cup {i}) \ some
  BY <1>0, <1>1, <1>2 DEF Held, Here
<1>6. \A m \in DOMAIN pipe \ {k} : Held(m)' = Held(m)
  BY <1>0, <1>1, <1>2 DEF Held, Here, Moving
<1>7. /\ DOMAIN own' = DOMAIN own /\ own' = [j \in DOMAIN own' |-> own'[j]]
      /\ own'[k] = Held(k)'
      /\ \A m \in DOMAIN own \ {k} : own'[m] = own[m]
  <2>1. own' = [j \in DOMAIN own |-> IF j = k THEN (own[k] \cup {i}) \ some ELSE own[j]]
    BY <1>2
  <2> QED
    BY <2>1, <1>1, <1>3, <1>4, <1>5
<1>8. OwnOK'
  BY <1>1, <1>7 DEF Inv, OwnOK, IsBarrier
<1>9. PhaseOK' /\ IdleOK'
  BY <1>1, <1>3, <1>7 DEF Inv, PhaseOK, IdleOK, Before, Phases
<1>10. BooksAreKept'
  <2> SUFFICES ASSUME NEW m \in DOMAIN own PROVE KeepsBook(m)'
    BY <1>7 DEF BooksAreKept
  <2>1. CASE m = k
    BY <2>1, <1>1, <1>7 DEF KeepsBook
  <2>2. CASE m # k
    <3>1. KeepsBook(m) /\ own'[m] = own[m] /\ Held(m)' = Held(m)
      BY <2>2, <1>3, <1>6, <1>7 DEF Inv, BooksAreKept
    <3> QED
      BY <3>1, <1>1 DEF KeepsBook
  <2> QED
    BY <2>1, <2>2
<1> QED
  BY <1>1, <1>8, <1>9, <1>10 DEF Inv

(* hasData leaves the barrier as it was or with a hull of its whole store. *)
LEMMA HullIsOfTheStore ==
  ASSUME NEW k, pipe[k].type = "keepStableCompositions", NEW reply \in Answers(k)
  PROVE  \/ reply.barrier = own[k]
         \/ \E stable \in SUBSET own[k].store :
              reply.barrier = [store |-> own[k].store,
                               hull |-> [of |-> own[k].store, stable |-> stable]]
<1>1. PICK b : b = own[k]
  OBVIOUS
<1>2. PICK withEnergy, endpoints : reply \in Stable!HasData(b, withEnergy, endpoints)
  BY <1>1 DEF Answers
<1>3. CASE reply \in {[answer |-> FALSE, barrier |-> b], [answer |-> TRUE, barrier |-> b]}
  BY <1>1, <1>3
<1>4. CASE \E stable \in SUBSET (b.store \cap withEnergy) :
             reply = [answer |-> stable # {},
                      barrier |-> [store |-> b.store,
                                   hull |-> [of |-> b.store, stable |-> stable]]]
  <2>1. PICK stable \in SUBSET (b.store \cap withEnergy) : \E answer :
          reply = [answer |-> answer,
                   barrier |-> [store |-> b.store,
                                hull |-> [of |-> b.store, stable |-> stable]]]
    BY <1>4
  <2>2. reply.barrier = [store |-> b.store, hull |-> [of |-> b.store, stable |-> stable]]
    BY <2>1
  <2> QED
    BY <1>1, <2>2
<1> QED
  BY <1>2, <1>3, <1>4 DEF Stable!HasData

(* Asking a barrier changes at most its hull, which is then one of all it has. *)
LEMMA AskInv ==
  ASSUME Inv, NEW k \in BarrierStages, Ask(k)
  PROVE  Inv'
<1>1. /\ pc = "running" /\ k \in DOMAIN pipe /\ pipe[k].type \in Barriers
      /\ \A i \in DOMAIN structures : ~Moving(i)
      /\ UNCHANGED <<document, pipe, structures>>
  BY DEF Ask, Quiet, BarrierStages, mainVars
<1>2. PICK reply \in Answers(k) :
        /\ own' = [own EXCEPT ![k] = reply.barrier]
        /\ IF reply.answer THEN pc' = "releasing" /\ stage' = k /\ UNCHANGED idle
           ELSE idle' = idle \cup {k} /\ UNCHANGED <<pc, stage>>
  BY DEF Ask
<1>3. DOMAIN own = DOMAIN pipe /\ own = [j \in DOMAIN own |-> own[j]]
  BY <1>1 DEF Inv, PhaseOK, OwnOK
<1>4. /\ DOMAIN own' = DOMAIN own /\ own' = [j \in DOMAIN own' |-> own'[j]]
      /\ own'[k] = reply.barrier
      /\ \A m \in DOMAIN own \ {k} : own'[m] = own[m]
  BY <1>1, <1>2, <1>3
<1>5. \A m : Held(m)' = Held(m)
  BY <1>1 DEF Held
<1>6. KeepsBook(k)
  BY <1>1, <1>3 DEF Inv, BooksAreKept
<1>7. /\ KeepsBook(k)'
      /\ pipe[k].type = "keepStableCompositions" => IsBarrier(own'[k])
      /\ pipe[k].type # "keepStableCompositions" =>
           own'[k] = own[k] /\ (~reply.answer => own[k] = {})
  <2>1. CASE pipe[k].type = "keepStableCompositions"
    <3>1. IsBarrier(own[k]) /\ own[k].store = Held(k)
      BY <2>1, <1>1, <1>3, <1>6 DEF Inv, OwnOK, KeepsBook
    <3>2. \/ reply.barrier = own[k]
          \/ \E stable \in SUBSET own[k].store :
               reply.barrier = [store |-> own[k].store,
                                hull |-> [of |-> own[k].store, stable |-> stable]]
      BY <2>1, HullIsOfTheStore
    <3>3. CASE reply.barrier = own[k]
      BY <3>1, <3>3, <2>1, <1>1, <1>4, <1>5, <1>6 DEF KeepsBook
    <3>4. CASE \E stable \in SUBSET own[k].store :
                 reply.barrier = [store |-> own[k].store,
                                  hull |-> [of |-> own[k].store, stable |-> stable]]
      <4>1. PICK stable \in SUBSET own[k].store :
              reply.barrier = [store |-> own[k].store,
                               hull |-> [of |-> own[k].store, stable |-> stable]]
        BY <3>4
      <4>2. own'[k] = [store |-> own[k].store, hull |-> [of |-> own[k].store, stable |-> stable]]
        BY <4>1, <3>1, <1>4 DEF IsBarrier
      <4>3. IsBarrier(own'[k]) /\ own'[k].store = Held(k) /\ own'[k].hull.of = Held(k)
            /\ own'[k].hull.stable \subseteq Held(k)
        BY <4>2, <3>1 DEF IsBarrier
      <4> QED
        BY <4>3, <2>1, <1>1, <1>5 DEF KeepsBook
    <3> QED
      BY <3>2, <3>3, <3>4
  <2>2. CASE pipe[k].type # "keepStableCompositions"
    <3>1. reply = [answer |-> own[k] # {}, barrier |-> own[k]]
      BY <2>2 DEF Answers
    <3> QED
      BY <2>2, <3>1, <1>1, <1>4, <1>5, <1>6 DEF KeepsBook
  <2> QED
    BY <2>1, <2>2
<1>8. OwnOK'
  BY <1>1, <1>4, <1>7 DEF Inv, OwnOK, IsBarrier
<1>9. PhaseOK'
  BY <1>1, <1>2, <1>3, <1>4 DEF Inv, PhaseOK, BarrierStages, Before, Phases
<1>10. IdleOK'
  BY <1>1, <1>2, <1>3, <1>4, <1>7 DEF Inv, IdleOK, Moving
<1>11. BooksAreKept'
  <2> SUFFICES ASSUME NEW m \in DOMAIN own \ {k} PROVE KeepsBook(m)'
    BY <1>4, <1>7 DEF BooksAreKept
  <2>1. KeepsBook(m) /\ own'[m] = own[m]
    BY <1>4 DEF Inv, BooksAreKept
  <2>2. Held(m)' = Held(m)
    BY <1>5
  <2> QED
    BY <2>1, <2>2, <1>1 DEF KeepsBook
<1> QED
  BY <1>1, <1>8, <1>9, <1>10, <1>11 DEF Inv, StructuresOK

(* release lets go of what the barrier holds, all of it or nothing, and what it
   does not send out it drops. *)
LEMMA ReleasedIs ==
  ASSUME Inv, NEW k \in BarrierStages, k \in DOMAIN own
  PROVE  /\ Released(k).out \subseteq Held(k) /\ Released(k).drop \subseteq Held(k)
         /\ \/ /\ Released(k).out \cup Released(k).drop = Held(k)
               /\ pipe[k].type # "keepStableCompositions" => Released(k).barrier = {}
               /\ pipe[k].type = "keepStableCompositions" =>
                    IsBarrier(Released(k).barrier) /\ Released(k).barrier.store = {}
            \/ /\ Released(k).out = {} /\ Released(k).drop = {}
               /\ pipe[k].type = "keepStableCompositions" /\ Released(k).barrier = own[k]
<1>1. KeepsBook(k) /\ pipe[k].type \in Barriers
  BY DEF Inv, BooksAreKept, BarrierStages
<1>2. CASE pipe[k].type # "keepStableCompositions"
  <2>1. Released(k) = [out |-> own[k], drop |-> {}, barrier |-> {}]
    BY <1>2 DEF Released
  <2> QED
    BY <2>1, <1>1, <1>2 DEF KeepsBook
<1>3. CASE pipe[k].type = "keepStableCompositions"
  <2>1. PICK b : b = own[k] /\ b.store = Held(k) /\ Released(k) = Stable!Release(b)
    BY <1>1, <1>3 DEF KeepsBook, Released
  <2>2. CASE b.hull = Stable!NoHull
    <3>1. Released(k) = [out |-> b.store, drop |-> {}, barrier |-> [store |-> {}, hull |-> b.hull]]
      BY <2>1, <2>2 DEF Stable!Release
    <3> QED
      BY <3>1, <2>1, <1>3 DEF IsBarrier
  <2>3. CASE b.hull # Stable!NoHull /\ b.hull.stable = {}
    <3>1. Released(k) = [out |-> {}, drop |-> {}, barrier |-> b]
      BY <2>1, <2>3 DEF Stable!Release
    <3> QED
      BY <3>1, <2>1, <1>3
  <2>4. CASE b.hull # Stable!NoHull /\ b.hull.stable # {}
    <3>1. Released(k) = [out |-> b.store \cap b.hull.stable, drop |-> b.store \ b.hull.stable,
                         barrier |-> [store |-> {}, hull |-> b.hull]]
      BY <2>1, <2>4 DEF Stable!Release
    <3> QED
      BY <3>1, <2>1, <1>3 DEF IsBarrier
  <2> QED
    BY <2>2, <2>3, <2>4
<1> QED
  BY <1>2, <1>3

(* release, structure by structure: where each one is after it. *)
LEMMA ReleasePuts ==
  ASSUME Inv, Release
  PROVE  /\ stage \in BarrierStages /\ DOMAIN own = DOMAIN pipe
         /\ \A i \in DOMAIN structures : ~Moving(i)
         /\ pc' = "running" /\ idle' = {} /\ UNCHANGED <<document, pipe>>
         /\ own' = [own EXCEPT ![stage] = Released(stage).barrier]
         /\ StructuresOK' /\ DOMAIN structures' = DOMAIN structures
         /\ \A j \in DOMAIN structures :
              structures'[j].where = IF j \in Released(stage).out THEN "moving"
                                     ELSE IF j \in Released(stage).drop THEN "dropped"
                                     ELSE structures[j].where
         /\ \A j \in DOMAIN structures \ Released(stage).out :
              structures'[j].stage = structures[j].stage
<1>1. PICK k, let : k = stage /\ let = Released(k)
  OBVIOUS
<1>2. /\ k \in BarrierStages /\ DOMAIN own = DOMAIN pipe
      /\ \A i \in DOMAIN structures : ~Moving(i)
      /\ pc' = "running" /\ idle' = {} /\ UNCHANGED <<document, pipe>>
  BY <1>1 DEF Release, Inv, PhaseOK, IdleOK, mainVars
<1>3. /\ own' = [own EXCEPT ![k] = let.barrier]
      /\ structures' =
           [i \in DOMAIN structures |->
              IF i \in let.out THEN Moved(structures[i], "moving", k + 1)
              ELSE IF i \in let.drop THEN [structures[i] EXCEPT !.where = "dropped"]
              ELSE structures[i]]
  BY <1>1 DEF Release, Entry, Data, Moved
<1>4. /\ {"moving", "dropped"} \subseteq Places /\ StructuresOK
      /\ \A i \in DOMAIN structures : IsEntry(structures[i])
  BY DEF Inv, Places, StructuresOK, Entries
<1>5. \A i \in DOMAIN structures :
        [structures[i] EXCEPT !.where = "dropped"]
           = Moved(structures[i], "dropped", structures[i].stage)
  BY <1>4, MovedOK
<1>6. structures' =
        [i \in DOMAIN structures |->
           IF i \in let.out THEN Moved(structures[i], "moving", k + 1)
           ELSE IF i \in let.drop THEN Moved(structures[i], "dropped", structures[i].stage)
           ELSE structures[i]]
  BY <1>3, <1>5
<1>7. StructuresOK'
  <2>1. structures' = [j \in DOMAIN structures |-> structures'[j]]
    BY <1>6
  <2>2. \A j \in DOMAIN structures : structures'[j] # structures[j] =>
           \E where \in Places : \E n : structures'[j] = Moved(structures[j], where, n)
    BY <1>6, <1>4
  <2> QED
    BY <1>4, <2>1, <2>2, PlacedOK DEF StructuresOK
<1>8. /\ \A j \in DOMAIN structures :
           structures'[j].where = IF j \in let.out THEN "moving"
                                  ELSE IF j \in let.drop THEN "dropped" ELSE structures[j].where
      /\ \A j \in DOMAIN structures \ let.out : structures'[j].stage = structures[j].stage
      /\ DOMAIN structures' = DOMAIN structures
  BY <1>6 DEF Moved
<1> QED
  BY <1>1, <1>2, <1>3, <1>7, <1>8, Zenon

(* release preserves the invariant: what goes out or is dropped is what the
   store had, and the store is empty after it. *)
LEMMA ReleaseInv ==
  ASSUME Inv, Release
  PROVE  Inv'
<1>1. PICK k, let : k = stage /\ let = Released(k)
  OBVIOUS
<1>2. /\ k \in BarrierStages /\ DOMAIN own = DOMAIN pipe
      /\ \A i \in DOMAIN structures : ~Moving(i)
      /\ pc' = "running" /\ idle' = {} /\ UNCHANGED <<document, pipe>>
      /\ own' = [own EXCEPT ![k] = let.barrier]
      /\ StructuresOK' /\ DOMAIN structures' = DOMAIN structures
  BY <1>1, ReleasePuts
<1>3. /\ \A j \in DOMAIN structures :
           structures'[j].where = IF j \in let.out THEN "moving"
                                  ELSE IF j \in let.drop THEN "dropped" ELSE structures[j].where
      /\ \A j \in DOMAIN structures \ let.out : structures'[j].stage = structures[j].stage
  BY <1>1, ReleasePuts
<1>4. /\ let.out \subseteq Held(k) /\ let.drop \subseteq Held(k)
      /\ \/ /\ let.out \cup let.drop = Held(k)
            /\ pipe[k].type # "keepStableCompositions" => let.barrier = {}
            /\ pipe[k].type = "keepStableCompositions" =>
                 IsBarrier(let.barrier) /\ let.barrier.store = {}
         \/ /\ let.out = {} /\ let.drop = {}
            /\ pipe[k].type = "keepStableCompositions" /\ let.barrier = own[k]
  <2>1. k \in DOMAIN own
    BY <1>2 DEF BarrierStages
  <2> QED
    BY <1>1, <1>2, <2>1, ReleasedIs
<1>5. /\ own = [j \in DOMAIN own |-> own[j]] /\ k \in DOMAIN own /\ KeepsBook(k)
      /\ pipe[k].type = "keepStableCompositions" => IsBarrier(own[k])
  BY <1>2 DEF Inv, OwnOK, BooksAreKept, BarrierStages
<1>6. /\ DOMAIN own' = DOMAIN own /\ own' = [j \in DOMAIN own' |-> own'[j]]
      /\ own'[k] = let.barrier
      /\ \A m \in DOMAIN own \ {k} : own'[m] = own[m]
  BY <1>2, <1>5
<1>7. \A m \in DOMAIN own \ {k} : Held(m)' = Held(m)
  BY <1>2, <1>3, <1>4 DEF Held
<1>8. Held(k)' = Held(k) \ (let.out \cup let.drop)
  BY <1>2, <1>3, <1>4 DEF Held
<1>9. KeepsBook(k)' /\ (pipe[k].type = "keepStableCompositions" => IsBarrier(own'[k]))
  <2>1. CASE let.out \cup let.drop = Held(k) /\ pipe[k].type # "keepStableCompositions"
    BY <2>1, <1>2, <1>4, <1>6, <1>8 DEF KeepsBook
  <2>2. CASE /\ let.out \cup let.drop = Held(k) /\ pipe[k].type = "keepStableCompositions"
             /\ IsBarrier(let.barrier) /\ let.barrier.store = {}
    BY <2>2, <1>2, <1>6, <1>8 DEF KeepsBook
  <2>3. CASE /\ let.out = {} /\ let.drop = {}
             /\ pipe[k].type = "keepStableCompositions" /\ let.barrier = own[k]
    <3>1. Held(k)' = Held(k) /\ own'[k] = own[k]
      BY <2>3, <1>6, <1>8
    <3> QED
      BY <3>1, <1>2, <1>5 DEF KeepsBook
  <2> QED
    BY <2>1, <2>2, <2>3, <1>4
<1>10. OwnOK'
  BY <1>2, <1>6, <1>9 DEF Inv, OwnOK, IsBarrier
<1>11. PhaseOK' /\ IdleOK'
  BY <1>2, <1>6 DEF Inv, PhaseOK, IdleOK, Before, Phases
<1>12. BooksAreKept'
  <2> SUFFICES ASSUME NEW m \in DOMAIN own \ {k} PROVE KeepsBook(m)'
    BY <1>6, <1>9 DEF BooksAreKept
  <2>1. KeepsBook(m) /\ own'[m] = own[m]
    BY <1>6 DEF Inv, BooksAreKept
  <2>2. Held(m)' = Held(m)
    BY <1>7
  <2> QED
    BY <2>1, <2>2, <1>2 DEF KeepsBook
<1> QED
  BY <1>2, <1>10, <1>11, <1>12 DEF Inv

(* At the end nothing is held and the books are empty: what is not emptied had
   nothing when it was last asked. *)
LEMMA EndRunInv ==
  ASSUME Inv, EndRun
  PROVE  Inv'
<1>1. /\ pc = "running" /\ idle = BarrierStages /\ pc' = "exit"
      /\ \A i \in DOMAIN structures : ~Moving(i)
      /\ UNCHANGED <<document, pipe, idle>>
      /\ structures' = Put({i \in DOMAIN structures : structures[i].where = "held"}, "freed")
  BY DEF EndRun, Quiet
<1>2. own' = [k \in DOMAIN own |->
                IF pipe[k].type = "keepStableCompositions" THEN [store |-> {}, hull |-> Stable!NoHull]
                ELSE IF pipe[k].type = "removeDuplicates" THEN {} ELSE own[k]]
  BY DEF EndRun, Stable!PipelineFinishing, Stable!NewBarrier
<1>3. /\ StructuresOK' /\ DOMAIN structures' = DOMAIN structures
      /\ \A j \in DOMAIN structures :
           structures'[j].where = IF structures[j].where = "held" THEN "freed"
                                  ELSE structures[j].where
  <2>1. "freed" \in Places /\ StructuresOK
    BY DEF Places, Inv
  <2> QED
    BY <1>1, <2>1, PutOK DEF StructuresOK
<1>4. \A k : Held(k)' = {}
  BY <1>3 DEF Held
<1>5. DOMAIN own' = DOMAIN own /\ DOMAIN own = DOMAIN pipe
      /\ own' = [k \in DOMAIN own' |-> own'[k]]
  BY <1>1, <1>2 DEF Inv, PhaseOK
<1>6. \A k \in DOMAIN own :
        /\ pipe[k].type = "keepStableCompositions" => own'[k] = [store |-> {}, hull |-> Stable!NoHull]
        /\ pipe[k].type \in Barriers \ {"keepStableCompositions"} => own'[k] = {}
  BY <1>1, <1>2, <1>5 DEF Inv, IdleOK, BarrierStages
<1>7. OwnOK' /\ PhaseOK'
  BY <1>1, <1>5, <1>6 DEF Inv, OwnOK, IsBarrier, PhaseOK, Before, Phases
<1>8. IdleOK'
  BY <1>1, <1>3, <1>5, <1>6 DEF IdleOK, Moving
<1>9. BooksAreKept'
  <2> SUFFICES ASSUME NEW k \in DOMAIN own PROVE KeepsBook(k)'
    BY <1>5 DEF BooksAreKept
  <2>1. Held(k)' = {}
    BY <1>4
  <2> QED
    BY <2>1, <1>1, <1>6 DEF KeepsBook
<1> QED
  BY <1>3, <1>7, <1>8, <1>9 DEF Inv

(* A step of nothing preserves the invariant. *)
LEMMA StutterInv ==
  ASSUME Inv, UNCHANGED vars
  PROVE  Inv'
<1>1. UNCHANGED <<pc, stage, document, pipe, own, structures, idle>>
  BY DEF vars, mainVars, engineVars, flowVars
<1>2. HeldStay
  BY <1>1 DEF HeldStay
<1>3. BooksAreKept'
  BY <1>1, <1>2, BooksStay DEF Inv
<1> QED
  BY <1>1, <1>3 DEF Inv, StructuresOK, PhaseOK, OwnOK, IdleOK, Moving, BarrierStages

(* Every step preserves the invariant, action by action. *)
LEMMA StepInv ==
  ASSUME Inv, [Next]_vars
  PROVE  Inv'
<1>1. CASE ReadInput \/ BuildPipe
  BY <1>1, BeforeInv
<1>2. CASE MakeEngine
  BY <1>2, MakeEngineInv
<1>3. CASE Initialising \/ Initialised \/ Starting
  BY <1>3, PhaseInv
<1>4. CASE Start
  BY <1>4, StartInv
<1>5. ASSUME NEW i \in DOMAIN structures, Stream(i) PROVE Inv'
  BY <1>5, StreamInv
<1>6. ASSUME NEW i \in DOMAIN structures, KeepStableIn(i) PROVE Inv'
  BY <1>6, KeepStableInInv
<1>7. ASSUME NEW i \in DOMAIN structures, KeepIn(i) PROVE Inv'
  BY <1>7, KeepInInv
<1>8. ASSUME NEW i \in DOMAIN structures, Finish(i) PROVE Inv'
  BY <1>8, FinishInv
<1>9. ASSUME NEW k \in BarrierStages, Ask(k) PROVE Inv'
  BY <1>9, AskInv
<1>10. CASE Release
  BY <1>10, ReleaseInv
<1>11. CASE EndRun
  BY <1>11, EndRunInv
<1>12. CASE Done \/ UNCHANGED vars
  BY <1>12, StutterInv DEF Done
<1> QED
  BY <1>1, <1>2, <1>3, <1>4, <1>5, <1>6, <1>7, <1>8, <1>9, <1>10, <1>11, <1>12 DEF Next

(* A hull barrier that has data has a hull, or has no use for one. *)
LEMMA JudgedOrNot ==
  ASSUME NEW k, pipe[k].type = "keepStableCompositions", NEW reply \in Answers(k), reply.answer
  PROVE  \/ reply.barrier = own[k] /\ ~Stable!CanJudge(Endpoints(k))
         \/ reply.barrier.hull # Stable!NoHull
<1>1. PICK b, endpoints, withEnergy :
        /\ b = own[k] /\ endpoints = Endpoints(k)
        /\ reply \in Stable!HasData(b, withEnergy, endpoints)
  BY DEF Answers
<1>2. CASE reply = [answer |-> FALSE, barrier |-> b]
  BY <1>2
<1>3. CASE ~Stable!CanJudge(endpoints) /\ reply = [answer |-> TRUE, barrier |-> b]
  BY <1>1, <1>3
<1>4. CASE \E stable \in SUBSET (b.store \cap withEnergy) :
             reply = [answer |-> stable # {},
                      barrier |-> [store |-> b.store,
                                   hull |-> [of |-> b.store, stable |-> stable]]]
  <2>1. PICK stable, answer :
          reply = [answer |-> answer,
                   barrier |-> [store |-> b.store, hull |-> [of |-> b.store, stable |-> stable]]]
    BY <1>4
  <2>2. reply.barrier.hull = [of |-> b.store, stable |-> stable]
    BY <2>1
  <2>3. DOMAIN reply.barrier.hull # DOMAIN Stable!NoHull
    BY <2>2 DEF Stable!NoHull
  <2> QED
    BY <2>3
<1>5. CASE b.store = {}
  BY <1>1, <1>2, <1>5 DEF Stable!HasData
<1>6. CASE b.store # {} /\ ~Stable!CanJudge(endpoints)
  BY <1>1, <1>3, <1>6 DEF Stable!HasData
<1>7. CASE b.store # {} /\ Stable!CanJudge(endpoints)
  BY <1>1, <1>4, <1>7 DEF Stable!HasData
<1> QED
  BY <1>5, <1>6, <1>7

(* Only who has just answered that it has data is about to release. *)
LEMMA WhoReleases ==
  ASSUME Inv, [Next]_vars, pc' = "releasing"
  PROVE  UNCHANGED vars \/ \E k \in BarrierStages : Ask(k)
<1>1. CASE ReadInput \/ BuildPipe \/ MakeEngine
  BY <1>1 DEF ReadInput, BuildPipe, MakeEngine, Fail, NextStep
<1>2. CASE Initialising \/ Initialised \/ Starting
  BY <1>2 DEF Initialising, Initialised, Starting, Told, NextPhase
<1>3. CASE Start
  BY <1>3, StartJoins
<1>4. ASSUME NEW i \in DOMAIN structures, Stream(i) PROVE FALSE
  BY <1>4, StreamGoes
<1>5. ASSUME NEW i \in DOMAIN structures, KeepStableIn(i) \/ KeepIn(i) \/ Finish(i) PROVE FALSE
  BY <1>5 DEF KeepStableIn, KeepIn, Finish, At
<1>6. CASE Release \/ EndRun
  BY <1>6 DEF Release, EndRun
<1> QED
  BY <1>1, <1>2, <1>3, <1>4, <1>5, <1>6 DEF Next, Done

(* What is released has been judged if it can be: asking sees to it. *)
LEMMA JudgedStep ==
  ASSUME Inv, NoneUnjudged, [Next]_vars
  PROVE  NoneUnjudged'
<1> SUFFICES ASSUME NEW k, k = stage', pc' = "releasing", own'[k].hull = Stable!NoHull,
                    pipe'[k].type = "keepStableCompositions"
             PROVE  ~Stable!CanJudge(Endpoints(k)')
  BY DEF NoneUnjudged
<1>1. CASE UNCHANGED vars
  <2>1. pc = "releasing" /\ UNCHANGED <<stage, pipe, own, structures>>
    BY <1>1 DEF vars, mainVars, engineVars, flowVars
  <2>2. ~Stable!CanJudge(Endpoints(k))
    BY <2>1 DEF NoneUnjudged
  <2>3. Endpoints(k)' = Endpoints(k)
    BY <2>1 DEF Endpoints, Data
  <2> QED
    BY <2>2, <2>3
<1>2. ASSUME NEW m \in BarrierStages, Ask(m) PROVE ~Stable!CanJudge(Endpoints(k)')
  <2>1. pc = "running" /\ m \in DOMAIN pipe /\ UNCHANGED <<pipe, structures>>
    BY <1>2 DEF Ask, Quiet, BarrierStages, mainVars
  <2>2. m \in DOMAIN own /\ own = [j \in DOMAIN own |-> own[j]]
    BY <2>1 DEF Inv, PhaseOK, OwnOK
  <2>3. PICK reply \in Answers(m) :
          own' = [own EXCEPT ![m] = reply.barrier] /\ reply.answer /\ stage' = m
    BY <1>2, <2>1 DEF Ask
  <2>4. own'[k] = reply.barrier /\ m = k
    BY <2>2, <2>3
  <2>5. reply.barrier = own[k] /\ ~Stable!CanJudge(Endpoints(k))
    BY <2>1, <2>3, <2>4, JudgedOrNot
  <2>6. own'[k].store = own[k].store
    BY <2>4, <2>5
  <2>7. Endpoints(k)' = Endpoints(k)
    BY <2>1, <2>6 DEF Endpoints, Data
  <2> QED
    BY <2>5, <2>7
<1> QED
  BY <1>1, <1>2, WhoReleases

(* Every barrier's books agree with where the structures are, and none releases
   unjudged what it could judge, in every run of every document:
   BarriersKeepBooks is an invariant of the specification. *)
THEOREM BooksAlways == Spec => []BarriersKeepBooks
<1>1. Init => NoneUnjudged
  BY DEF Init, NoneUnjudged
<1>2. Inv /\ [Next]_vars => Inv'
  BY StepInv
<1>3. Inv /\ NoneUnjudged /\ [Next]_vars => NoneUnjudged'
  BY JudgedStep
<1>4. Inv /\ NoneUnjudged => BarriersKeepBooks
  BY DEF Inv, BarriersKeepBooks
<1> QED
  BY InitInv, <1>1, <1>2, <1>3, <1>4, PTL DEF Spec

------------------------------------------------------------------------------
(* The structures of a run, with no bound on how many. *)
Every == INSTANCE StructureFlow WITH
  Structure <- Nat \ {0},
  unmade <- (Nat \ {0}) \ DOMAIN structures,
  live <- In("moving") \cup In("held"),
  finished <- In("finished"),
  dropped <- In("dropped"),
  freed <- In("freed")

Live == {"moving", "held"}

(* New structures move, and whoever was live is, perhaps held now. *)
LEMMA Makes ==
  ASSUME StructuresOK', DOMAIN structures \subseteq DOMAIN structures',
         \A j \in DOMAIN structures :
           \/ structures'[j].where = structures[j].where
           \/ structures[j].where \in Live /\ structures'[j].where \in Live,
         \A j \in DOMAIN structures' \ DOMAIN structures : structures'[j].where = "moving"
  PROVE  Every!Make
<1>1. DOMAIN structures' \subseteq Nat \ {0}
  <2>1. PICK S : structures' \in Seq(S)
    BY DEF StructuresOK, Entries
  <2> QED
    BY <2>1
<1>2. \A place \in {"finished", "dropped", "freed"} : In(place)' = In(place)
  BY DEF In, Live
<1>3. (In("moving") \cup In("held"))'
        = In("moving") \cup In("held") \cup (DOMAIN structures' \ DOMAIN structures)
  BY DEF In, Live
<1> QED
  BY <1>1, <1>2, <1>3 DEF Every!Make

(* Nobody is new, and whoever was live is, or is dropped. *)
LEMMA Drops ==
  ASSUME DOMAIN structures' = DOMAIN structures,
         \A j \in DOMAIN structures :
           \/ structures'[j].where = structures[j].where
           \/ structures[j].where \in Live /\ structures'[j].where \in Live \cup {"dropped"}
  PROVE  Every!Drop
<1>1. \A place \in {"finished", "freed"} : In(place)' = In(place)
  BY DEF In, Live
<1>2. (In("moving") \cup In("held"))' \subseteq In("moving") \cup In("held")
  BY DEF In, Live
<1>3. In("dropped")' = In("dropped") \cup ((In("moving") \cup In("held"))
                                           \ (In("moving") \cup In("held"))')
  BY DEF In, Live
<1> QED
  BY <1>1, <1>2, <1>3 DEF Every!Drop

(* A block that is no barrier makes clones, drops its structure or passes it on. *)
LEMMA StreamFlows ==
  ASSUME Inv, NEW i \in DOMAIN structures, Stream(i)
  PROVE  Every!Next
<1>0. Moving(i)
  BY StreamGoes
<1>1. CASE Goes(i, {"moving"})
  <2>1. Every!Make
    BY <1>0, <1>1, Makes DEF Goes, Moving
  <2> QED
    BY <2>1 DEF Every!Next
<1>2. CASE Goes(i, {"dropped"}) /\ DOMAIN structures' = DOMAIN structures
  <2>1. Every!Drop
    BY <1>0, <1>2, Drops DEF Goes, Moving, Live
  <2> QED
    BY <2>1 DEF Every!Next
<1> QED
  BY <1>1, <1>2, StreamGoes

(* A barrier takes the structure in, and drops it or others it held. *)
LEMMA BarriersFlow ==
  ASSUME Inv, NEW i \in DOMAIN structures, KeepStableIn(i) \/ KeepIn(i)
  PROVE  Every!Next
<1>1. CASE KeepStableIn(i)
  <2>1. Moving(i) /\ Goes(i, {"held"}) /\ DOMAIN structures' = DOMAIN structures
    BY <1>1, PutGoes DEF KeepStableIn, At, Inv, Places
  <2>2. Every!Drop
    BY <2>1, Drops DEF Goes, Moving, Live
  <2> QED
    BY <2>2 DEF Every!Next
<1>2. CASE KeepIn(i)
  <2>1. Moving(i) /\ DOMAIN structures' = DOMAIN structures
    BY <1>2, KeepInPuts
  <2>2. PICK some \in SUBSET (Held(Here(i)) \cup {i}) :
          \A j \in DOMAIN structures :
            structures'[j].where = IF j \in some THEN "dropped"
                                   ELSE IF j = i THEN "held" ELSE structures[j].where
    BY <1>2, KeepInPuts
  <2>3. \A j \in some : structures[j].where \in Live
    BY <2>1, <2>2 DEF Held, Moving, Live
  <2>4. Every!Drop
    BY <2>1, <2>2, <2>3, Drops DEF Moving, Live
  <2> QED
    BY <2>4 DEF Every!Next
<1> QED
  BY <1>1, <1>2

(* release sends on some of what is held and drops the others. *)
LEMMA ReleaseFlows ==
  ASSUME Inv, Release
  PROVE  Every!Next
<1>1. /\ DOMAIN structures' = DOMAIN structures /\ stage \in BarrierStages
      /\ stage \in DOMAIN own
      /\ \A j \in DOMAIN structures :
           structures'[j].where = IF j \in Released(stage).out THEN "moving"
                                  ELSE IF j \in Released(stage).drop THEN "dropped"
                                  ELSE structures[j].where
  BY ReleasePuts DEF BarrierStages
<1>2. Released(stage).out \subseteq Held(stage) /\ Released(stage).drop \subseteq Held(stage)
  BY <1>1, ReleasedIs
<1>3. \A j \in DOMAIN structures :
        \/ structures'[j].where = structures[j].where
        \/ structures[j].where \in Live /\ structures'[j].where \in Live \cup {"dropped"}
  BY <1>1, <1>2 DEF Held, Live
<1> QED
  BY <1>1, <1>3, Drops DEF Every!Next

(* A structure at the end of the pipe finishes, once. *)
LEMMA FinishFlows ==
  ASSUME Inv, NEW i \in DOMAIN structures, Finish(i)
  PROVE  Every!Next
<1>1. Moving(i) /\ Goes(i, {"finished"}) /\ DOMAIN structures' = DOMAIN structures
  BY PutGoes DEF Finish, Inv, Places
<1>2. \A place \in {"dropped", "freed"} : In(place)' = In(place)
  BY <1>1 DEF In, Goes, Moving
<1>3. /\ i \in In("moving") \cup In("held")
      /\ (In("moving") \cup In("held"))' = (In("moving") \cup In("held")) \ {i}
      /\ In("finished")' = In("finished") \cup {i}
  BY <1>1 DEF In, Goes, Moving
<1>4. Every!Finish
  BY <1>1, <1>2, <1>3 DEF Every!Finish
<1> QED
  BY <1>4 DEF Every!Next

(* The end of a run frees what is still held, and that alone. *)
LEMMA EndRunFlows ==
  ASSUME Inv, EndRun
  PROVE  Every!Next
<1>1. /\ \A i \in DOMAIN structures : ~Moving(i)
      /\ structures' = Put({i \in DOMAIN structures : structures[i].where = "held"}, "freed")
  BY DEF EndRun, Quiet
<1>2. /\ DOMAIN structures' = DOMAIN structures
      /\ \A j \in DOMAIN structures :
           structures'[j].where = IF structures[j].where = "held" THEN "freed"
                                  ELSE structures[j].where
  <2>1. "freed" \in Places /\ StructuresOK
    BY DEF Places, Inv
  <2> QED
    BY <1>1, <2>1, PutOK DEF StructuresOK
<1>3. /\ In("moving") = {} /\ (In("moving") \cup In("held"))' = {}
      /\ In("freed")' = In("freed") \cup In("held")
      /\ \A place \in {"finished", "dropped"} : In(place)' = In(place)
  BY <1>1, <1>2 DEF In, Moving
<1> QED
  BY <1>2, <1>3 DEF Every!Next, Every!Free

(* A start block makes a structure or nothing happens to any. *)
LEMMA StartFlows ==
  ASSUME Inv, Start
  PROVE  Every!Next \/ UNCHANGED structures
<1>1. CASE \E s : Send(s)
  <2>1. Every!Make
    BY <1>1, SendJoins, Makes DEF Inv
  <2> QED
    BY <2>1 DEF Every!Next
<1> QED
  BY <1>1, StartJoins

(* Every step of the program is one of StructureFlow or changes no structure. *)
LEMMA StepFlows ==
  ASSUME Inv, [Next]_vars
  PROVE  [Every!Next]_(Every!vars)
<1>1. CASE UNCHANGED structures
  BY <1>1 DEF Every!vars, In
<1>2. CASE ReadInput \/ BuildPipe \/ MakeEngine
  BY <1>1, <1>2 DEF ReadInput, BuildPipe, MakeEngine, Fail, flowVars
<1>3. CASE Initialising \/ Initialised \/ Starting
  BY <1>1, <1>3 DEF Initialising, Initialised, Starting, flowVars
<1>4. CASE Start
  BY <1>1, <1>4, StartFlows
<1>5. ASSUME NEW i \in DOMAIN structures,
             Stream(i) \/ KeepStableIn(i) \/ KeepIn(i) \/ Finish(i)
      PROVE  Every!Next
  BY <1>5, StreamFlows, BarriersFlow, FinishFlows
<1>6. CASE \E k \in BarrierStages : Ask(k)
  BY <1>1, <1>6 DEF Ask
<1>7. CASE Release \/ EndRun
  BY <1>7, ReleaseFlows, EndRunFlows
<1>8. CASE Done \/ UNCHANGED vars
  BY <1>1, <1>8 DEF Done, vars, flowVars
<1> QED
  BY <1>2, <1>3, <1>4, <1>5, <1>6, <1>7, <1>8 DEF Next

(* No structure is lost or ends twice, in any run of any document: the program
   implements the steps of StructureFlow, however many structures it makes. *)
THEOREM FlowAlways == Spec => Every!Init /\ [][Every!Next]_(Every!vars)
<1>1. Init => Every!Init
  <2> SUFFICES ASSUME Init PROVE Every!Init
    OBVIOUS
  <2>1. structures = <<>>
    BY DEF Init
  <2>2. DOMAIN structures = {}
    BY <2>1
  <2> QED
    BY <2>2 DEF Every!Init, In
<1>2. Inv /\ [Next]_vars => Inv'
  BY StepInv
<1>3. Inv /\ [Next]_vars => [Every!Next]_(Every!vars)
  BY StepFlows
<1> QED
  BY InitInv, <1>1, <1>2, <1>3, PTL DEF Spec

(***************************************************************************)
(* What is inductive about the engine's data: the pipe is there from the   *)
(* engine on and a phase comes to each of its blocks; the species database *)
(* is filled once the phase has come to an optimiser that has a potential, *)
(* and copied after; what is read is what is found, or nothing.            *)
(***************************************************************************)
Running == {"running", "releasing"}

PipeOK ==
  /\ pc \in {"engine"} \cup Phases \cup Running => pipe = Pipe[document] /\ pipe # Unset
  /\ pc \in Before => stage = 1
  /\ pc \in Phases => stage \in DOMAIN pipe

DatabaseOK ==
  /\ global = [NewGlobal(Unset) EXCEPT !.seed = global.seed]
  /\ shared = [NewShared(<<"main">>) EXCEPT !.species = shared.species]
  /\ pc = "initialising" =>
       \A k \in 1..(stage - 1) : HasPotential(pipe[k]) => shared.species = BuiltIn
  /\ pc \in (Phases \ {"initialising"}) \cup Running =>
       /\ HasDatabase => shared.species = BuiltIn
       /\ \A k \in DOMAIN pipe :
            pipe[k].type \in Separators /\ (pc = "initialised" => k < stage) =>
              own[k].database = shared.species

ReadOK ==
  \A k \in DOMAIN own :
    /\ pipe[k].type = "loadStructures" => own[k] \in {<<>>, Loadable}
    /\ pipe[k].type = "pasteFragment" => own[k] \in {<<>>, Fragment}

EngineOK == PipeOK /\ DatabaseOK /\ ReadOK

(***************************************************************************)
(* What is inductive about a structure's data: its fields; that it was     *)
(* built with the database; that its name is its own, and nobody's after   *)
(* it has been given another; where its atoms are.                         *)
(***************************************************************************)
Fields == DOMAIN NewStructure(Unset, Unset)
DataOf(i) == structures[i].data

BuiltOK ==
  \A i \in DOMAIN structures :
    /\ DOMAIN DataOf(i) = Fields
    /\ (pc \in Running /\ HasDatabase /\ pipe[1].type = "generateStructures") =>
         DataOf(i).radii = BuiltIn

NamesDiffer ==
  /\ \A j, k \in DOMAIN Loadable :
       Loadable[j].name = Loadable[k].name /\ Loadable[j].name # Unset => j = k
  /\ \A k \in DOMAIN pipe :
       pipe[k].type = "clone" => pipe[k].options.giveUniqueNames # FALSE

GivenNames ==
  {<<"structure", k>> : k \in 1..unique}
  \cup {Loadable[k].name : k \in {j \in DOMAIN Loadable : j <= tries /\ Loadable[j].name # Unset}}

CountsOK == unique \in Nat /\ tries \in Nat

NamesOK ==
  NamesDiffer =>
    /\ \A i \in DOMAIN structures : DataOf(i).name \in GivenNames
    /\ \A i, j \in DOMAIN structures : DataOf(i).name = DataOf(j).name => i = j
    /\ \A i \in DOMAIN structures :
         DataOf(i).saved # Unset =>
           /\ DataOf(i).saved \in DOMAIN disk
           /\ disk[DataOf(i).saved] \in structures[i].line
           /\ DataOf(i).saved.id \in GivenNames
           /\ \A j \in DOMAIN structures : DataOf(j).name = DataOf(i).saved.id => j = i

IsAtom(a) == DOMAIN a = {"species", "inShape", "at", "cut"} /\ a.inShape \in BOOLEAN
Stays(a) == ~a.cut => a.at = "home" \/ (a.at = "moved" /\ Types \cap Movers # {})
Fixes ==
  /\ "separateAtoms" \notin Types
  /\ \A k \in DOMAIN pipe : pipe[k].type = "cutAndPaste" => pipe[k].options.fixUntouched

AtomsOK ==
  \A i \in DOMAIN structures :
    LET atoms == DataOf(i).atoms
    IN /\ atoms \in Seq(ToSet(atoms))
       /\ \A j \in DOMAIN atoms :
            IsAtom(atoms[j]) /\ (Fixes => Stays(atoms[j]))


(* A pipe that was built is a sequence of one block or more. *)
LEMMA PipeShape ==
  ASSUME PhaseOK, PipeOK, pc \in {"engine"} \cup Phases \cup Running
  PROVE  /\ pipe = Pipe[document] /\ pipe # Unset
         /\ Len(pipe) \in Nat \ {0} /\ DOMAIN pipe = 1..Len(pipe)
<1>1. pipe = Pipe[document] /\ pipe # Unset /\ document \in DOMAIN Document
  BY ProgramAssumption DEF PhaseOK, PipeOK
<1> DEFINE names == Words(Document[document].run)
           blocks == Loaded(Document[document].entries, SubPipe)
<1>2. pipe = Connected(blocks, names) /\ names \in Seq(ToSet(names))
  BY <1>1, DocumentAssumption DEF Pipe
<1> HIDE DEF names, blocks
<1>3. names # <<>> /\ pipe = [k \in DOMAIN names |-> blocks[names[k]]]
  BY <1>1, <1>2 DEF Connected
<1>4. Len(names) \in Nat \ {0} /\ DOMAIN names = 1..Len(names)
  BY <1>2, <1>3
<1> QED
  BY <1>1, <1>3, <1>4

(* At first there is nothing to be said of the engine. *)
LEMMA EngineInit == Init => EngineOK
<1> SUFFICES ASSUME Init PROVE EngineOK
  OBVIOUS
<1>1. PipeOK
  BY DEF Init, PipeOK, Before, Phases, Running
<1>2. DatabaseOK
  BY DEF Init, DatabaseOK, Phases, Running, NewGlobal, NewShared
<1>3. ReadOK
  BY DEF Init, ReadOK
<1> QED
  BY <1>1, <1>2, <1>3 DEF EngineOK

(* Before the engine there is nothing in it. *)
LEMMA EngineBefore ==
  ASSUME PhaseOK, EngineOK, ReadInput \/ BuildPipe
  PROVE  EngineOK'
<1> USE DEF Before, Phases, Running
<1>1. pc \in Before /\ own = <<>> /\ stage = 1
  BY DEF PhaseOK, EngineOK, PipeOK, ReadInput, BuildPipe, NextStep
<1>2. own' = <<>> /\ UNCHANGED <<stage, global, shared>>
  BY <1>1 DEF ReadInput, BuildPipe, Fail, NextStep, engineVars
<1>3. \/ pc' \in (Before \ {"engine"}) \cup {"exit"}
      \/ pc' = "engine" /\ pipe' = Pipe[document'] /\ pipe' # Unset
  BY <1>1 DEF ReadInput, BuildPipe, Fail, NextStep
<1>4. PipeOK'
  BY <1>1, <1>2, <1>3 DEF PipeOK
<1>5. DatabaseOK'
  BY <1>2, <1>3 DEF EngineOK, DatabaseOK
<1>6. ReadOK'
  BY <1>2 DEF ReadOK
<1> QED
  BY <1>4, <1>5, <1>6 DEF EngineOK

(* A new engine has nothing in its database, its blocks have read nothing. *)
LEMMA EngineMade ==
  ASSUME PhaseOK, EngineOK, MakeEngine
  PROVE  EngineOK'
<1> USE DEF Before, Phases, Running
<1>1. pc = "engine" /\ own = <<>> /\ stage = 1
  BY DEF PhaseOK, EngineOK, PipeOK, MakeEngine
<1>2. CASE CreateEngine(Document[document].engine) = Unset
  <2>1. own' = <<>> /\ UNCHANGED <<stage, global, shared>> /\ pc' = "exit"
    BY <1>1, <1>2 DEF MakeEngine, Fail, engineVars
  <2> QED
    BY <2>1 DEF EngineOK, PipeOK, DatabaseOK, ReadOK
<1>3. CASE CreateEngine(Document[document].engine) # Unset
  <2>1. /\ global' = [global EXCEPT !.seed = "input"]
        /\ own' = [k \in DOMAIN pipe |-> New(pipe[k])]
        /\ pc' = "initialising" /\ UNCHANGED <<stage, shared, pipe, document>>
    BY <1>3 DEF MakeEngine, mainVars
  <2>2. Len(pipe) \in Nat \ {0} /\ DOMAIN pipe = 1..Len(pipe)
    BY <1>1, PipeShape DEF EngineOK
  <2>3. PipeOK'
    BY <1>1, <2>1, <2>2 DEF EngineOK, PipeOK
  <2>4. DatabaseOK'
    <3>1. global' = [NewGlobal(Unset) EXCEPT !.seed = global'.seed]
      BY <2>1 DEF EngineOK, DatabaseOK, NewGlobal
    <3> QED
      BY <1>1, <2>1, <3>1 DEF EngineOK, DatabaseOK
  <2>5. ReadOK'
    <3>1. \A k \in DOMAIN own' :
            pipe[k].type \in {"loadStructures", "pasteFragment"} => own'[k] = <<>>
      BY <2>1, NoBarriers DEF New
    <3> QED
      BY <2>1, <3>1 DEF ReadOK
  <2> QED
    BY <2>3, <2>4, <2>5 DEF EngineOK
<1> QED
  BY <1>2, <1>3

(* Nobody has given the optimiser parameters: its potential has its own. *)
LEMMA ParamsAreBuiltIn ==
  ASSUME DatabaseOK, NEW tag
  PROVE  Parameterised(global, tag, BuiltIn) = BuiltIn
BY DEF DatabaseOK, NewGlobal, Parameterised

(* A phase comes to one block after another. *)
LEMMA Turn ==
  ASSUME PhaseOK, EngineOK, pc \in Phases, Told, pipe' = pipe
  PROVE  \E n \in Nat :
           /\ DOMAIN pipe = 1..n /\ stage \in 1..n
           /\ \/ stage = n /\ stage' = 1 /\ pc' = NextPhase[pc]
              \/ stage < n /\ stage' = stage + 1 /\ pc' = pc
<1>1. PICK n \in Nat : n = Len(pipe) /\ DOMAIN pipe = 1..n
  BY PipeShape DEF EngineOK
<1>2. stage \in 1..n
  BY <1>1 DEF EngineOK, PipeOK
<1>3. \/ stage = n /\ stage' = 1 /\ pc' = NextPhase[pc]
      \/ stage # n /\ stage' = stage + 1 /\ pc' = pc
  BY <1>1 DEF Told
<1>4. stage # n => stage < n
  BY <1>2
<1> QED
  BY <1>1, <1>2, <1>3, <1>4

(* An optimiser fills the database, and everything that is read is read. *)
LEMMA EngineInitialising ==
  ASSUME PhaseOK, EngineOK, Initialising
  PROVE  EngineOK'
<1> USE DEF Before, Phases, Running
<1>1. /\ pc = "initialising" /\ DOMAIN own = DOMAIN pipe
      /\ UNCHANGED <<pipe, document, global>> /\ Told
  BY DEF PhaseOK, Initialising, mainVars
<1>2. PICK n \in Nat :
        /\ DOMAIN pipe = 1..n /\ stage \in 1..n
        /\ \/ stage = n /\ stage' = 1 /\ pc' = "initialised"
           \/ stage < n /\ stage' = stage + 1 /\ pc' = "initialising"
  BY <1>1, Turn DEF NextPhase
<1>3. IF HasPotential(pipe[stage])
      THEN shared' = [shared EXCEPT !.species = BuiltIn]
      ELSE UNCHANGED shared
  BY ParamsAreBuiltIn DEF Initialising, Tuned, EngineOK
<1>4. shared' = [NewShared(<<"main">>) EXCEPT !.species = shared'.species]
  BY <1>3 DEF EngineOK, DatabaseOK, NewShared
<1>5. /\ HasPotential(pipe[stage]) => shared'.species = BuiltIn
      /\ shared.species = BuiltIn => shared'.species = BuiltIn
  BY <1>3 DEF EngineOK, DatabaseOK, NewShared
<1>6. \A k \in 1..stage : HasPotential(pipe[k]) => shared'.species = BuiltIn
  <2> TAKE k \in 1..stage
  <2>1. k = stage \/ k \in 1..(stage - 1)
    BY <1>2
  <2>2. k \in 1..(stage - 1) => (HasPotential(pipe[k]) => shared.species = BuiltIn)
    BY <1>1 DEF EngineOK, DatabaseOK
  <2> QED
    BY <1>5, <2>1, <2>2
<1>7. PipeOK'
  BY <1>1, <1>2 DEF EngineOK, PipeOK
<1>8. DatabaseOK'
  <2>1. CASE pc' = "initialising"
    <3>1. 1..(stage' - 1) = 1..stage
      BY <1>2, <2>1
    <3> QED
      BY <1>1, <1>4, <1>6, <2>1, <3>1 DEF EngineOK, DatabaseOK
  <2>2. CASE pc' = "initialised"
    <3>1. \A k \in DOMAIN pipe : HasPotential(pipe[k]) => shared'.species = BuiltIn
      BY <1>2, <1>6, <2>2
    <3>2. HasDatabase' => shared'.species = BuiltIn
      BY <1>1, <3>1 DEF HasDatabase, HasPotential
    <3>3. \A k \in DOMAIN pipe' : ~(k < stage')
      BY <1>1, <1>2, <2>2
    <3> QED
      BY <1>1, <1>4, <2>2, <3>2, <3>3 DEF EngineOK, DatabaseOK
  <2> QED
    BY <1>2, <2>1, <2>2
<1>9. ReadOK'
  <2>1. \/ pipe[stage].type = "loadStructures" /\ OwnBecomes(Loadable)
        \/ pipe[stage].type = "pasteFragment" /\ OwnBecomes(Fragment)
        \/ pipe[stage].type = "geomOptimise" /\ \E v : OwnBecomes(v)
        \/ UNCHANGED own
    BY DEF Initialising, ReadOrTuned
  <2>2. \A v : OwnBecomes(v) =>
          own' = [k \in DOMAIN own |-> IF k = stage THEN v ELSE own[k]]
    BY DEF OwnBecomes
  <2> QED
    BY <1>1, <2>1, <2>2 DEF EngineOK, ReadOK
<1> QED
  BY <1>7, <1>8, <1>9 DEF EngineOK

(* The separators copy the database, which is filled by then. *)
LEMMA EngineInitialised ==
  ASSUME PhaseOK, EngineOK, Initialised
  PROVE  EngineOK'
<1> USE DEF Before, Phases, Running
<1>1. /\ pc = "initialised" /\ DOMAIN own = DOMAIN pipe
      /\ UNCHANGED <<pipe, document, global, shared>> /\ Told
  BY DEF PhaseOK, Initialised, mainVars
<1>2. PICK n \in Nat :
        /\ DOMAIN pipe = 1..n /\ stage \in 1..n
        /\ \/ stage = n /\ stage' = 1 /\ pc' = "starting"
           \/ stage < n /\ stage' = stage + 1 /\ pc' = "initialised"
  BY <1>1, Turn DEF NextPhase
<1>3. /\ \A k \in DOMAIN own \ {stage} : own'[k] = own[k]
      /\ pipe[stage].type \in Separators => own'[stage].database = shared.species
      /\ pipe[stage].type \notin Separators => own'[stage] = own[stage]
      /\ DOMAIN own' = DOMAIN own
  <2>1. CASE pipe[stage].type \in Separators
    <3>1. \E v : v.database = shared.species /\ OwnBecomes(v)
      BY <2>1 DEF Initialised
    <3>2. PICK v : v.database = shared.species /\ OwnBecomes(v)
      BY <3>1
    <3>3. own' = [k \in DOMAIN own |-> IF k = stage THEN v ELSE own[k]]
      BY <3>2 DEF OwnBecomes
    <3> QED
      BY <1>1, <1>2, <2>1, <3>2, <3>3
  <2>2. CASE pipe[stage].type \notin Separators
    BY <2>2 DEF Initialised
  <2> QED
    BY <2>1, <2>2
<1>4. \A k \in 1..stage : pipe[k].type \in Separators => own'[k].database = shared.species
  <2> TAKE k \in 1..stage
  <2>1. k = stage \/ (k < stage /\ k \in DOMAIN own \ {stage} /\ k \in DOMAIN pipe)
    BY <1>1, <1>2
  <2>2. (k < stage /\ k \in DOMAIN pipe) =>
          (pipe[k].type \in Separators => own[k].database = shared.species)
    BY <1>1 DEF EngineOK, DatabaseOK
  <2> QED
    BY <1>3, <2>1, <2>2
<1>5. PipeOK'
  BY <1>1, <1>2 DEF EngineOK, PipeOK
<1>6. DatabaseOK'
  <2>1. \A k \in DOMAIN pipe :
          (pc' = "initialised" => k < stage') => k \in 1..stage
    BY <1>2
  <2>2. HasDatabase' = HasDatabase
    BY <1>1 DEF HasDatabase, HasPotential
  <2> QED
    BY <1>1, <1>2, <1>4, <2>1, <2>2 DEF EngineOK, DatabaseOK
<1>7. ReadOK'
  BY <1>1, <1>3 DEF EngineOK, ReadOK, Separators
<1> QED
  BY <1>5, <1>6, <1>7 DEF EngineOK

(* A writer is chosen; the database stays. *)
LEMMA EngineStarting ==
  ASSUME PhaseOK, EngineOK, Starting
  PROVE  EngineOK'
<1> USE DEF Before, Phases, Running
<1>1. /\ pc = "starting" /\ DOMAIN own = DOMAIN pipe
      /\ UNCHANGED <<pipe, document, global, shared>> /\ Told
  BY DEF PhaseOK, Starting, mainVars
<1>2. PICK n \in Nat :
        /\ DOMAIN pipe = 1..n /\ stage \in 1..n
        /\ \/ stage = n /\ stage' = 1 /\ pc' = "running"
           \/ stage < n /\ stage' = stage + 1 /\ pc' = "starting"
  BY <1>1, Turn DEF NextPhase
<1>3. /\ DOMAIN own' = DOMAIN own
      /\ \A k \in DOMAIN own : pipe[k].type # "writeStructures" => own'[k] = own[k]
  <2>1. CASE pipe[stage].type = "writeStructures"
    <3>1. PICK v : OwnBecomes(v)
      BY <2>1 DEF Starting
    <3>2. own' = [k \in DOMAIN own |-> IF k = stage THEN v ELSE own[k]]
      BY <3>1 DEF OwnBecomes
    <3> QED
      BY <2>1, <3>2
  <2>2. CASE pipe[stage].type # "writeStructures"
    BY <2>2 DEF Starting
  <2> QED
    BY <2>1, <2>2
<1>4. PipeOK'
  BY <1>1, <1>2 DEF EngineOK, PipeOK
<1>5. DatabaseOK'
  <2>1. HasDatabase' = HasDatabase
    BY <1>1 DEF HasDatabase, HasPotential
  <2>2. \A k \in DOMAIN pipe : pipe[k].type \in Separators => own'[k] = own[k]
    BY <1>1, <1>3 DEF Separators
  <2> QED
    BY <1>1, <1>2, <2>1, <2>2 DEF EngineOK, DatabaseOK
<1>6. ReadOK'
  BY <1>1, <1>3 DEF EngineOK, ReadOK
<1> QED
  BY <1>4, <1>5, <1>6 DEF EngineOK

(* What happens while structures move. *)
Moves == \E i \in DOMAIN structures : KeepStableIn(i) \/ KeepIn(i) \/ Finish(i)
Turns == (\E k \in BarrierStages : Ask(k)) \/ Release \/ EndRun
Streams == \E i \in DOMAIN structures : Stream(i)

HoldTypes == Barriers \cup {"keepStableCompositions"}

(* The engine's own data stays as it is, and only barriers change what they keep. *)
RunFrame ==
  /\ pc \in Running /\ pc' \in Running \cup {"exit"}
  /\ UNCHANGED <<document, pipe, global, shared>>
  /\ DOMAIN own' = DOMAIN own
  /\ \A k \in DOMAIN own : pipe[k].type \notin HoldTypes => own'[k] = own[k]

(* So does every step of the running pipe, action by action. *)
LEMMA RunFrames ==
  ASSUME Inv, Start \/ Streams \/ Moves \/ Turns
  PROVE  RunFrame
<1> USE DEF Running, HoldTypes
<1>1. DOMAIN own = DOMAIN pipe \/ pc \notin Running
  BY DEF Inv, PhaseOK
<1>2. \A k, v : own' = [own EXCEPT ![k] = v] =>
        /\ DOMAIN own' = DOMAIN own
        /\ \A j \in DOMAIN own : j # k => own'[j] = own[j]
  OBVIOUS
<1>3. CASE Start
  BY <1>3 DEF Start, RunFrame, mainVars
<1>4. ASSUME NEW i \in DOMAIN structures, Stream(i)
      PROVE  RunFrame
  <2>1. pc = "running" /\ UNCHANGED <<pc, document, pipe, own>>
    BY <1>4, StreamGoes
  <2>2. UNCHANGED <<global, shared>>
    BY <1>4 DEF Stream, AutoScale, Rescale, NiggliReduce, FindSymmetryGroup, PasteFragment,
               SeparateAtoms, CutAndPaste, Clone, GeomOptimise, WriteStructures, LetThrough,
               PassOn, engineVars
  <2> QED
    BY <2>1, <2>2 DEF RunFrame
<1>5. ASSUME NEW i \in DOMAIN structures, KeepStableIn(i) \/ KeepIn(i)
      PROVE  RunFrame
  <2>1. PICK k, v : k = Here(i) /\ own' = [own EXCEPT ![k] = v]
    BY <1>5 DEF KeepStableIn, KeepIn
  <2>2. /\ pc = "running" /\ UNCHANGED <<pc, document, pipe, global, shared>>
        /\ pipe[k].type \in HoldTypes
    BY <1>5, <2>1 DEF KeepStableIn, KeepIn, Keepers, Barriers, At, Here, mainVars
  <2> QED
    BY <1>2, <2>1, <2>2 DEF RunFrame
<1>6. ASSUME NEW i \in DOMAIN structures, Finish(i)
      PROVE  RunFrame
  BY <1>6 DEF Finish, RunFrame, mainVars, engineVars
<1>7. ASSUME NEW k \in BarrierStages, Ask(k)
      PROVE  RunFrame
  <2>1. /\ pc = "running" /\ pc' \in Running /\ pipe[k].type \in HoldTypes
        /\ UNCHANGED <<document, pipe, global, shared>>
        /\ \E v : own' = [own EXCEPT ![k] = v]
    BY <1>7 DEF Ask, Quiet, BarrierStages, mainVars
  <2> QED
    BY <1>2, <2>1 DEF RunFrame
<1>8. CASE Release
  <2>1. /\ pc = "releasing" /\ pc' = "running" /\ stage \in BarrierStages
        /\ UNCHANGED <<document, pipe, global, shared>>
        /\ \E v : own' = [own EXCEPT ![stage] = v]
    BY <1>8 DEF Release, Inv, PhaseOK, mainVars
  <2>2. pipe[stage].type \in HoldTypes
    BY <2>1 DEF BarrierStages
  <2> QED
    BY <1>2, <2>1, <2>2 DEF RunFrame
<1>9. CASE EndRun
  <2>1. /\ pc = "running" /\ pc' = "exit" /\ UNCHANGED <<document, pipe, global, shared>>
        /\ own' = [k \in DOMAIN own |->
               IF pipe[k].type = "keepStableCompositions" THEN Stable!PipelineFinishing(own[k])
               ELSE IF pipe[k].type = "removeDuplicates" THEN {} ELSE own[k]]
    BY <1>9 DEF EndRun, Quiet
  <2> QED
    BY <2>1 DEF RunFrame, Barriers
<1> QED
  BY <1>3, <1>4, <1>5, <1>6, <1>7, <1>8, <1>9 DEF Streams, Moves, Turns

(* While the pipe runs, what was prepared for it stays. *)
LEMMA EngineStays ==
  ASSUME PhaseOK, EngineOK, RunFrame
  PROVE  EngineOK'
<1> USE DEF Before, Phases, Running
<1>1. DOMAIN own = DOMAIN pipe
  BY DEF RunFrame, PhaseOK
<1>2. \A k \in DOMAIN own :
        pipe[k].type \in Separators \cup {"loadStructures", "pasteFragment"} => own'[k] = own[k]
  BY NoBarriers DEF RunFrame, HoldTypes, Separators
<1>3. PipeOK'
  BY DEF RunFrame, EngineOK, PipeOK
<1>4. DatabaseOK'
  <2>1. HasDatabase' = HasDatabase
    BY DEF RunFrame, HasDatabase, HasPotential
  <2> QED
    BY <1>1, <1>2, <2>1 DEF RunFrame, EngineOK, DatabaseOK
<1>5. ReadOK'
  BY <1>1, <1>2 DEF RunFrame, EngineOK, ReadOK
<1> QED
  BY <1>3, <1>4, <1>5 DEF EngineOK

(* The cases of a step, as the invariants that follow take them. *)
LEMMA StepCases ==
  ASSUME [Next]_vars
  PROVE  \/ ReadInput \/ BuildPipe \/ MakeEngine
         \/ Initialising \/ Initialised \/ Starting
         \/ Start \/ Streams \/ Moves \/ Turns \/ UNCHANGED vars
BY DEF Next, Streams, Moves, Turns, Done

(* Every step keeps EngineOK. *)
LEMMA EngineStep ==
  ASSUME Inv, EngineOK, [Next]_vars
  PROVE  EngineOK'
<1>1. PhaseOK
  BY DEF Inv
<1>2. CASE UNCHANGED vars
  BY <1>2 DEF vars, mainVars, engineVars, flowVars, EngineOK, PipeOK, DatabaseOK, ReadOK,
              HasDatabase, HasPotential, Types, Running
<1>3. CASE Start \/ Streams \/ Moves \/ Turns
  BY <1>1, <1>3, RunFrames, EngineStays
<1> QED
  BY <1>1, <1>2, <1>3, StepCases, EngineBefore, EngineMade, EngineInitialising,
     EngineInitialised, EngineStarting

------------------------------------------------------------------------------
(* What steps do with a structure's data. *)

SameData(j) ==
  structures'[j].data = structures[j].data /\ structures'[j].line = structures[j].line

DataStays ==
  /\ DOMAIN structures' = DOMAIN structures
  /\ \A j \in DOMAIN structures : SameData(j)
  /\ UNCHANGED <<pipe, disk, unique, tries>>

(* Putting structures to another place leaves what they are. *)
LEMMA PutKeepsData ==
  ASSUME StructuresOK, NEW these, NEW where, structures' = Put(these, where)
  PROVE  /\ DOMAIN structures' = DOMAIN structures
         /\ \A j \in DOMAIN structures : SameData(j)
<1>1. \A j \in DOMAIN structures :
        structures[j] = [data |-> structures[j].data, where |-> structures[j].where,
                         stage |-> structures[j].stage, line |-> structures[j].line]
  BY DEF StructuresOK, Entries, IsEntry
<1> QED
  BY <1>1 DEF Put, SameData

(* Barriers, the engine's turns and the end of the pipe change no data. *)
LEMMA DataStaysPut ==
  ASSUME Inv, Moves \/ Turns
  PROVE  DataStays
<1>1. \A j \in DOMAIN structures :
        structures[j] = [data |-> structures[j].data, where |-> structures[j].where,
                         stage |-> structures[j].stage, line |-> structures[j].line]
  BY DEF Inv, StructuresOK, Entries, IsEntry
<1>2. StructuresOK
  BY DEF Inv
<1>3. ASSUME NEW i \in DOMAIN structures, KeepStableIn(i) \/ Finish(i)
      PROVE  DataStays
  <2>1. \E where : structures' = Put({i}, where)
    BY <1>3 DEF KeepStableIn, Finish
  <2>2. UNCHANGED <<pipe, disk, unique, tries>>
    BY <1>3 DEF KeepStableIn, Finish, mainVars, engineVars
  <2> QED
    BY <1>2, <2>1, <2>2, PutKeepsData DEF DataStays
<1>4. ASSUME NEW i \in DOMAIN structures, KeepIn(i)
      PROVE  DataStays
  <2>1. PICK some : structures' =
          [j \in DOMAIN structures |->
             IF j \in some THEN [structures[j] EXCEPT !.where = "dropped"]
             ELSE IF j = i THEN [structures[j] EXCEPT !.where = "held"]
             ELSE structures[j]]
    BY <1>4 DEF KeepIn
  <2>2. UNCHANGED <<pipe, disk, unique, tries>>
    BY <1>4 DEF KeepIn, mainVars
  <2> QED
    BY <1>1, <2>1, <2>2 DEF DataStays, SameData
<1>5. ASSUME NEW k \in BarrierStages, Ask(k)
      PROVE  DataStays
  BY <1>5 DEF Ask, DataStays, SameData, mainVars
<1>6. CASE Release
  <2>1. PICK let, k : structures' =
          [i \in DOMAIN structures |->
             IF i \in let.out THEN Entry(Data(i), k, structures[i].line)
             ELSE IF i \in let.drop THEN [structures[i] EXCEPT !.where = "dropped"]
             ELSE structures[i]]
    BY <1>6 DEF Release
  <2>2. UNCHANGED <<pipe, disk, unique, tries>>
    BY <1>6 DEF Release, mainVars
  <2> QED
    BY <1>1, <2>1, <2>2 DEF DataStays, SameData, Entry, Data
<1>7. CASE EndRun
  <2>1. PICK these : structures' = Put(these, "freed")
    BY <1>7 DEF EndRun
  <2>2. UNCHANGED <<pipe, disk, unique, tries>>
    BY <1>7 DEF EndRun
  <2> QED
    BY <1>2, <2>1, <2>2, PutKeepsData DEF DataStays
<1> QED
  BY <1>3, <1>4, <1>5, <1>6, <1>7 DEF Moves, Turns

(* Structure i becomes t, and no other changes. *)
Becomes(i, t) ==
  /\ DOMAIN structures' = DOMAIN structures
  /\ structures'[i].data = t /\ structures'[i].line = structures[i].line
  /\ \A j \in DOMAIN structures : j # i => SameData(j)

(* Who is passed on with new data has that data, and its line. *)
LEMMA PassedBecomes ==
  ASSUME StructuresOK, NEW i \in DOMAIN structures, NEW t, structures' = Passed(i, t)
  PROVE  Becomes(i, t)
<1>1. PICK n, line : n = structures[i].stage + 1 /\ line = structures[i].line
  OBVIOUS
<1>2. structures' = [structures EXCEPT ![i] = Entry(t, n, line)]
  BY <1>1 DEF Passed
<1>3. /\ DOMAIN structures' = DOMAIN structures
      /\ structures'[i] = Entry(t, n, line)
      /\ \A j \in DOMAIN structures : j # i => structures'[j] = structures[j]
  BY <1>2
<1> QED
  BY <1>1, <1>3 DEF Becomes, SameData, Entry

(* What a block that neither copies nor saves structures makes of one: nothing
   of its cell only if it has no atom of a species that has a radius. *)
Treated(s, t) ==
  /\ DOMAIN t = DOMAIN s
  /\ t.name = s.name /\ t.saved = s.saved /\ t.radii = s.radii
  /\ t.flat => s.flat \/ \A k \in DOMAIN s.atoms : s.atoms[k].species \notin HasRadius

AtomsTreated(i, atoms) ==
  \/ atoms = Data(i).atoms
  \/ Types \cap Movers # {} /\ atoms \in AllMoved(Data(i).atoms)
  \/ At(i, "pasteFragment") /\ atoms = Data(i).atoms \o own[Here(i)]
  \/ At(i, "separateAtoms") /\ atoms \in Separated(Data(i).atoms, DOMAIN Data(i).atoms)
  \/ At(i, "cutAndPaste") /\ atoms \in {t.atoms : t \in CutAndPasted(Data(i), OptionsAt(i))}

Treats(i) ==
  \/ AutoScale(i) \/ Rescale(i) \/ NiggliReduce(i) \/ FindSymmetryGroup(i)
  \/ PasteFragment(i) \/ SeparateAtoms(i) \/ CutAndPaste(i) \/ GeomOptimise(i)
  \/ LetThrough(i)

(* The blocks that scale a cell, by the radii that are known or by defaults. *)
LEMMA ScaledIsTreated ==
  ASSUME NEW s, DOMAIN s = Fields, NEW t \in Scaled(s, HasRadius) \cup Rescaled(s)
  PROVE  Treated(s, t) /\ t.atoms \in {s.atoms} \cup AllMoved(s.atoms)
<1>1. PICK natural \in BOOLEAN :
        /\ t \in ScaledTo(s, natural)
        /\ ~natural => \A k \in DOMAIN s.atoms : s.atoms[k].species \notin HasRadius
  <2>1. CASE t \in Scaled(s, HasRadius)
    BY <2>1 DEF Scaled
  <2>2. CASE t \in Rescaled(s)
    <3>1. s.atoms = <<>> => \A k \in DOMAIN s.atoms : s.atoms[k].species \notin HasRadius
      OBVIOUS
    <3> QED
      BY <2>2, <3>1 DEF Rescaled
  <2> QED
    BY <2>1, <2>2
<1>2. CASE t = s
  BY <1>2 DEF Treated
<1>3. CASE \E moved \in AllMoved(s.atoms) :
             t = [s EXCEPT !.atoms = moved, !.flat = s.flat \/ ~natural]
  <2>1. PICK moved \in AllMoved(s.atoms) :
          t = [s EXCEPT !.atoms = moved, !.flat = s.flat \/ ~natural]
    BY <1>3
  <2>2. /\ DOMAIN t = DOMAIN s /\ t.atoms = moved /\ t.flat = (s.flat \/ ~natural)
        /\ t.name = s.name /\ t.saved = s.saved /\ t.radii = s.radii
    BY <2>1 DEF Fields, NewStructure
  <2> QED
    BY <1>1, <2>2 DEF Treated
<1> QED
  BY <1>1, <1>2, <1>3 DEF ScaledTo

(* The optimiser, whether it succeeds or not. *)
LEMMA OptimisedIsTreated ==
  ASSUME NEW s, DOMAIN s = Fields, NEW held, NEW action, NEW relaxed,
         NEW o \in Optimised(s, held, action, relaxed)
  PROVE  Treated(s, o.structure) /\ o.structure.atoms \in relaxed
<1> DEFINE marked == IF held = Unset THEN s ELSE [s EXCEPT !.params = held]
<1>1. Treated(s, marked) /\ DOMAIN marked = Fields /\ (marked.flat => s.flat)
  BY DEF Fields, NewStructure, Treated
<1> DEFINE best(atoms) == [marked EXCEPT !.atoms = atoms, !.energy = TRUE, !.enthalpy = TRUE]
           left(atoms) == [marked EXCEPT !.atoms = atoms]
<1>2. PICK atoms \in relaxed : o \in {[out |-> TRUE, structure |-> best(atoms)],
                                    [out |-> action = "continue", structure |-> left(atoms)]}
  BY DEF Optimised
<1>3. o.structure \in {best(atoms), left(atoms)}
  BY <1>2
<1> HIDE DEF marked
<1> QED
  BY <1>1, <1>2, <1>3 DEF Fields, NewStructure, Treated

(* The blocks that set atoms change nothing else. *)
LEMMA AtomsAreTreated ==
  ASSUME NEW s, DOMAIN s = Fields, NEW atoms
  PROVE  /\ Treated(s, [s EXCEPT !.atoms = atoms])
         /\ [s EXCEPT !.atoms = atoms].atoms = atoms
BY DEF Fields, NewStructure, Treated

(* CutAndPaste sets atoms only. *)
LEMMA CutIsTreated ==
  ASSUME NEW s, DOMAIN s = Fields, NEW opts, NEW t \in CutAndPasted(s, opts)
  PROVE  \E atoms : t = [s EXCEPT !.atoms = atoms]
BY DEF CutAndPasted

(* What each of those blocks makes of structure i. *)
LEMMA TreatsMakes ==
  ASSUME Inv, NEW i \in DOMAIN structures, DOMAIN Data(i) = Fields, Treats(i)
  PROVE  \E t : /\ Becomes(i, t) /\ Treated(Data(i), t) /\ AtomsTreated(i, t.atoms)
                /\ UNCHANGED <<pipe, disk, unique, tries>>
<1> DEFINE s == Data(i)
<1>1. StructuresOK
  BY DEF Inv
<1>2. \A t : PassOn(i, t) => Becomes(i, t) /\ UNCHANGED <<pipe, disk, unique, tries>>
  BY <1>1, PassedBecomes DEF PassOn, mainVars, engineVars
<1>3. CASE NiggliReduce(i) \/ FindSymmetryGroup(i) \/ LetThrough(i)
  <2>1. PICK t \in {s, NiggliReduced(s), SymmetryFound(s)} : PassOn(i, t)
    BY <1>3 DEF NiggliReduce, FindSymmetryGroup, LetThrough
  <2>2. Treated(s, t) /\ t.atoms = s.atoms
    BY DEF NiggliReduced, SymmetryFound, Fields, NewStructure, Treated
  <2> QED
    BY <1>2, <2>1, <2>2 DEF AtomsTreated
<1>8. CASE AutoScale(i) \/ Rescale(i)
  <2>1. PICK t \in Scaled(s, HasRadius) \cup Rescaled(s) : PassOn(i, t)
    BY <1>8 DEF AutoScale, Rescale
  <2>2. Treated(s, t) /\ t.atoms \in {s.atoms} \cup AllMoved(s.atoms)
    BY ScaledIsTreated
  <2>3. Types \cap Movers # {}
    BY <1>8 DEF AutoScale, Rescale, At, Types, Movers
  <2> QED
    BY <1>2, <2>1, <2>2, <2>3 DEF AtomsTreated
<1>4. CASE PasteFragment(i)
  <2>1. PICK atoms : atoms = s.atoms \o own[Here(i)] /\ PassOn(i, [s EXCEPT !.atoms = atoms])
    BY <1>4 DEF PasteFragment, FragmentPasted
  <2>2. AtomsTreated(i, atoms)
    BY <1>4, <2>1 DEF AtomsTreated, PasteFragment
  <2> QED
    BY <1>2, <2>1, <2>2, AtomsAreTreated
<1>5. CASE SeparateAtoms(i)
  <2>1. PICK atoms \in Separated(s.atoms, DOMAIN s.atoms) : PassOn(i, [s EXCEPT !.atoms = atoms])
    BY <1>5 DEF SeparateAtoms, AtomsSeparated
  <2>2. AtomsTreated(i, atoms)
    BY <1>5, <2>1 DEF AtomsTreated, SeparateAtoms
  <2> QED
    BY <1>2, <2>1, <2>2, AtomsAreTreated
<1>6. CASE CutAndPaste(i)
  <2>1. PICK t \in CutAndPasted(s, OptionsAt(i)) : PassOn(i, t)
    BY <1>6 DEF CutAndPaste
  <2>2. Treated(s, t)
    BY CutIsTreated, AtomsAreTreated
  <2>3. AtomsTreated(i, t.atoms)
    BY <1>6 DEF AtomsTreated, CutAndPaste
  <2> QED
    BY <1>2, <2>1, <2>2, <2>3
<1>7. CASE GeomOptimise(i)
  <2>1. PICK o \in Optimised(s, own[Here(i)], OptionsAt(i).failAction, AllMoved(s.atoms)) :
          structures' = IF o.out THEN Passed(i, o.structure) ELSE Put({i}, "dropped")
    BY <1>7 DEF GeomOptimise
  <2>2. UNCHANGED <<pipe, disk, unique, tries>>
    BY <1>7 DEF GeomOptimise, mainVars, engineVars
  <2>3. Treated(s, o.structure) /\ o.structure.atoms \in AllMoved(s.atoms)
    BY OptimisedIsTreated
  <2>4. CASE o.out
    <3>1. Types \cap Movers # {}
      BY <1>7 DEF GeomOptimise, At, Types, Movers
    <3> QED
      BY <1>1, <2>1, <2>2, <2>3, <2>4, <3>1, PassedBecomes DEF AtomsTreated
  <2>5. CASE ~o.out
    <3>1. Becomes(i, s)
      BY <1>1, <2>1, <2>5, PutKeepsData DEF Becomes, SameData, Data
    <3>2. Treated(s, s) /\ AtomsTreated(i, s.atoms)
      BY DEF Treated, AtomsTreated
    <3> QED
      BY <2>2, <3>1, <3>2
  <2> QED
    BY <2>4, <2>5
<1> QED
  BY <1>3, <1>4, <1>5, <1>6, <1>7, <1>8 DEF Treats

(* The k-th of the structures that a clone block makes of one, itself the first. *)
CopyOf(i, k) ==
  IF OptionsAt(i).giveUniqueNames # FALSE THEN Named(Data(i), Fresh(k)) ELSE Data(i)

Copies(i, n) ==
  /\ DOMAIN structures = 1..Len(structures) /\ Len(structures) \in Nat
  /\ DOMAIN structures' = 1..(Len(structures) + (n - 1))
  /\ structures'[i].data = CopyOf(i, 1) /\ structures'[i].line = structures[i].line
  /\ \A j \in DOMAIN structures : j # i => SameData(j)
  /\ \A k \in 1..(n - 1) :
       /\ structures'[Len(structures) + k].data = CopyOf(i, k + 1)
       /\ structures'[Len(structures) + k].line = structures[i].line \cup {Len(structures) + k}
  /\ unique' = unique + n
  /\ UNCHANGED <<pipe, disk, tries>>

(* One sequence behind another. *)
LEMMA Behind ==
  ASSUME NEW S, NEW q \in Seq(S), NEW T, NEW r \in Seq(T),
         NEW m \in Nat, Len(q) = m, NEW n \in Nat, Len(r) = n
  PROVE  /\ DOMAIN (q \o r) = 1..(m + n)
         /\ \A j \in 1..m : (q \o r)[j] = q[j]
         /\ \A k \in 1..n : (q \o r)[m + k] = r[k]
<1>1. q \o r \in Seq(S \cup T) /\ Len(q \o r) = m + n
  OBVIOUS
<1>2. \A j \in 1..(m + n) : (q \o r)[j] = IF j <= m THEN q[j] ELSE r[j - m]
  OBVIOUS
<1> QED
  BY <1>1, <1>2

(* A clone block makes copies, one at least: the structure itself. *)
LEMMA CloneCopies ==
  ASSUME Inv, NEW i \in DOMAIN structures, Clone(i)
  PROVE  \E n \in Nat \ {0} : Copies(i, n)
<1>1. PICK times \in IF OptionsAt(i).times = Garbage THEN GarbageTimes ELSE {OptionsAt(i).times} :
        LET out == Cloned(Data(i), times, OptionsAt(i).giveUniqueNames # FALSE,
                          [k \in 1..(IF times > 1 THEN times ELSE 1) |-> Fresh(k)])
            clones == [k \in 1..(Len(out) - 1) |->
                         Entry(out[k + 1], Here(i) + 1,
                               structures[i].line \cup {Len(structures) + k})]
        IN /\ structures' = Passed(i, out[1]) \o clones
           /\ unique' = unique + Len(out)
  BY DEF Clone
<1>2. times \in Int
  <2>1. Here(i) \in DOMAIN pipe /\ pipe[Here(i)].type = "clone"
    BY DEF Clone, At, Here
  <2>2. pipe = Pipe[document] /\ pipe # Unset /\ document \in Inputs
    BY <2>1 DEF Inv, PhaseOK
  <2> QED
    BY <2>1, <2>2, ProgramAssumption DEF OptionsAt
<1>3. PICK n \in Nat \ {0} : n = IF times > 1 THEN times ELSE 1
  BY <1>2
<1> DEFINE out == [k \in 1..n |-> CopyOf(i, k)]
<1>4. Cloned(Data(i), times, OptionsAt(i).giveUniqueNames # FALSE,
             [k \in 1..(IF times > 1 THEN times ELSE 1) |-> Fresh(k)]) = out
  BY <1>3 DEF Cloned, CopyOf
<1>5. Len(out) = n
  OBVIOUS
<1>6. \A k \in 1..n : out[k] = CopyOf(i, k)
  OBVIOUS
<1> HIDE DEF out
<1> DEFINE line(k) == structures[i].line \cup {Len(structures) + k}
           clones == [k \in 1..(n - 1) |-> Entry(out[k + 1], Here(i) + 1, line(k))]
           q == Passed(i, out[1])
<1>7. structures' = q \o clones /\ unique' = unique + n
  BY <1>1, <1>4, <1>5
<1>8. clones \in Seq({clones[k] : k \in 1..(n - 1)}) /\ Len(clones) = n - 1
      /\ \A k \in 1..(n - 1) : clones[k].data = out[k + 1] /\ clones[k].line = line(k)
  <2> HIDE DEF out, line
  <2> QED
    BY DEF Entry
<1>9. StructuresOK
  BY DEF Inv
<1>10. PICK S : structures \in Seq(S)
  BY <1>9 DEF StructuresOK, Entries
<1>11. /\ DOMAIN structures = 1..Len(structures) /\ Len(structures) \in Nat
  BY <1>10
<1>12. PICK T : q \in Seq(T)
  BY <1>9, PassedOK DEF Entries
<1>13. /\ DOMAIN q = DOMAIN structures /\ q[i].data = out[1] /\ q[i].line = structures[i].line
       /\ \A j \in DOMAIN structures : j # i => q[j] = structures[j]
  <2>1. PICK e : e = Entry(out[1], structures[i].stage + 1, structures[i].line)
    OBVIOUS
  <2>2. q = [structures EXCEPT ![i] = e]
    BY <2>1 DEF Passed
  <2>3. q[i] = e /\ DOMAIN q = DOMAIN structures
        /\ \A j \in DOMAIN structures : j # i => q[j] = structures[j]
    BY <2>2
  <2> QED
    BY <2>1, <2>3 DEF Entry
<1> HIDE DEF q, clones
<1>14. PICK m \in Nat : m = Len(structures)
  BY <1>11
<1>15. Len(q) = m
  BY <1>11, <1>12, <1>13, <1>14
<1>16. /\ DOMAIN (q \o clones) = 1..(m + (n - 1))
       /\ \A j \in 1..m : (q \o clones)[j] = q[j]
       /\ \A k \in 1..(n - 1) : (q \o clones)[m + k] = clones[k]
  <2>1. PICK U : clones \in Seq(U)
    BY <1>8
  <2>2. PICK d \in Nat : d = n - 1 /\ Len(clones) = d
    BY <1>8
  <2>3. Len(clones) = d
    BY <2>2
  <2>4. /\ DOMAIN (q \o clones) = 1..(m + d)
        /\ \A j \in 1..m : (q \o clones)[j] = q[j]
        /\ \A k \in 1..d : (q \o clones)[m + k] = clones[k]
    BY <1>12, <1>15, <2>1, <2>3, Behind
  <2> QED
    BY <2>2, <2>4
<1>17. UNCHANGED <<pipe, disk, tries>>
  BY DEF Clone, mainVars
<1>18. /\ structures'[i].data = CopyOf(i, 1) /\ structures'[i].line = structures[i].line
       /\ \A j \in DOMAIN structures : j # i => SameData(j)
  BY <1>6, <1>7, <1>11, <1>13, <1>14, <1>16 DEF SameData
<1>19. \A k \in 1..(n - 1) :
         /\ structures'[m + k].data = CopyOf(i, k + 1)
         /\ structures'[m + k].line = structures[i].line \cup {m + k}
  <2> TAKE k \in 1..(n - 1)
  <2>1. k + 1 \in 1..n
    OBVIOUS
  <2>2. structures'[m + k] = clones[k]
    BY <1>7, <1>16
  <2> QED
    BY <1>6, <1>8, <1>14, <2>1, <2>2
<1>20. Copies(i, n)
  BY <1>7, <1>11, <1>14, <1>16, <1>17, <1>18, <1>19 DEF Copies
<1> QED
  BY <1>20

(* The k-th copy, in place i or behind those there were. *)
IsCopy(i, n, j, k) ==
  /\ k \in 1..n
  /\ j = IF k = 1 THEN i ELSE Len(structures) + (k - 1)
  /\ structures'[j].data = CopyOf(i, k)
  /\ structures[i].line \subseteq structures'[j].line

(* Whoever is there after a clone block is a copy or has not changed. *)
LEMMA CopiesAre ==
  ASSUME NEW i \in DOMAIN structures, NEW n \in Nat \ {0}, Copies(i, n),
         NEW j \in DOMAIN structures'
  PROVE  \/ j \in DOMAIN structures \ {i} /\ SameData(j)
         \/ \E k \in 1..n : IsCopy(i, n, j, k)
<1>1. PICK m \in Nat : m = Len(structures)
  BY DEF Copies
<1>2. DOMAIN structures = 1..m /\ j \in 1..(m + (n - 1))
  BY <1>1 DEF Copies
<1>3. CASE j \in 1..m /\ j # i
  BY <1>2, <1>3 DEF Copies
<1>4. CASE j = i
  BY <1>4 DEF Copies, IsCopy
<1>5. CASE j \notin 1..m
  <2>1. PICK k \in 1..(n - 1) : j = m + k
    <3>1. j - m \in 1..(n - 1) /\ j = m + (j - m)
      BY <1>2, <1>5
    <3> QED
      BY <3>1
  <2>2. /\ structures'[m + k].data = CopyOf(i, k + 1)
        /\ structures'[m + k].line = structures[i].line \cup {m + k}
    BY <1>1 DEF Copies
  <2>3. k + 1 \in 1..n /\ k + 1 # 1 /\ (k + 1) - 1 = k
    OBVIOUS
  <2> QED
    BY <1>1, <2>1, <2>2, <2>3 DEF IsCopy
<1> QED
  BY <1>2, <1>3, <1>4, <1>5

(* What the block that saves structures makes of one. *)
Written(i, t) ==
  LET named == NameIfNone(Data(i), Fresh(1))
      location == SaveLocation(named, OptionsAt(i).multiWrite /\ Multi, shared, global)
  IN \/ t = Data(i) /\ UNCHANGED <<disk, unique>>
     \/ /\ unique' = IF named = Data(i) THEN unique ELSE unique + 1
        /\ \/ t = named /\ UNCHANGED disk
           \/ t = [named EXCEPT !.saved = location] /\ disk' = OnDisk(disk, i, location)

(* What WriteStructures makes of structure i. *)
LEMMA WriteMakes ==
  ASSUME Inv, NEW i \in DOMAIN structures, WriteStructures(i)
  PROVE  \E t : Becomes(i, t) /\ Written(i, t) /\ UNCHANGED <<pipe, tries>>
<1>1. \E t : structures' = Passed(i, t) /\ Written(i, t)
  BY DEF WriteStructures, Written
<1>2. UNCHANGED <<pipe, tries>>
  BY DEF WriteStructures, mainVars
<1> QED
  BY <1>1, <1>2, PassedBecomes DEF Inv

(* What the start block makes, as the last of the structures. *)
Started(s) ==
  \/ pipe[1].type = "generateStructures" /\ s = Generated(global, shared, Home, Fresh(1))
  \/ pipe[1].type = "loadStructures" /\ s = NameIfNone(own[1][tries'], Fresh(1))
  \/ /\ pipe[1].type \in NeedsPipe
     /\ \E energy, enthalpy :
          s = [NewStructure(Fresh(1), Home) EXCEPT !.energy = energy, !.enthalpy = enthalpy]

Joins(s) ==
  /\ DOMAIN structures = 1..Len(structures) /\ Len(structures) \in Nat
  /\ DOMAIN structures' = 1..(Len(structures) + 1)
  /\ \A j \in DOMAIN structures : SameData(j)
  /\ structures'[Len(structures) + 1].data = s
  /\ structures'[Len(structures) + 1].line = {Len(structures) + 1}

(* Who is sent becomes the last. *)
LEMMA SendIsJoin ==
  ASSUME StructuresOK, NEW s, Send(s)
  PROVE  Joins(s)
<1>1. PICK S : structures \in Seq(S)
  BY DEF StructuresOK, Entries
<1>2. PICK e : e = Entry(s, 2, {Len(structures) + 1}) /\ structures' = Append(structures, e)
  BY DEF Send
<1>3. /\ DOMAIN structures = 1..Len(structures) /\ Len(structures) \in Nat
      /\ DOMAIN structures' = 1..(Len(structures) + 1)
      /\ structures'[Len(structures) + 1] = e
      /\ \A j \in DOMAIN structures : structures'[j] = structures[j]
  BY <1>1, <1>2
<1> QED
  BY <1>2, <1>3 DEF Joins, SameData, Entry

(* The start block makes one structure, or none. *)
LEMMA StartMakes ==
  ASSUME Inv, Start
  PROVE  /\ UNCHANGED <<pipe, disk>> /\ tries' = tries + 1 /\ tries < MaxTries
         /\ \/ UNCHANGED <<structures, unique>>
            \/ \E s : Joins(s) /\ Started(s) /\ unique' = unique + 1
<1>1. \/ UNCHANGED <<structures, unique>>
      \/ \E s : Send(s) /\ Started(s) /\ unique' = unique + 1
  BY DEF Start, Started
<1>2. UNCHANGED <<pipe, disk>> /\ tries' = tries + 1 /\ tries < MaxTries
  BY DEF Start, mainVars
<1> QED
  BY <1>1, <1>2, SendIsJoin DEF Inv

(* Until the pipe runs there is no structure. *)
LEMMA NoneYet ==
  ASSUME Inv, ReadInput \/ BuildPipe \/ MakeEngine \/ Initialising \/ Initialised \/ Starting
  PROVE  structures = <<>> /\ structures' = <<>> /\ UNCHANGED <<disk, unique, tries>>
<1> USE DEF Before, Phases
<1>1. pc \in Before \cup Phases
  BY DEF ReadInput, BuildPipe, MakeEngine, Initialising, Initialised, Starting, NextStep
<1>2. structures = <<>>
  BY <1>1 DEF Inv, PhaseOK
<1>3. UNCHANGED <<structures, disk, unique, tries>>
  BY DEF ReadInput, BuildPipe, MakeEngine, Initialising, Initialised, Starting, Fail,
         engineVars, flowVars
<1> QED
  BY <1>2, <1>3

(* The counters count. *)
LEMMA CountsStep ==
  ASSUME Inv, CountsOK, [Next]_vars
  PROVE  CountsOK'
<1>1. CASE UNCHANGED <<unique, tries>>
  BY <1>1 DEF CountsOK
<1>2. CASE Start
  BY <1>2, StartMakes DEF CountsOK
<1>3. ASSUME NEW i \in DOMAIN structures, Stream(i)
      PROVE  CountsOK'
  <2>1. CASE Treats(i)
    BY <2>1 DEF Treats, AutoScale, Rescale, NiggliReduce, FindSymmetryGroup, PasteFragment,
                SeparateAtoms, CutAndPaste, GeomOptimise, LetThrough, PassOn, engineVars,
                CountsOK
  <2>2. CASE Clone(i)
    BY <2>2, CloneCopies DEF Copies, CountsOK
  <2>3. CASE WriteStructures(i)
    BY <2>3, WriteMakes DEF Written, CountsOK
  <2> QED
    BY <1>3, <2>1, <2>2, <2>3 DEF Stream, Treats
<1>4. CASE Moves \/ Turns
  BY <1>4, DataStaysPut DEF DataStays, CountsOK
<1>5. CASE UNCHANGED vars
  BY <1>5 DEF vars, engineVars, flowVars, CountsOK
<1> QED
  BY <1>1, <1>2, <1>3, <1>4, <1>5, StepCases, NoneYet DEF Streams

------------------------------------------------------------------------------
(* What structures were built with. *)

(* The data of a structure of the pipe p, with the database there is. *)
IsBuilt(s) ==
  /\ DOMAIN s = Fields
  /\ (HasDatabase /\ pipe[1].type = "generateStructures") => s.radii = BuiltIn

AllBuilt == \A i \in DOMAIN structures : IsBuilt(DataOf(i))

(* BuiltOK, of a pipe that runs. *)
LEMMA BuiltIs ==
  ASSUME BuiltOK, pc \in Running
  PROVE  AllBuilt
BY DEF BuiltOK, AllBuilt, IsBuilt

(* While the pipe runs a step takes what is built to what is built. *)
LEMMA BuiltGoesOn ==
  ASSUME RunFrame,
         \A j \in DOMAIN structures' : IsBuilt(structures'[j].data)
  PROVE  BuiltOK'
<1>1. HasDatabase' = HasDatabase /\ pipe' = pipe
  BY DEF RunFrame, HasDatabase, HasPotential
<1> QED
  BY <1>1 DEF BuiltOK, IsBuilt, DataOf

(* Who is sent by the block that reads structures is one of those found. *)
LEMMA LoadedIs ==
  ASSUME Inv, CountsOK, Start, pipe[1].type = "loadStructures", own[1] \in {<<>>, Loadable}
  PROVE  tries' \in DOMAIN Loadable /\ own[1] = Loadable
<1>1. tries < MaxTries /\ tries' = tries + 1 /\ tries \in Nat
  BY StartMakes DEF CountsOK
<1>2. PICK q : q = own[1] /\ MaxTries = Len(q) /\ q \in {<<>>, Loadable}
  BY DEF MaxTries
<1>3. Len(Loadable) \in Nat /\ DOMAIN Loadable = 1..Len(Loadable)
  <2>1. PICK T : Loadable \in Seq(T)
    BY InputAssumption, Zenon
  <2> QED
    BY <2>1
<1>4. q = Loadable
  <2>1. Len(<<>>) = 0
    OBVIOUS
  <2> QED
    BY <1>1, <1>2, <2>1
<1> QED
  BY <1>1, <1>2, <1>3, <1>4

(* What is sent is built with the database that has been filled. *)
LEMMA BuiltStart ==
  ASSUME Inv, EngineOK, CountsOK, BuiltOK, Start
  PROVE  BuiltOK'
<1>1. RunFrame /\ pc \in Running
  BY RunFrames DEF RunFrame
<1>2. AllBuilt
  BY <1>1, BuiltIs
<1>3. /\ HasDatabase => shared.species = BuiltIn
      /\ pipe[1].type = "loadStructures" => own[1] \in {<<>>, Loadable}
      /\ 1 \in DOMAIN own
  <2>1. 1 \in DOMAIN pipe
    BY <1>1, PipeShape DEF EngineOK, Inv
  <2> QED
    BY <1>1, <2>1 DEF EngineOK, DatabaseOK, ReadOK, Inv, PhaseOK, Running
<1>4. ASSUME NEW s, Started(s)
      PROVE  IsBuilt(s)
  <2>1. CASE pipe[1].type = "generateStructures" /\ s = Generated(global, shared, Home, Fresh(1))
    BY <1>3, <2>1 DEF Generated, NewStructure, IsBuilt, Fields
  <2>2. CASE /\ pipe[1].type = "loadStructures" /\ s = NameIfNone(own[1][tries'], Fresh(1))
    <3>1. tries' \in DOMAIN Loadable /\ own[1] = Loadable
      BY <1>3, <2>2, LoadedIs
    <3>2. PICK r : r = Loadable[tries']
      OBVIOUS
    <3>3. r = [NewStructure(r.name, r.atoms) EXCEPT
                 !.cell = r.cell, !.energy = r.energy, !.enthalpy = r.enthalpy]
      BY <3>1, <3>2, InputAssumption
    <3>4. DOMAIN r = Fields
      BY <3>3 DEF NewStructure, Fields
    <3>5. s = NameIfNone(r, Fresh(1))
      BY <2>2, <3>1, <3>2
    <3>6. DOMAIN s = Fields
      BY <3>4, <3>5 DEF NameIfNone, Named, Fields, NewStructure
    <3> QED
      BY <2>2, <3>6 DEF IsBuilt
  <2>3. CASE /\ pipe[1].type \in NeedsPipe
             /\ \E energy, enthalpy :
                  s = [NewStructure(Fresh(1), Home) EXCEPT !.energy = energy, !.enthalpy = enthalpy]
    <3>1. DOMAIN s = Fields /\ pipe[1].type # "generateStructures"
      BY <2>3 DEF NewStructure, Fields, NeedsPipe
    <3> QED
      BY <3>1 DEF IsBuilt
  <2> QED
    BY <1>4, <2>1, <2>2, <2>3 DEF Started
<1>5. CASE UNCHANGED structures
  BY <1>1, <1>2, <1>5, BuiltGoesOn DEF AllBuilt, DataOf
<1>6. CASE \E s : Joins(s) /\ Started(s)
  <2>1. PICK s : Joins(s) /\ Started(s)
    BY <1>6
  <2>2. PICK m \in Nat : m = Len(structures)
    BY <2>1 DEF Joins
  <2>3. /\ DOMAIN structures = 1..m /\ DOMAIN structures' = 1..(m + 1)
        /\ structures'[m + 1].data = s
        /\ \A j \in 1..m : structures'[j].data = structures[j].data
    BY <2>1, <2>2 DEF Joins, SameData
  <2>4. \A j \in 1..m : IsBuilt(structures'[j].data)
    BY <1>2, <2>3 DEF AllBuilt, DataOf
  <2>5. IsBuilt(structures'[m + 1].data)
    BY <1>4, <2>1, <2>3
  <2> QED
    BY <1>1, <2>3, <2>4, <2>5, BuiltGoesOn
<1> QED
  BY <1>5, <1>6, StartMakes

(* No block unsets what a structure was built with. *)
LEMMA BuiltStream ==
  ASSUME Inv, EngineOK, BuiltOK, NEW i \in DOMAIN structures, Stream(i)
  PROVE  BuiltOK'
<1>1. RunFrame /\ pc \in Running
  BY RunFrames DEF RunFrame, Streams
<1>2. AllBuilt
  BY <1>1, BuiltIs
<1>3. /\ IsBuilt(Data(i)) /\ DOMAIN Data(i) = Fields
      /\ \A j \in DOMAIN structures : IsBuilt(structures[j].data)
  BY <1>2 DEF AllBuilt, DataOf, Data, IsBuilt
<1>4. HasDatabase => shared.species = BuiltIn /\ shared.species # Unset
  BY <1>1, InputAssumption DEF EngineOK, DatabaseOK, Running
<1>5. ASSUME NEW t, Becomes(i, t), IsBuilt(t)
      PROVE  BuiltOK'
  <2>1. \A j \in DOMAIN structures' : IsBuilt(structures'[j].data)
    BY <1>3, <1>5 DEF Becomes, SameData
  <2> QED
    BY <1>1, <2>1, BuiltGoesOn
<1>6. CASE Treats(i)
  <2>1. PICK t : Becomes(i, t) /\ Treated(Data(i), t)
    BY <1>3, <1>6, TreatsMakes
  <2>2. IsBuilt(t)
    BY <1>3, <1>4, <2>1 DEF Treated, IsBuilt
  <2> QED
    BY <1>5, <2>1, <2>2
<1>7. CASE Clone(i)
  <2>1. PICK n \in Nat \ {0} : Copies(i, n)
    BY <1>7, CloneCopies
  <2>2. \A k : IsBuilt(CopyOf(i, k))
    BY <1>3 DEF CopyOf, Named, IsBuilt, Fields, NewStructure
  <2>3. \A j \in DOMAIN structures' : IsBuilt(structures'[j].data)
    BY <1>3, <2>1, <2>2, CopiesAre DEF IsCopy, SameData
  <2> QED
    BY <1>1, <2>3, BuiltGoesOn
<1>8. CASE WriteStructures(i)
  <2>1. PICK t : Becomes(i, t) /\ Written(i, t)
    BY <1>8, WriteMakes
  <2>2. PICK named, location : /\ named = NameIfNone(Data(i), Fresh(1))
                               /\ t \in {Data(i), named, [named EXCEPT !.saved = location]}
    BY <2>1 DEF Written
  <2>3. IsBuilt(named)
    BY <1>3, <2>2 DEF NameIfNone, Named, IsBuilt, Fields, NewStructure
  <2>4. IsBuilt(t)
    BY <1>3, <2>2, <2>3 DEF IsBuilt, Fields, NewStructure
  <2> QED
    BY <1>5, <2>1, <2>4
<1> QED
  BY <1>6, <1>7, <1>8 DEF Stream, Treats

(* Every step keeps BuiltOK. *)
LEMMA BuiltStep ==
  ASSUME Inv, EngineOK, CountsOK, BuiltOK, [Next]_vars
  PROVE  BuiltOK'
<1>1. CASE structures' = <<>>
  BY <1>1 DEF BuiltOK
<1>2. CASE Moves \/ Turns
  <2>1. RunFrame /\ pc \in Running
    BY <1>2, RunFrames DEF RunFrame
  <2>2. AllBuilt
    BY <2>1, BuiltIs
  <2>3. \A j \in DOMAIN structures' : IsBuilt(structures'[j].data)
    BY <1>2, <2>2, DataStaysPut DEF DataStays, SameData, AllBuilt, DataOf
  <2> QED
    BY <2>1, <2>3, BuiltGoesOn
<1>3. CASE UNCHANGED vars
  BY <1>3 DEF vars, mainVars, flowVars, engineVars, BuiltOK, DataOf, HasDatabase, Types
<1> QED
  BY <1>1, <1>2, <1>3, StepCases, NoneYet, BuiltStart, BuiltStream DEF Streams

(* Wherever an optimiser that has a potential stands in the pipe, and whatever
   else is in it, the database is filled before structures are built with it
   and before separators copy it. *)
THEOREM DatabaseAlwaysReady == Spec => []DatabaseIsReady
<1>1. Init => Inv /\ EngineOK /\ CountsOK /\ BuiltOK
  <2>1. Init => CountsOK /\ BuiltOK
    BY DEF Init, CountsOK, BuiltOK
  <2> QED
    BY <2>1, InitInv, EngineInit
<1>2. Inv /\ EngineOK /\ CountsOK /\ BuiltOK /\ [Next]_vars
        => (Inv /\ EngineOK /\ CountsOK /\ BuiltOK)'
  BY StepInv, EngineStep, CountsStep, BuiltStep
<1>3. EngineOK /\ BuiltOK => DatabaseIsReady
  <2> SUFFICES ASSUME EngineOK, BuiltOK, pc = "running", HasDatabase
               PROVE  /\ \A k \in DOMAIN pipe :
                           pipe[k].type \in Separators => own[k].database = BuiltIn
                      /\ pipe[1].type = "generateStructures" =>
                           \A i \in DOMAIN structures : structures[i].data.radii = BuiltIn
    BY DEF DatabaseIsReady
  <2>1. pc \in Running
    BY DEF Running
  <2>2. \A k \in DOMAIN pipe : pipe[k].type \in Separators => own[k].database = BuiltIn
    BY <2>1 DEF EngineOK, DatabaseOK, Running
  <2> QED
    BY <2>1, <2>2 DEF BuiltOK, DataOf
<1> QED
  BY <1>1, <1>2, <1>3, PTL DEF Spec

(* What a step makes of the cell of structure j. *)
FlattensOnlyWithoutAtoms(j) ==
  structures'[j].data.flat /\ ~Data(j).flat =>
    \A k \in DOMAIN Data(j).atoms : Data(j).atoms[k].species \notin Known

(* A block that takes structures on flattens the cell of none with a known atom. *)
LEMMA FlatStream ==
  ASSUME Inv, EngineOK, BuiltOK, HasDatabase, NEW i \in DOMAIN structures, Stream(i),
         NEW j \in DOMAIN structures
  PROVE  FlattensOnlyWithoutAtoms(j)
<1>1. pc \in Running
  BY RunFrames DEF RunFrame, Streams
<1>2. HasRadius = Known
  BY <1>1, InputAssumption DEF EngineOK, DatabaseOK, Running, HasRadius
<1>3. DOMAIN Data(i) = Fields
  BY DEF BuiltOK, DataOf, Data
<1>4. SameData(j) => FlattensOnlyWithoutAtoms(j)
  BY DEF SameData, FlattensOnlyWithoutAtoms, Data
<1>5. CASE Treats(i)
  <2>1. PICK t : Becomes(i, t) /\ Treated(Data(i), t)
    BY <1>3, <1>5, TreatsMakes
  <2>2. j = i => FlattensOnlyWithoutAtoms(j)
    BY <1>2, <2>1 DEF Becomes, Treated, FlattensOnlyWithoutAtoms
  <2> QED
    BY <1>4, <2>1, <2>2 DEF Becomes
<1>6. CASE Clone(i)
  <2>1. PICK n \in Nat \ {0} : Copies(i, n)
    BY <1>6, CloneCopies
  <2>2. \A k : CopyOf(i, k).flat = Data(i).flat
    BY <1>3 DEF CopyOf, Named, Fields, NewStructure
  <2>3. j \in DOMAIN structures'
    BY <2>1 DEF Copies
  <2>4. ASSUME NEW k \in 1..n, IsCopy(i, n, j, k)
        PROVE  FlattensOnlyWithoutAtoms(j)
    <3>1. PICK m \in Nat : m = Len(structures) /\ DOMAIN structures = 1..m
      BY <2>1 DEF Copies
    <3>2. j = i
      BY <2>4, <3>1 DEF IsCopy
    <3> QED
      BY <2>2, <2>4, <3>2 DEF IsCopy, FlattensOnlyWithoutAtoms
  <2> QED
    BY <1>4, <2>1, <2>3, <2>4, CopiesAre
<1>7. CASE WriteStructures(i)
  <2>1. PICK t : Becomes(i, t) /\ Written(i, t)
    BY <1>7, WriteMakes
  <2>2. PICK named, location : /\ named = NameIfNone(Data(i), Fresh(1))
                               /\ t \in {Data(i), named, [named EXCEPT !.saved = location]}
    BY <2>1 DEF Written
  <2>3. DOMAIN named = Fields /\ named.flat = Data(i).flat
    BY <1>3, <2>2 DEF NameIfNone, Named, Fields, NewStructure
  <2>4. t.flat = Data(i).flat
    BY <2>2, <2>3 DEF Fields, NewStructure
  <2>5. j = i => FlattensOnlyWithoutAtoms(j)
    BY <2>1, <2>4 DEF Becomes, FlattensOnlyWithoutAtoms
  <2> QED
    BY <1>4, <2>1, <2>5 DEF Becomes
<1> QED
  BY <1>5, <1>6, <1>7 DEF Stream, Treats

(* Wherever in the pipe an optimiser with a potential is, and however structures
   come to be scaled, no cell is scaled to nothing but that of a structure
   without an atom that the potential knows. *)
THEOREM FlatAlways == Spec => FlatForWantOfAtoms
<1> DEFINE FInv == Inv /\ EngineOK /\ CountsOK /\ BuiltOK
           Keeps == HasDatabase => \A j \in DOMAIN structures : FlattensOnlyWithoutAtoms(j)
<1>1. Init => FInv
  <2>1. Init => CountsOK /\ BuiltOK
    BY DEF Init, CountsOK, BuiltOK
  <2> QED
    BY <2>1, InitInv, EngineInit
<1>2. FInv /\ [Next]_vars => FInv'
  BY StepInv, EngineStep, CountsStep, BuiltStep
<1>3. ASSUME FInv, [Next]_vars
      PROVE  Keeps
  <2>1. CASE \A j \in DOMAIN structures : structures'[j].data = structures[j].data
    BY <2>1 DEF FlattensOnlyWithoutAtoms, Data
  <2>2. CASE ReadInput \/ BuildPipe \/ MakeEngine \/ Initialising \/ Initialised \/ Starting
    BY <1>3, <2>2, <2>1, NoneYet
  <2>3. CASE Start
    BY <1>3, <2>3, <2>1, StartMakes DEF Joins, SameData
  <2>4. CASE Streams
    BY <1>3, <2>4, FlatStream DEF Streams
  <2>5. CASE Moves \/ Turns
    BY <1>3, <2>5, <2>1, DataStaysPut DEF DataStays, SameData
  <2>6. CASE UNCHANGED vars
    BY <2>6, <2>1 DEF vars, flowVars
  <2> QED
    BY <1>3, <2>2, <2>3, <2>4, <2>5, <2>6, StepCases
<1>4. FInv /\ [Next]_vars =>
        [HasDatabase =>
           \A i \in DOMAIN structures :
             structures'[i].data.flat /\ ~Data(i).flat =>
               \A j \in DOMAIN Data(i).atoms : Data(i).atoms[j].species \notin Known]_vars
  BY <1>3 DEF FlattensOnlyWithoutAtoms
<1> QED
  BY <1>1, <1>2, <1>4, PTL DEF Spec, FlatForWantOfAtoms

------------------------------------------------------------------------------
(* Whose name it is, and what was saved under it. *)

NameIn(i) == DataOf(i).name
SavedIn(i) == DataOf(i).saved

(* What NamesOK says if no two are given one name. *)
NamesAreOwn ==
  /\ \A i \in DOMAIN structures : NameIn(i) \in GivenNames
  /\ \A i, j \in DOMAIN structures : NameIn(i) = NameIn(j) => i = j

SavedAreThere ==
  \A i \in DOMAIN structures :
    SavedIn(i) # Unset =>
      /\ SavedIn(i) \in DOMAIN disk
      /\ disk[SavedIn(i)] \in structures[i].line
      /\ SavedIn(i).id \in GivenNames
      /\ \A j \in DOMAIN structures : NameIn(j) = SavedIn(i).id => j = i

(* NamesOK in these words. *)
LEMMA NamesOKIs ==
  ASSUME NamesDiffer
  PROVE  NamesOK <=> NamesAreOwn /\ SavedAreThere
BY DEF NamesOK, NamesAreOwn, SavedAreThere, NameIn, SavedIn

(* After a step a structure has the name it had, or one that nobody has had. *)
KeepsName(j) == j \in DOMAIN structures /\ NameIn(j)' = NameIn(j)
IsNamed(j) == NameIn(j)' \in GivenNames' /\ NameIn(j)' \notin GivenNames

(* If names are kept or new, and no two get one name, names stay own. *)
LEMMA NamesGoOn ==
  ASSUME NamesAreOwn, GivenNames \subseteq GivenNames',
         \A j \in DOMAIN structures' : KeepsName(j) \/ IsNamed(j),
         \A j, k \in DOMAIN structures' :
           IsNamed(j) /\ IsNamed(k) /\ NameIn(j)' = NameIn(k)' => j = k
  PROVE  NamesAreOwn'
<1>1. \A j \in DOMAIN structures' : NameIn(j)' \in GivenNames'
  BY DEF NamesAreOwn, KeepsName, IsNamed
<1>2. ASSUME NEW j \in DOMAIN structures', NEW k \in DOMAIN structures',
             NameIn(j)' = NameIn(k)'
      PROVE  j = k
  <2>1. CASE KeepsName(j) /\ KeepsName(k)
    BY <1>2, <2>1 DEF NamesAreOwn, KeepsName
  <2>2. CASE IsNamed(j) /\ IsNamed(k)
    BY <1>2, <2>2
  <2>3. CASE KeepsName(j) /\ IsNamed(k)
    BY <1>2, <2>3 DEF NamesAreOwn, KeepsName, IsNamed
  <2>4. CASE IsNamed(j) /\ KeepsName(k)
    BY <1>2, <2>4 DEF NamesAreOwn, KeepsName, IsNamed
  <2> QED
    BY <2>1, <2>2, <2>3, <2>4
<1> QED
  BY <1>1, <1>2 DEF NamesAreOwn

(* Where j was saved stays so; or it goes under another name than i, of which it
   has what was saved; or it is new; or it has just been saved. *)
SavedStays(j) == KeepsName(j) /\ SavedIn(j)' = SavedIn(j) /\ structures[j].line \subseteq structures'[j].line
SavedOf(i, j) ==
  /\ i \in DOMAIN structures /\ IsNamed(i) /\ IsNamed(j)
  /\ SavedIn(j)' = SavedIn(i) /\ structures[i].line \subseteq structures'[j].line
SavedNow(j) ==
  /\ SavedIn(j)' \in DOMAIN disk' /\ disk'[SavedIn(j)'] \in structures'[j].line
  /\ SavedIn(j)'.id = NameIn(j)'

(* If, besides, who was saved stays saved, whatever is written elsewhere. *)
LEMMA SavedGoOn ==
  ASSUME NamesAreOwn, NamesAreOwn', SavedAreThere, GivenNames \subseteq GivenNames',
         \A j \in DOMAIN structures' : KeepsName(j) \/ IsNamed(j),
         \A j \in DOMAIN structures' :
           \/ SavedIn(j)' = Unset
           \/ SavedNow(j)
           \/ /\ SavedStays(j) \/ \E i : SavedOf(i, j)
              /\ SavedIn(j)' \in DOMAIN disk =>
                   SavedIn(j)' \in DOMAIN disk' /\ disk'[SavedIn(j)'] = disk[SavedIn(j)']
  PROVE  SavedAreThere'
<1> SUFFICES ASSUME NEW j \in DOMAIN structures', SavedIn(j)' # Unset
             PROVE  /\ SavedIn(j)' \in DOMAIN disk'
                    /\ disk'[SavedIn(j)'] \in structures'[j].line
                    /\ SavedIn(j)'.id \in GivenNames'
                    /\ \A k \in DOMAIN structures' : NameIn(k)' = SavedIn(j)'.id => k = j
  BY DEF SavedAreThere
<1>1. CASE SavedNow(j)
  BY <1>1 DEF NamesAreOwn, SavedNow
<1>2. ASSUME NEW i \in DOMAIN structures, SavedIn(j)' = SavedIn(i),
             structures[i].line \subseteq structures'[j].line,
             SavedIn(j)' \in DOMAIN disk =>
               SavedIn(j)' \in DOMAIN disk' /\ disk'[SavedIn(j)'] = disk[SavedIn(j)'],
             i = j \/ IsNamed(i)
      PROVE  /\ SavedIn(j)' \in DOMAIN disk'
             /\ disk'[SavedIn(j)'] \in structures'[j].line
             /\ SavedIn(j)'.id \in GivenNames'
             /\ \A k \in DOMAIN structures' : NameIn(k)' = SavedIn(j)'.id => k = j
  <2>1. /\ SavedIn(i) \in DOMAIN disk
        /\ disk[SavedIn(i)] \in structures[i].line
        /\ SavedIn(i).id \in GivenNames
        /\ \A k \in DOMAIN structures : NameIn(k) = SavedIn(i).id => k = i
    BY <1>2 DEF SavedAreThere
  <2>2. ASSUME NEW k \in DOMAIN structures', NameIn(k)' = SavedIn(j)'.id
        PROVE  k = j
    <3>1. KeepsName(k)
      BY <1>2, <2>1, <2>2 DEF IsNamed
    <3>2. k = i
      BY <1>2, <2>1, <2>2, <3>1 DEF KeepsName
    <3>3. ~IsNamed(k)
      BY <1>2, <2>1, <2>2 DEF IsNamed
    <3> QED
      BY <1>2, <3>2, <3>3
  <2> QED
    BY <1>2, <2>1, <2>2
<1> QED
  BY <1>1, <1>2 DEF SavedStays, SavedOf, KeepsName


(* A structure is in its own line. *)
LinesOK == \A i \in DOMAIN structures : i \in structures[i].line

(* Clones have their own index in their line too. *)
LEMMA LinesStep ==
  ASSUME Inv, BuiltOK, LinesOK, [Next]_vars
  PROVE  LinesOK'
<1>1. CASE structures' = <<>>
  BY <1>1 DEF LinesOK
<1>2. CASE UNCHANGED structures
  BY <1>2 DEF LinesOK
<1>3. CASE Moves \/ Turns
  BY <1>3, DataStaysPut DEF DataStays, SameData, LinesOK
<1>4. ASSUME NEW s, Joins(s)
      PROVE  LinesOK'
  <2>1. PICK m \in Nat : m = Len(structures)
    BY <1>4 DEF Joins
  <2>2. /\ DOMAIN structures = 1..m /\ DOMAIN structures' = 1..(m + 1)
        /\ structures'[m + 1].line = {m + 1}
        /\ \A j \in 1..m : structures'[j].line = structures[j].line
    BY <1>4, <2>1 DEF Joins, SameData
  <2> QED
    BY <2>2 DEF LinesOK
<1>5. ASSUME NEW i \in DOMAIN structures, NEW t, Becomes(i, t)
      PROVE  LinesOK'
  BY <1>5 DEF Becomes, SameData, LinesOK
<1>6. ASSUME NEW i \in DOMAIN structures, NEW n \in Nat \ {0}, Copies(i, n)
      PROVE  LinesOK'
  <2>1. PICK m \in Nat : m = Len(structures)
    BY <1>6 DEF Copies
  <2>2. /\ DOMAIN structures = 1..m /\ DOMAIN structures' = 1..(m + (n - 1))
        /\ \A j \in 1..m : structures'[j].line = structures[j].line
        /\ \A k \in 1..(n - 1) : m + k \in structures'[m + k].line
    BY <1>6, <2>1 DEF Copies, SameData
  <2>3. ASSUME NEW j \in 1..(m + (n - 1)), j \notin 1..m
        PROVE  j \in structures'[j].line
    <3>1. j - m \in 1..(n - 1) /\ m + (j - m) = j
      BY <2>3
    <3> QED
      BY <2>2, <3>1
  <2> QED
    BY <2>2, <2>3 DEF LinesOK
<1>7. ASSUME NEW i \in DOMAIN structures, Stream(i)
      PROVE  LinesOK'
  <2>1. DOMAIN Data(i) = Fields
    BY DEF BuiltOK, DataOf, Data
  <2>2. CASE Treats(i)
    BY <1>5, <2>1, <2>2, TreatsMakes
  <2>3. CASE Clone(i)
    BY <1>6, <2>3, CloneCopies
  <2>4. CASE WriteStructures(i)
    BY <1>5, <2>4, WriteMakes
  <2> QED
    BY <1>7, <2>2, <2>3, <2>4 DEF Stream, Treats
<1>8. CASE Start
  BY <1>2, <1>4, <1>8, StartMakes
<1> QED
  BY <1>1, <1>2, <1>3, <1>7, <1>8, StepCases, NoneYet DEF Streams, vars, flowVars

(* Names that are generated have not been given, nor has that of what is read next. *)
LEMMA FreshIsNew ==
  ASSUME CountsOK, NEW k \in Nat \ {0}
  PROVE  Fresh(k) \notin GivenNames
<1>1. ASSUME NEW j \in 1..unique
      PROVE  Fresh(k) # <<"structure", j>>
  BY <1>1 DEF CountsOK, Fresh
<1>2. ASSUME NEW j \in DOMAIN Loadable, Loadable[j].name # Unset
      PROVE  Fresh(k) # Loadable[j].name
  <2>1. PICK name : name = Loadable[j].name
    OBVIOUS
  <2>2. name[1] # "structure"
    BY <1>2, <2>1, InputAssumption
  <2>3. Fresh(k)[1] = "structure"
    BY DEF Fresh
  <2> QED
    BY <2>1, <2>2, <2>3
<1> QED
  BY <1>1, <1>2 DEF GivenNames

(* Generated names differ. *)
LEMMA FreshDiffer ==
  ASSUME CountsOK, NEW j \in Nat, NEW k \in Nat, Fresh(j) = Fresh(k)
  PROVE  j = k
BY DEF CountsOK, Fresh

(* The names generated in a step have been given after it. *)
LEMMA FreshIsGiven ==
  ASSUME CountsOK, NEW n \in Nat, unique' = unique + n, tries' \in {tries, tries + 1}
  PROVE  /\ GivenNames \subseteq GivenNames'
         /\ \A k \in 1..n : Fresh(k) \in GivenNames'
<1>1. \A k \in 1..n : unique + k \in 1..unique' /\ Fresh(k) = <<"structure", unique + k>>
  BY DEF CountsOK, Fresh
<1>2. 1..unique \subseteq 1..unique' /\ \A j : j \in Nat /\ j <= tries => j <= tries'
  BY DEF CountsOK
<1>3. \A j \in DOMAIN Loadable : j \in Nat
  <2>1. PICK T : Loadable \in Seq(T)
    BY InputAssumption, Zenon
  <2> QED
    BY <2>1
<1> QED
  BY <1>1, <1>2, <1>3 DEF GivenNames

(* So has that of the structure that was read. *)
LEMMA ReadIsNew ==
  ASSUME CountsOK, NamesDiffer, tries' = tries + 1, tries' \in DOMAIN Loadable,
         Loadable[tries'].name # Unset
  PROVE  Loadable[tries'].name \in GivenNames' \ GivenNames
<1>1. PICK n : n = tries' /\ n \in Nat /\ n <= tries' /\ ~(n <= tries) /\ n \in DOMAIN Loadable
  BY DEF CountsOK
<1>2. PICK name : name = Loadable[n].name /\ name # Unset
  BY <1>1
<1>3. name \in GivenNames'
  BY <1>1, <1>2 DEF GivenNames
<1>4. ASSUME NEW j \in 1..unique
      PROVE  name # <<"structure", j>>
  <2>1. name[1] # "structure"
    BY <1>1, <1>2, InputAssumption
  <2> QED
    BY <2>1
<1>5. \A j \in DOMAIN Loadable : j <= tries => Loadable[j].name # name
  BY <1>1, <1>2 DEF NamesDiffer
<1> QED
  BY <1>1, <1>2, <1>3, <1>4, <1>5 DEF GivenNames

(* Both together, for the steps that follow. *)
LEMMA NamesGo ==
  ASSUME NamesDiffer, NamesOK, GivenNames \subseteq GivenNames',
         \A j \in DOMAIN structures' : KeepsName(j) \/ IsNamed(j),
         \A j, k \in DOMAIN structures' :
           IsNamed(j) /\ IsNamed(k) /\ NameIn(j)' = NameIn(k)' => j = k,
         \A j \in DOMAIN structures' :
           \/ SavedIn(j)' = Unset
           \/ SavedNow(j)
           \/ /\ SavedStays(j) \/ \E i : SavedOf(i, j)
              /\ SavedIn(j)' \in DOMAIN disk =>
                   SavedIn(j)' \in DOMAIN disk' /\ disk'[SavedIn(j)'] = disk[SavedIn(j)']
  PROVE  NamesOK'
<1>1. NamesAreOwn /\ SavedAreThere
  BY NamesOKIs
<1>2. NamesAreOwn'
  BY <1>1, NamesGoOn
<1>3. SavedAreThere'
  BY <1>1, <1>2, SavedGoOn
<1> QED
  BY <1>2, <1>3 DEF NamesOK, NamesAreOwn, SavedAreThere, NameIn, SavedIn

(* Steps that leave names and places alone. *)
LEMMA NamesKept ==
  ASSUME NamesDiffer, NamesOK, DOMAIN structures' = DOMAIN structures,
         \A j \in DOMAIN structures :
           NameIn(j)' = NameIn(j) /\ SavedIn(j)' = SavedIn(j)
             /\ structures'[j].line = structures[j].line,
         UNCHANGED <<disk, unique, tries>>
  PROVE  NamesOK'
<1>1. GivenNames' = GivenNames
  BY DEF GivenNames
<1>2. \A j \in DOMAIN structures' : KeepsName(j) /\ SavedStays(j) /\ ~IsNamed(j)
  BY <1>1 DEF KeepsName, SavedStays, IsNamed, NamesOK, NameIn, DataOf
<1> QED
  BY <1>1, <1>2, NamesGo

(* Who is sent has a name that nobody has had, and has not been saved. *)
LEMMA NamesStart ==
  ASSUME Inv, EngineOK, CountsOK, NamesDiffer, NamesOK, Start
  PROVE  NamesOK'
<1>1. /\ UNCHANGED disk /\ tries' = tries + 1
      /\ \/ UNCHANGED <<structures, unique>>
         \/ \E s : Joins(s) /\ Started(s) /\ unique' = unique + 1
  BY StartMakes
<1>2. CASE UNCHANGED <<structures, unique>>
  <2>1. unique' = unique + 0
    BY <1>2 DEF CountsOK
  <2>2. GivenNames \subseteq GivenNames'
    BY <1>1, <2>1, FreshIsGiven
  <2>3. \A j \in DOMAIN structures' : KeepsName(j) /\ SavedStays(j) /\ ~IsNamed(j)
    BY <1>2 DEF KeepsName, SavedStays, IsNamed, NamesOK, NameIn, SavedIn, DataOf
  <2> QED
    BY <1>1, <2>2, <2>3, NamesGo
<1>3. ASSUME NEW s, Joins(s), Started(s), unique' = unique + 1
      PROVE  NamesOK'
  <2>1. GivenNames \subseteq GivenNames' /\ Fresh(1) \in GivenNames'
    BY <1>1, <1>3, FreshIsGiven
  <2>2. s.saved = Unset /\ s.name \in GivenNames' \ GivenNames
    <3>1. Fresh(1) \in GivenNames' \ GivenNames
      BY <2>1, FreshIsNew
    <3>2. CASE s = Generated(global, shared, Home, Fresh(1))
      BY <3>1, <3>2 DEF Generated, NewStructure
    <3>3. CASE pipe[1].type = "loadStructures" /\ s = NameIfNone(own[1][tries'], Fresh(1))
      <4>1. pipe[1].type = "loadStructures" => own[1] \in {<<>>, Loadable}
        <5>1. pc \in Running /\ PhaseOK /\ PipeOK
          BY DEF Start, Running, Inv, EngineOK
        <5>2. 1 \in DOMAIN pipe
          BY <5>1, PipeShape
        <5> QED
          BY <5>1, <5>2 DEF EngineOK, ReadOK, PhaseOK, Running, Before
      <4>2. tries' \in DOMAIN Loadable /\ own[1] = Loadable
        BY <3>3, <4>1, LoadedIs
      <4>3. PICK r : r = Loadable[tries']
        OBVIOUS
      <4>4. r = [NewStructure(r.name, r.atoms) EXCEPT
                   !.cell = r.cell, !.energy = r.energy, !.enthalpy = r.enthalpy]
        BY <4>2, <4>3, InputAssumption
      <4>5. r.saved = Unset /\ [r EXCEPT !.name = Fresh(1)].saved = Unset
            /\ [r EXCEPT !.name = Fresh(1)].name = Fresh(1)
        BY <4>4 DEF NewStructure
      <4>6. s = IF r.name = Unset THEN [r EXCEPT !.name = Fresh(1)] ELSE r
        BY <3>3, <4>2, <4>3 DEF NameIfNone, Named
      <4>7. r.name # Unset => r.name \in GivenNames' \ GivenNames
        BY <1>1, <4>2, <4>3, ReadIsNew
      <4> QED
        BY <3>1, <4>5, <4>6, <4>7
    <3>4. CASE \E energy, enthalpy :
                 s = [NewStructure(Fresh(1), Home) EXCEPT !.energy = energy, !.enthalpy = enthalpy]
      BY <3>1, <3>4 DEF NewStructure
    <3> QED
      BY <1>3, <3>2, <3>3, <3>4 DEF Started
  <2>3. PICK m \in Nat : m = Len(structures)
    BY <1>3 DEF Joins
  <2>4. /\ DOMAIN structures = 1..m /\ DOMAIN structures' = 1..(m + 1)
        /\ structures'[m + 1].data = s
        /\ \A j \in 1..m : SameData(j)
    BY <1>3, <2>3 DEF Joins
  <2>5. \A j \in 1..m : KeepsName(j) /\ SavedStays(j) /\ ~IsNamed(j)
    BY <2>4 DEF SameData, KeepsName, SavedStays, IsNamed, NamesOK, NameIn, SavedIn, DataOf
  <2>6. IsNamed(m + 1) /\ SavedIn(m + 1)' = Unset
    BY <2>2, <2>4 DEF IsNamed, NameIn, SavedIn, DataOf
  <2>7. \A j \in 1..(m + 1) : j \in 1..m \/ j = m + 1
    OBVIOUS
  <2> QED
    BY <1>1, <2>1, <2>4, <2>5, <2>6, <2>7, NamesGo
<1> QED
  BY <1>1, <1>2, <1>3

(* A clone block gives every copy a new name, the first, in the place of the
   structure itself, included; where it was saved goes with all of them. *)
LEMMA NamesClone ==
  ASSUME Inv, CountsOK, BuiltOK, NamesDiffer, NamesOK,
         NEW i \in DOMAIN structures, Clone(i)
  PROVE  NamesOK'
<1>1. PICK n \in Nat \ {0} : Copies(i, n)
  BY CloneCopies
<1>2. OptionsAt(i).giveUniqueNames # FALSE
  BY DEF NamesDiffer, Clone, At, Here, OptionsAt
<1>3. DOMAIN Data(i) = Fields
  BY DEF BuiltOK, DataOf, Data
<1>4. \A k : CopyOf(i, k).name = Fresh(k) /\ CopyOf(i, k).saved = SavedIn(i)
  BY <1>2, <1>3 DEF CopyOf, Named, Fields, NewStructure, SavedIn, DataOf, Data
<1>5. unique' = unique + n /\ UNCHANGED <<disk, tries>> /\ i \in DOMAIN structures'
  BY <1>1 DEF Copies
<1>6. GivenNames \subseteq GivenNames' /\ \A k \in 1..n : Fresh(k) \in GivenNames' \ GivenNames
  <2>1. \A k \in 1..n : k \in Nat \ {0}
    OBVIOUS
  <2> QED
    BY <1>5, <2>1, FreshIsGiven, FreshIsNew
<1>7. \A j \in DOMAIN structures' :
        \/ KeepsName(j) /\ SavedStays(j) /\ ~IsNamed(j)
        \/ \E k \in 1..n : IsCopy(i, n, j, k)
  <2>1. \A j \in DOMAIN structures : SameData(j) => KeepsName(j) /\ SavedStays(j) /\ ~IsNamed(j)
    BY DEF SameData, KeepsName, SavedStays, IsNamed, NamesOK, NameIn, SavedIn, DataOf
  <2> QED
    BY <1>1, <2>1, CopiesAre
<1>8. \A j, k : IsCopy(i, n, j, k) =>
        /\ NameIn(j)' = Fresh(k) /\ SavedIn(j)' = SavedIn(i) /\ IsNamed(j)
        /\ structures[i].line \subseteq structures'[j].line
  BY <1>4, <1>6 DEF IsCopy, IsNamed, NameIn, SavedIn, DataOf
<1>9. IsCopy(i, n, i, 1)
  BY <1>1 DEF IsCopy, Copies
<1>10. \A j, k : IsCopy(i, n, j, k) => SavedOf(i, j)
  BY <1>8, <1>9 DEF SavedOf
<1>11. ASSUME NEW j \in DOMAIN structures', NEW k \in DOMAIN structures',
              IsNamed(j), IsNamed(k), NameIn(j)' = NameIn(k)'
       PROVE  j = k
  <2>1. PICK a \in 1..n, b \in 1..n : IsCopy(i, n, j, a) /\ IsCopy(i, n, k, b)
    BY <1>7, <1>11
  <2>2. a = b
    BY <1>8, <1>11, <2>1, FreshDiffer
  <2> QED
    BY <2>1, <2>2 DEF IsCopy
<1> QED
  BY <1>5, <1>6, <1>7, <1>8, <1>10, <1>11, NamesGo

(* Who writes does so under a name that is its own: nobody else was saved there. *)
LEMMA NamesWrite ==
  ASSUME Inv, CountsOK, BuiltOK, LinesOK, NamesDiffer, NamesOK,
         NEW i \in DOMAIN structures, WriteStructures(i)
  PROVE  NamesOK'
<1>1. PICK t : Becomes(i, t) /\ Written(i, t) /\ tries' = tries
  BY WriteMakes
<1>2. PICK named, location : /\ named = NameIfNone(Data(i), Fresh(1))
                             /\ location = SaveLocation(named, OptionsAt(i).multiWrite /\ Multi,
                                                        shared, global)
  OBVIOUS
<1>3. DOMAIN Data(i) = Fields
  BY DEF BuiltOK, DataOf, Data
<1>4. \/ named = Data(i)
      \/ named.name = Fresh(1) /\ named.saved = Data(i).saved
  BY <1>2, <1>3 DEF NameIfNone, Named, Fields, NewStructure
<1>5. DOMAIN named = Fields /\ location.id = named.name
  BY <1>2, <1>3 DEF NameIfNone, Named, Fields, NewStructure, SaveLocation
<1>6. [named EXCEPT !.saved = location].name = named.name
      /\ [named EXCEPT !.saved = location].saved = location
  BY <1>5 DEF Fields, NewStructure
<1>7. /\ \/ unique' = unique /\ t.name = NameIn(i)
         \/ unique' = unique + 1 /\ t.name = Fresh(1)
      /\ \/ t.saved = SavedIn(i) /\ UNCHANGED disk
         \/ t.saved = location /\ location.id = t.name /\ disk' = OnDisk(disk, i, location)
  BY <1>1, <1>2, <1>4, <1>5, <1>6 DEF Written, NameIn, SavedIn, DataOf, Data
<1>8. GivenNames \subseteq GivenNames'
      /\ (unique' = unique + 1 => Fresh(1) \in GivenNames' \ GivenNames)
  <2>1. CASE unique' = unique
    BY <1>1, <2>1 DEF GivenNames, CountsOK
  <2>2. CASE unique' = unique + 1
    BY <1>1, <2>2, FreshIsGiven, FreshIsNew
  <2> QED
    BY <1>7, <2>1, <2>2
<1>9. /\ DOMAIN structures' = DOMAIN structures
      /\ NameIn(i)' = t.name /\ SavedIn(i)' = t.saved
      /\ structures'[i].line = structures[i].line
      /\ \A j \in DOMAIN structures \ {i} : KeepsName(j) /\ SavedStays(j) /\ ~IsNamed(j)
  BY <1>1 DEF Becomes, SameData, KeepsName, SavedStays, IsNamed, NamesOK, NameIn, SavedIn, DataOf
<1>10. KeepsName(i) \/ IsNamed(i)
  BY <1>7, <1>8, <1>9 DEF KeepsName, IsNamed
<1>11. \/ t.saved = location /\ SavedNow(i)
       \/ UNCHANGED disk /\ (SavedStays(i) \/ SavedOf(i, i))
  <2>1. CASE t.saved = location /\ location.id = t.name /\ disk' = OnDisk(disk, i, location)
    <3>1. location \in DOMAIN disk' /\ disk'[location] = i
      BY <2>1 DEF OnDisk
    <3> QED
      BY <1>9, <2>1, <3>1 DEF SavedNow, LinesOK
  <2>2. CASE t.saved = SavedIn(i) /\ UNCHANGED disk
    BY <1>9, <1>10, <2>2 DEF SavedStays, SavedOf
  <2> QED
    BY <1>7, <2>1, <2>2
<1>12. ASSUME NEW j \in DOMAIN structures \ {i}, SavedIn(j) # Unset, SavedIn(j) \in DOMAIN disk
       PROVE  SavedIn(j) \in DOMAIN disk' /\ disk'[SavedIn(j)] = disk[SavedIn(j)]
  <2>1. SavedIn(j).id \in GivenNames
        /\ \A k \in DOMAIN structures : NameIn(k) = SavedIn(j).id => k = j
    BY <1>12, NamesOKIs DEF SavedAreThere
  <2>2. CASE UNCHANGED disk
    BY <1>12, <2>2
  <2>3. CASE location.id = t.name /\ disk' = OnDisk(disk, i, location)
    <3>1. SavedIn(j).id # t.name
      BY <1>7, <1>8, <2>1
    <3> QED
      BY <1>12, <2>3, <3>1 DEF OnDisk
  <2> QED
    BY <1>7, <2>2, <2>3
<1>13. \A j \in DOMAIN structures \ {i} : SavedIn(j)' = SavedIn(j)
  BY <1>9 DEF SavedStays
<1> QED
  BY <1>8, <1>9, <1>10, <1>11, <1>12, <1>13, NamesGo

(* Every step keeps NamesOK. *)
LEMMA NamesStep ==
  ASSUME Inv, EngineOK, CountsOK, BuiltOK, LinesOK, NamesOK, [Next]_vars
  PROVE  NamesOK'
<1>1. CASE structures' = <<>>
  BY <1>1 DEF NamesOK
<1>2. CASE UNCHANGED vars
  BY <1>2 DEF vars, mainVars, engineVars, flowVars, NamesOK, NamesDiffer, GivenNames, DataOf
<1>3. CASE Start \/ Streams \/ Moves \/ Turns
  <2>1. NamesDiffer' = NamesDiffer
    BY <1>3, RunFrames DEF RunFrame, NamesDiffer
  <2>2. CASE ~NamesDiffer
    BY <2>1, <2>2 DEF NamesOK
  <2>3. CASE NamesDiffer
    <3>1. CASE Moves \/ Turns
      BY <2>3, <3>1, DataStaysPut, NamesKept DEF DataStays, SameData, NameIn, SavedIn, DataOf
    <3>2. ASSUME NEW i \in DOMAIN structures, Treats(i)
          PROVE  NamesOK'
      <4>1. DOMAIN Data(i) = Fields
        BY DEF BuiltOK, DataOf, Data
      <4>2. PICK t : /\ Becomes(i, t) /\ Treated(Data(i), t)
                     /\ UNCHANGED <<disk, unique, tries>>
        BY <3>2, <4>1, TreatsMakes
      <4>3. /\ DOMAIN structures' = DOMAIN structures
            /\ \A j \in DOMAIN structures :
                 NameIn(j)' = NameIn(j) /\ SavedIn(j)' = SavedIn(j)
                   /\ structures'[j].line = structures[j].line
        BY <4>2 DEF Becomes, SameData, Treated, NameIn, SavedIn, DataOf, Data
      <4> QED
        BY <2>3, <4>2, <4>3, NamesKept
    <3> QED
      BY <1>3, <2>3, <3>1, <3>2, NamesStart, NamesClone, NamesWrite DEF Streams, Stream, Treats
  <2> QED
    BY <2>2, <2>3
<1> QED
  BY <1>1, <1>2, <1>3, StepCases, NoneYet

(* Names are each structure's own, through clones and saves, and a name that was
   given up is given to nobody: so nobody writes to where another was saved. *)
THEOREM SavedAlwaysThere == Spec => []SavedIsThere
<1> DEFINE SInv == Inv /\ EngineOK /\ CountsOK /\ BuiltOK /\ LinesOK /\ NamesOK
<1>1. Init => SInv
  <2>1. Init => CountsOK /\ BuiltOK /\ LinesOK /\ NamesOK
    BY DEF Init, CountsOK, BuiltOK, LinesOK, NamesOK
  <2> QED
    BY <2>1, InitInv, EngineInit
<1>2. SInv /\ [Next]_vars => SInv'
  BY StepInv, EngineStep, CountsStep, BuiltStep, LinesStep, NamesStep
<1>3. SInv => SavedIsThere
  BY DEF SavedIsThere, NamesOK, NamesDiffer, DataOf
<1> QED
  BY <1>1, <1>2, <1>3, PTL DEF Spec


------------------------------------------------------------------------------
(* Where atoms are. *)

(* g is the recursive function that chooses atoms, up to each of them. *)
Chooses(g, atoms, inside) ==
  g = [k \in 0..Len(atoms) |->
         IF k = 0 THEN <<>>
         ELSE IF atoms[k].inShape = inside THEN Append(g[k - 1], atoms[k])
         ELSE g[k - 1]]

(* The function is there: one that is right up to n makes one that is right up
   to n + 1. *)
LEMMA ChoosesExists ==
  ASSUME NEW A, NEW atoms \in Seq(A), NEW inside
  PROVE  \E g : Chooses(g, atoms, inside)
<1> DEFINE Step(g) == [k \in 0..Len(atoms) |->
                         IF k = 0 THEN <<>>
                         ELSE IF atoms[k].inShape = inside THEN Append(g[k - 1], atoms[k])
                         ELSE g[k - 1]]
           Right(g, n) == \A k \in 0..Len(atoms) : k <= n => g[k] = Step(g)[k]
           Good == {n \in Nat : \E g : Right(g, n)}
<1>1. Len(atoms) \in Nat
  OBVIOUS
<1>2. 0 \in Good
  <2>1. \A k \in 0..Len(atoms) : k <= 0 => k = 0
    BY <1>1
  <2>2. [k \in 0..Len(atoms) |-> <<>>][0] = Step([k \in 0..Len(atoms) |-> <<>>])[0]
    BY <1>1
  <2>3. Right([k \in 0..Len(atoms) |-> <<>>], 0)
    BY <2>1, <2>2
  <2> QED
    BY <2>3
<1>3. ASSUME NEW n \in Nat, n \in Good
      PROVE  n + 1 \in Good
  <2>1. PICK g : Right(g, n)
    BY <1>3
  <2>2. ASSUME NEW k \in 0..Len(atoms), k <= n + 1
        PROVE  Step(g)[k] = Step(Step(g))[k]
    <3>1. CASE k = 0
      BY <1>1, <3>1
    <3>2. CASE k # 0
      <4>1. PICK j \in 0..Len(atoms) : j = k - 1 /\ j <= n
        BY <1>1, <2>2, <3>2
      <4>2. g[j] = Step(g)[j]
        BY <2>1, <4>1
      <4> QED
        BY <3>2, <4>1, <4>2
    <3> QED
      BY <3>1, <3>2
  <2>3. Right(Step(g), n + 1)
    BY <2>2
  <2> QED
    <3> HIDE DEF Right, Step
    <3> QED
      BY <2>3
<1>4. Len(atoms) \in Good
  <2> HIDE DEF Good
  <2> QED
    BY <1>1, <1>2, <1>3, NumberInduction
<1>5. PICK g : Right(g, Len(atoms))
  BY <1>4
<1>6. \A k \in 0..Len(atoms) : Step(Step(g))[k] = Step(g)[k]
  <2> TAKE k \in 0..Len(atoms)
  <2>1. CASE k = 0
    BY <1>1, <2>1
  <2>2. CASE k # 0
    <3>1. PICK j \in 0..Len(atoms) : j = k - 1 /\ j <= Len(atoms)
      BY <1>1, <2>2
    <3>2. g[j] = Step(g)[j]
      BY <1>5, <3>1
    <3> QED
      BY <2>2, <3>1, <3>2
  <2> QED
    BY <2>1, <2>2
<1>7. Step(Step(g)) = Step(g)
  BY <1>6
<1> QED
  BY <1>7 DEF Chooses

(* The atoms chosen are some of the atoms, all inside or all not. *)
LEMMA ChosenAre ==
  ASSUME NEW A, NEW atoms \in Seq(A), NEW inside
  PROVE  Chosen(atoms, inside) \in Seq({a \in A : a.inShape = inside})
<1> DEFINE B == {a \in A : a.inShape = inside}
           it == CHOOSE g : Chooses(g, atoms, inside)
           Good == {n \in Nat : n <= Len(atoms) => it[n] \in Seq(B)}
<1>1. Chosen(atoms, inside) = it[Len(atoms)]
  BY DEF Chosen, Chooses
<1>2. Chooses(it, atoms, inside)
  BY ChoosesExists
<1>3. Len(atoms) \in Nat /\ \A k \in 1..Len(atoms) : atoms[k] \in A
  OBVIOUS
<1> HIDE DEF it
<1>4. 0 \in Good
  <2>1. it[0] = <<>>
    BY <1>2, <1>3 DEF Chooses
  <2>2. <<>> \in Seq(B)
    OBVIOUS
  <2> HIDE DEF B
  <2> QED
    BY <2>1, <2>2
<1>5. ASSUME NEW n \in Nat, n \in Good
      PROVE  n + 1 \in Good
  <2> SUFFICES ASSUME n + 1 <= Len(atoms)
               PROVE  it[n + 1] \in Seq(B)
    OBVIOUS
  <2>1. it[n] \in Seq(B)
    BY <1>3, <1>5
  <2>2. PICK m \in 1..Len(atoms) : m = n + 1 /\ m - 1 = n /\ m # 0 /\ m \in 0..Len(atoms)
    BY <1>3
  <2>3. it[m] = IF atoms[m].inShape = inside THEN Append(it[n], atoms[m]) ELSE it[n]
    <3>1. it[m] = IF m = 0 THEN <<>>
                  ELSE IF atoms[m].inShape = inside THEN Append(it[m - 1], atoms[m])
                  ELSE it[m - 1]
      <4> HIDE DEF Good, B
      <4> QED
        BY <1>2, <2>2, Zenon DEF Chooses
    <3> QED
      BY <2>2, <3>1
  <2>4. atoms[m].inShape = inside => atoms[m] \in B
    BY <1>3, <2>2
  <2> HIDE DEF B
  <2> QED
    BY <2>1, <2>2, <2>3, <2>4
<1>6. Len(atoms) \in Good
  <2> HIDE DEF Good
  <2> QED
    BY <1>3, <1>4, <1>5, NumberInduction
<1> QED
  BY <1>1, <1>3, <1>6

AtomFine(a) == IsAtom(a) /\ (Fixes => Stays(a))
AtomsAre(atoms) == atoms \in Seq(ToSet(atoms)) /\ \A j \in DOMAIN atoms : AtomFine(atoms[j])

(* A sequence of atoms that are fine. *)
LEMMA AtomsOf ==
  ASSUME NEW A, \A a \in A : AtomFine(a), NEW atoms \in Seq(A)
  PROVE  AtomsAre(atoms)
<1>1. Len(atoms) \in Nat /\ DOMAIN atoms = 1..Len(atoms) /\ \A j \in DOMAIN atoms : atoms[j] \in A
  OBVIOUS
<1>2. atoms = [j \in 1..Len(atoms) |-> atoms[j]]
  OBVIOUS
<1>3. \A j \in 1..Len(atoms) : atoms[j] \in ToSet(atoms)
  BY <1>1 DEF ToSet
<1>4. atoms \in Seq(ToSet(atoms))
  BY <1>1, <1>2, <1>3
<1> QED
  BY <1>1, <1>4 DEF AtomsAre

(* And the other way round. *)
LEMMA AtomsAreOf ==
  ASSUME NEW atoms, AtomsAre(atoms)
  PROVE  \E A : atoms \in Seq(A) /\ \A a \in A : AtomFine(a)
<1>1. atoms \in Seq(ToSet(atoms)) /\ \A a \in ToSet(atoms) : AtomFine(a)
  BY DEF AtomsAre, ToSet
<1> QED
  BY <1>1

(* Atoms that are at home are where they should be. *)
LEMMA AtHomeAreFine ==
  ASSUME NEW atoms, AtHome(atoms)
  PROVE  AtomsAre(atoms)
BY DEF AtHome, AtomsAre, AtomFine, IsAtom, Stays

(* One list of atoms behind another. *)
LEMMA AtomsJoin ==
  ASSUME NEW p, AtomsAre(p), NEW q, AtomsAre(q)
  PROVE  AtomsAre(p \o q)
<1>1. PICK A : p \in Seq(A) /\ \A a \in A : AtomFine(a)
  BY AtomsAreOf
<1>2. PICK B : q \in Seq(B) /\ \A a \in B : AtomFine(a)
  BY AtomsAreOf
<1>3. p \o q \in Seq(A \cup B)
  BY <1>1, <1>2
<1> QED
  BY <1>1, <1>2, <1>3, AtomsOf

(* Atoms that have been cut may be put anywhere, and others moved by what moves
   all. *)
LEMMA ShiftedAre ==
  ASSUME NEW atoms, AtomsAre(atoms), NEW which, NEW at,
         \A j \in which \cap DOMAIN atoms :
           Fixes => atoms[j].cut \/ (at = "moved" /\ Types \cap Movers # {}),
         NEW put \in Shifted(atoms, which, at)
  PROVE  AtomsAre(put)
<1>1. PICK inside :
        put = [j \in DOMAIN atoms |->
                 IF j \in which THEN [atoms[j] EXCEPT !.at = at, !.inShape = j \in inside]
                 ELSE atoms[j]]
  BY DEF Shifted
<1>2. \A j \in DOMAIN atoms : AtomFine(put[j])
  <2> TAKE j \in DOMAIN atoms
  <2>1. AtomFine(atoms[j])
    BY DEF AtomsAre
  <2>2. CASE j \notin which
    BY <1>1, <2>1, <2>2
  <2>3. CASE j \in which
    <3>1. put[j] = [atoms[j] EXCEPT !.at = at, !.inShape = j \in inside]
      BY <1>1, <2>3
    <3>2. /\ DOMAIN put[j] = DOMAIN atoms[j]
          /\ put[j].at = at /\ put[j].cut = atoms[j].cut
          /\ put[j].inShape = (j \in inside)
      BY <2>1, <3>1 DEF AtomFine, IsAtom
    <3> QED
      BY <2>1, <2>3, <3>2 DEF AtomFine, IsAtom, Stays
  <2> QED
    BY <2>2, <2>3
<1>3. PICK n \in Nat : n = Len(atoms) /\ DOMAIN atoms = 1..n
  <2>1. PICK A : atoms \in Seq(A)
    BY DEF AtomsAre
  <2> QED
    BY <2>1
<1>4. PICK A : A = {put[j] : j \in 1..n}
  OBVIOUS
<1>5. put \in Seq(A)
  <2>1. DOMAIN put = 1..n /\ put = [j \in 1..n |-> put[j]]
    BY <1>1, <1>3
  <2>2. \A j \in 1..n : put[j] \in A
    BY <1>4
  <2> QED
    BY <2>1, <2>2
<1>6. \A a \in A : AtomFine(a)
  BY <1>2, <1>3, <1>4
<1> QED
  BY <1>5, <1>6, AtomsOf

(* A separator may move what may be moved. *)
LEMMA SeparatedAre ==
  ASSUME NEW atoms, AtomsAre(atoms), NEW free,
         \A j \in free \cap DOMAIN atoms : Fixes => atoms[j].cut,
         NEW placed \in Separated(atoms, free)
  PROVE  AtomsAre(placed)
BY ShiftedAre DEF Separated

(* What is cut out and pasted stands behind the rest, so the rest is what is
   fixed, and it is as it was. *)
LEMMA CutAre ==
  ASSUME NEW s, DOMAIN s = Fields, AtomsAre(s.atoms), NEW opts, Fixes => opts.fixUntouched,
         NEW t \in CutAndPasted(s, opts)
  PROVE  AtomsAre(t.atoms)
<1>1. PICK A : s.atoms \in Seq(A) /\ \A a \in A : AtomFine(a)
  BY AtomsAreOf
<1> DEFINE kept == Chosen(s.atoms, FALSE)
           moved == Chosen(s.atoms, TRUE)
           pasted == [k \in DOMAIN moved |-> [moved[k] EXCEPT !.at = "random", !.cut = TRUE]]
           all == kept \o pasted
           free == DOMAIN all \ (IF opts.fixUntouched THEN 1..Len(kept) ELSE {})
           Outside == {a \in A : a.inShape = FALSE}
           Inside == {a \in A : a.inShape = TRUE}
           Pasted == {[a EXCEPT !.at = "random", !.cut = TRUE] : a \in Inside}
<1>2. kept \in Seq(Outside) /\ moved \in Seq(Inside)
  BY <1>1, ChosenAre
<1>3. \A k \in DOMAIN moved : moved[k] \in Inside
  <2> HIDE DEF moved, Inside
  <2> QED
    BY <1>2
<1>4. pasted \in Seq(Pasted)
  <2>1. PICK d \in Nat : d = Len(moved) /\ DOMAIN moved = 1..d
    <3> HIDE DEF moved, Inside
    <3> QED
      BY <1>2
  <2>2. \A k \in 1..d : pasted[k] \in Pasted
    BY <1>3, <2>1
  <2>3. pasted = [k \in 1..d |-> pasted[k]]
    BY <2>1
  <2> HIDE DEF pasted, Pasted
  <2> QED
    BY <2>2, <2>3
<1>5. /\ \A a \in Outside : AtomFine(a)
      /\ \A a \in Pasted : AtomFine(a) /\ a.cut
  BY <1>1 DEF AtomFine, IsAtom, Stays
<1>6. t \in {[s EXCEPT !.atoms = kept], [s EXCEPT !.atoms = all]}
      \/ \E placed \in Separated(all, free) : t = [s EXCEPT !.atoms = placed]
  BY DEF CutAndPasted
<1>7. \A atoms : [s EXCEPT !.atoms = atoms].atoms = atoms
  BY DEF Fields, NewStructure
<1> HIDE DEF kept, pasted, all, free, Outside, Pasted
<1>8. AtomsAre(kept) /\ AtomsAre(pasted)
  BY <1>2, <1>4, <1>5, AtomsOf
<1>9. AtomsAre(all)
  BY <1>8, AtomsJoin DEF all
<1>10. \A j \in free \cap DOMAIN all : Fixes => all[j].cut
  <2> SUFFICES ASSUME NEW j \in DOMAIN all, j \in free, Fixes
               PROVE  all[j].cut
    OBVIOUS
  <2>1. PICK m \in Nat : m = Len(kept)
    BY <1>2
  <2>2. PICK d \in Nat : d = Len(pasted)
    BY <1>4
  <2>3. j \notin 1..m
    BY <2>1 DEF free
  <2>4. /\ DOMAIN all = 1..(m + d)
        /\ \A k \in 1..d : all[m + k] = pasted[k]
    BY <1>2, <1>4, <2>1, <2>2, Behind DEF all
  <2>5. PICK k \in 1..d : j = m + k
    <3>1. j - m \in 1..d /\ j = m + (j - m)
      BY <2>3, <2>4
    <3> QED
      BY <3>1
  <2>6. pasted[k] \in Pasted
    BY <1>4, <2>2
  <2> QED
    BY <1>5, <2>4, <2>5, <2>6
<1>11. \A placed \in Separated(all, free) : AtomsAre(placed)
  BY <1>9, <1>10, SeparatedAre
<1> QED
  BY <1>6, <1>7, <1>8, <1>9, <1>11

AllAtomsAre == \A i \in DOMAIN structures : AtomsAre(DataOf(i).atoms)

(* AtomsOK in these words. *)
LEMMA AtomsOKIs == AtomsOK <=> AllAtomsAre
BY DEF AtomsOK, AllAtomsAre, AtomsAre, AtomFine

(* A step of the running pipe takes atoms that are fine to such. *)
LEMMA AtomsGoOn ==
  ASSUME RunFrame, \A j \in DOMAIN structures' : AtomsAre(structures'[j].data.atoms)
  PROVE  AtomsOK'
<1>1. Fixes' = Fixes
  BY DEF RunFrame, Fixes, Types
<1>2. Types' = Types
  BY DEF RunFrame, Types
<1> QED
  BY <1>1, <1>2 DEF AtomsOK, AtomsAre, AtomFine, IsAtom, Stays, DataOf

(* Structures are built and read with their atoms at home. *)
LEMMA AtomsStart ==
  ASSUME Inv, EngineOK, CountsOK, AtomsOK, Start
  PROVE  AtomsOK'
<1>1. RunFrame /\ pc \in Running
  BY RunFrames DEF RunFrame
<1>2. AllAtomsAre
  BY AtomsOKIs
<1>3. AtomsAre(Home) /\ \A k \in DOMAIN Loadable : AtomsAre(Loadable[k].atoms)
  BY InputAssumption, AtHomeAreFine
<1>4. ASSUME NEW s, Started(s)
      PROVE  AtomsAre(s.atoms)
  <2>1. CASE s = Generated(global, shared, Home, Fresh(1))
    <3>1. global.generation = Unset
      BY DEF EngineOK, DatabaseOK, NewGlobal
    <3>2. s.atoms = Home
      BY <2>1, <3>1 DEF Generated, NewStructure
    <3> QED
      BY <1>3, <3>2
  <2>2. CASE pipe[1].type = "loadStructures" /\ s = NameIfNone(own[1][tries'], Fresh(1))
    <3>1. pipe[1].type = "loadStructures" => own[1] \in {<<>>, Loadable}
      <4>1. 1 \in DOMAIN pipe
        BY <1>1, PipeShape DEF EngineOK, Inv
      <4> QED
        BY <1>1, <4>1 DEF EngineOK, ReadOK, Inv, PhaseOK, Running
    <3>2. tries' \in DOMAIN Loadable /\ own[1] = Loadable
      BY <2>2, <3>1, LoadedIs
    <3>3. PICK r : r = Loadable[tries']
      OBVIOUS
    <3>4. r = [NewStructure(r.name, r.atoms) EXCEPT
                 !.cell = r.cell, !.energy = r.energy, !.enthalpy = r.enthalpy]
      BY <3>2, <3>3, InputAssumption
    <3>5. [r EXCEPT !.name = Fresh(1)].atoms = r.atoms
      BY <3>4 DEF NewStructure
    <3>6. s.atoms = r.atoms
      BY <2>2, <3>2, <3>3, <3>5 DEF NameIfNone, Named
    <3> QED
      BY <1>3, <3>2, <3>3, <3>6
  <2>3. CASE \E energy, enthalpy :
               s = [NewStructure(Fresh(1), Home) EXCEPT !.energy = energy, !.enthalpy = enthalpy]
    <3>1. s.atoms = Home
      BY <2>3 DEF NewStructure
    <3> QED
      BY <1>3, <3>1
  <2> QED
    BY <1>4, <2>1, <2>2, <2>3 DEF Started
<1>5. CASE UNCHANGED structures
  BY <1>1, <1>2, <1>5, AtomsGoOn DEF AllAtomsAre, DataOf
<1>6. ASSUME NEW s, Joins(s), Started(s)
      PROVE  AtomsOK'
  <2>1. PICK m \in Nat : m = Len(structures)
    BY <1>6 DEF Joins
  <2>2. /\ DOMAIN structures = 1..m /\ DOMAIN structures' = 1..(m + 1)
        /\ structures'[m + 1].data = s
        /\ \A j \in 1..m : structures'[j].data = structures[j].data
    BY <1>6, <2>1 DEF Joins, SameData
  <2>3. \A j \in 1..m : AtomsAre(structures'[j].data.atoms)
    BY <1>2, <2>2 DEF AllAtomsAre, DataOf
  <2>4. AtomsAre(structures'[m + 1].data.atoms)
    BY <1>4, <1>6, <2>2
  <2> QED
    BY <1>1, <2>2, <2>3, <2>4, AtomsGoOn
<1> QED
  BY <1>5, <1>6, StartMakes

(* What each block does to where atoms are. *)
LEMMA AtomsStream ==
  ASSUME Inv, EngineOK, BuiltOK, AtomsOK, NEW i \in DOMAIN structures, Stream(i)
  PROVE  AtomsOK'
<1>1. RunFrame /\ pc \in Running
  BY RunFrames DEF RunFrame, Streams
<1>2. AllAtomsAre
  BY AtomsOKIs
<1>3. /\ DOMAIN Data(i) = Fields /\ AtomsAre(Data(i).atoms)
      /\ \A j \in DOMAIN structures : AtomsAre(structures[j].data.atoms)
  BY <1>2 DEF BuiltOK, AllAtomsAre, DataOf, Data
<1>4. ASSUME NEW t, Becomes(i, t), AtomsAre(t.atoms)
      PROVE  AtomsOK'
  <2>1. \A j \in DOMAIN structures' : AtomsAre(structures'[j].data.atoms)
    BY <1>3, <1>4 DEF Becomes, SameData
  <2> QED
    BY <1>1, <2>1, AtomsGoOn
<1>5. CASE Treats(i)
  <2>1. PICK t : Becomes(i, t) /\ AtomsTreated(i, t.atoms)
    BY <1>3, <1>5, TreatsMakes
  <2>2. AtomsAre(t.atoms)
    <3>1. CASE At(i, "pasteFragment") /\ t.atoms = Data(i).atoms \o own[Here(i)]
      <4>1. own[Here(i)] \in {<<>>, Fragment}
        BY <1>1, <3>1 DEF At, Here, EngineOK, ReadOK, Inv, PhaseOK, Running
      <4>2. AtomsAre(<<>>) /\ AtomsAre(Fragment)
        <5>1. <<>> \in Seq({}) /\ \A a \in {} : AtomFine(a)
          OBVIOUS
        <5>2. AtomsAre(<<>>)
          BY <5>1, AtomsOf
        <5> QED
          BY <5>2, InputAssumption, AtHomeAreFine
      <4>3. AtomsAre(own[Here(i)])
        BY <4>1, <4>2
      <4> QED
        BY <1>3, <3>1, <4>3, AtomsJoin
    <3>2. CASE /\ At(i, "separateAtoms")
               /\ t.atoms \in Separated(Data(i).atoms, DOMAIN Data(i).atoms)
      <4>1. ~Fixes
        BY <3>2 DEF At, Fixes, Types
      <4> QED
        BY <1>3, <3>2, <4>1, SeparatedAre
    <3>3. CASE /\ At(i, "cutAndPaste")
               /\ t.atoms \in {u.atoms : u \in CutAndPasted(Data(i), OptionsAt(i))}
      <4>1. Fixes => OptionsAt(i).fixUntouched
        BY <3>3 DEF At, Here, OptionsAt, Fixes
      <4> QED
        BY <1>3, <3>3, <4>1, CutAre
    <3>4. CASE Types \cap Movers # {} /\ t.atoms \in AllMoved(Data(i).atoms)
      BY <1>3, <3>4, ShiftedAre DEF AllMoved
    <3> QED
      BY <1>3, <2>1, <3>1, <3>2, <3>3, <3>4 DEF AtomsTreated
  <2> QED
    BY <1>4, <2>1, <2>2
<1>6. CASE Clone(i)
  <2>1. PICK n \in Nat \ {0} : Copies(i, n)
    BY <1>6, CloneCopies
  <2>2. \A k : AtomsAre(CopyOf(i, k).atoms)
    BY <1>3 DEF CopyOf, Named, Fields, NewStructure
  <2>3. \A j \in DOMAIN structures' : AtomsAre(structures'[j].data.atoms)
    BY <1>3, <2>1, <2>2, CopiesAre DEF IsCopy, SameData
  <2> QED
    BY <1>1, <2>3, AtomsGoOn
<1>7. CASE WriteStructures(i)
  <2>1. PICK t : Becomes(i, t) /\ Written(i, t)
    BY <1>7, WriteMakes
  <2>2. PICK named, location : /\ named = NameIfNone(Data(i), Fresh(1))
                               /\ t \in {Data(i), named, [named EXCEPT !.saved = location]}
    BY <2>1 DEF Written
  <2>3. DOMAIN named = Fields /\ named.atoms = Data(i).atoms
    BY <1>3, <2>2 DEF NameIfNone, Named, Fields, NewStructure
  <2>4. t.atoms = Data(i).atoms
    BY <2>2, <2>3 DEF Fields, NewStructure
  <2> QED
    BY <1>3, <1>4, <2>1, <2>4
<1> QED
  BY <1>5, <1>6, <1>7 DEF Stream, Treats

(* Every step keeps AtomsOK. *)
LEMMA AtomsStep ==
  ASSUME Inv, EngineOK, CountsOK, BuiltOK, AtomsOK, [Next]_vars
  PROVE  AtomsOK'
<1>1. CASE structures' = <<>>
  BY <1>1 DEF AtomsOK
<1>2. CASE Moves \/ Turns
  <2>1. RunFrame
    BY <1>2, RunFrames
  <2>2. \A j \in DOMAIN structures' : AtomsAre(structures'[j].data.atoms)
    BY <1>2, DataStaysPut, AtomsOKIs DEF DataStays, SameData, AllAtomsAre, DataOf
  <2> QED
    BY <2>1, <2>2, AtomsGoOn
<1>3. CASE UNCHANGED vars
  BY <1>3 DEF vars, mainVars, flowVars, AtomsOK, DataOf, Fixes, Types, Stays
<1> QED
  BY <1>1, <1>2, <1>3, StepCases, NoneYet, AtomsStart, AtomsStream DEF Streams

(* If no block separates all atoms and every CutAndPaste fixes what it does not
   touch, atoms that none has cut out stay where they were built or read, or
   where a block that moves all atoms with the cell or relaxes them has taken
   them, through every block of every pipe, clones and fragments included. *)
THEOREM UntouchedAlwaysStay == Spec => []UntouchedStay
<1> DEFINE AInv == Inv /\ EngineOK /\ CountsOK /\ BuiltOK /\ AtomsOK
<1>1. Init => AInv
  <2>1. Init => CountsOK /\ BuiltOK /\ AtomsOK
    BY DEF Init, CountsOK, BuiltOK, AtomsOK
  <2> QED
    BY <2>1, InitInv, EngineInit
<1>2. AInv /\ [Next]_vars => AInv'
  BY StepInv, EngineStep, CountsStep, BuiltStep, AtomsStep
<1>3. AInv => UntouchedStay
  BY DEF UntouchedStay, AtomsOK, Fixes, Stays, DataOf
<1> QED
  BY <1>1, <1>2, <1>3, PTL DEF Spec


------------------------------------------------------------------------------
(* Which blocks are loaded. *)

BlockOf(entries, pipes, k) ==
  IF entries[k].type \in Registered THEN Creator(entries[k], pipes[entries[k].pipe]) ELSE Unset

WithBlock(blocks, name, handle) ==
  IF handle = Unset THEN blocks
  ELSE [n \in DOMAIN blocks \cup {name} |-> IF n = name THEN handle ELSE blocks[n]]

NoBlocks == [name \in {} |-> Unset]

(* g is the recursive function behind the fold over the entries: it takes the last
   of a set of entries off, and loads it after the others. *)
Loads(g, entries, pipes) ==
  g = [s \in SUBSET DOMAIN entries |->
         IF s = {} THEN NoBlocks
         ELSE WithBlock(g[s \ {Max(s)}], entries[Max(s)].name, BlockOf(entries, pipes, Max(s)))]

(* The last of some entries is one of them. *)
LEMMA LastOf ==
  ASSUME NEW n \in Nat, NEW s \in SUBSET (1..n), s # {}
  PROVE  Max(s) \in s /\ \A x \in s : Max(s) >= x
<1> DEFINE Good == {k \in Nat : \A t \in SUBSET (1..k) : t # {} => \E x \in t : \A y \in t : x >= y}
<1>1. 0 \in Good
  <2>1. \A t \in SUBSET (1..0) : t = {}
    OBVIOUS
  <2> QED
    BY <2>1
<1>2. ASSUME NEW k \in Nat, k \in Good
      PROVE  k + 1 \in Good
  <2>1. ASSUME NEW t \in SUBSET (1..(k + 1)), t # {}
        PROVE  \E x \in t : \A y \in t : x >= y
    <3>1. CASE k + 1 \in t
      BY <2>1, <3>1
    <3>2. CASE k + 1 \notin t
      <4>1. t \in SUBSET (1..k)
        BY <2>1, <3>2
      <4> QED
        BY <1>2, <2>1, <4>1
    <3> QED
      BY <3>1, <3>2
  <2> QED
    BY <2>1
<1>3. n \in Good
  <2> HIDE DEF Good
  <2> QED
    BY <1>1, <1>2, NumberInduction
<1>4. \E x \in s : \A y \in s : x >= y
  BY <1>3
<1> QED
  BY <1>4 DEF Max

(* The function is there. *)
LEMMA LoadsExists ==
  ASSUME NEW E, NEW entries \in Seq(E), NEW pipes
  PROVE  \E g : Loads(g, entries, pipes)
<1> DEFINE Step(g) ==
             [s \in SUBSET DOMAIN entries |->
                IF s = {} THEN NoBlocks
                ELSE WithBlock(g[s \ {Max(s)}], entries[Max(s)].name,
                               BlockOf(entries, pipes, Max(s)))]
           Right(g, n) == \A s \in SUBSET (1..n) : s \subseteq DOMAIN entries => g[s] = Step(g)[s]
           Good == {n \in Nat : \E g : Right(g, n)}
<1>1. PICK last \in Nat : DOMAIN entries = 1..last
  <2>1. Len(entries) \in Nat /\ DOMAIN entries = 1..Len(entries)
    OBVIOUS
  <2> QED
    BY <2>1
<1>2. 0 \in Good
  <2>1. [s \in SUBSET DOMAIN entries |-> NoBlocks][{}]
          = Step([s \in SUBSET DOMAIN entries |-> NoBlocks])[{}]
    OBVIOUS
  <2>2. \A s \in SUBSET (1..0) : s = {}
    OBVIOUS
  <2>3. Right([s \in SUBSET DOMAIN entries |-> NoBlocks], 0)
    BY <2>1, <2>2
  <2> QED
    BY <2>3
<1>3. ASSUME NEW n \in Nat, n \in Good
      PROVE  n + 1 \in Good
  <2>1. PICK g : Right(g, n)
    BY <1>3
  <2>2. ASSUME NEW s \in SUBSET (1..(n + 1)), s \subseteq DOMAIN entries
        PROVE  Step(g)[s] = Step(Step(g))[s]
    <3>1. CASE s = {}
      BY <3>1
    <3>2. CASE s # {}
      <4>1. Max(s) \in s /\ \A x \in s : Max(s) >= x
        <5>1. PICK m \in Nat : m = n + 1
          OBVIOUS
        <5>2. s \in SUBSET (1..m)
          BY <5>1
        <5> HIDE DEF Good, Right, Step
        <5> QED
          BY <3>2, <5>2, LastOf
      <4>2. PICK t : t = s \ {Max(s)}
        OBVIOUS
      <4>3. t \in SUBSET (1..n) /\ t \subseteq DOMAIN entries
        BY <2>2, <4>1, <4>2
      <4>4. g[t] = Step(g)[t]
        BY <2>1, <4>3
      <4>5. \A h : Step(h)[s] = WithBlock(h[t], entries[Max(s)].name,
                                          BlockOf(entries, pipes, Max(s)))
        BY <2>2, <3>2, <4>2
      <4> HIDE DEF Step
      <4> QED
        BY <4>4, <4>5
    <3> QED
      BY <3>1, <3>2
  <2>3. Right(Step(g), n + 1)
    BY <2>2
  <2> QED
    <3> HIDE DEF Right, Step
    <3> QED
      BY <2>3
<1>4. last \in Good
  <2> HIDE DEF Good
  <2> QED
    BY <1>2, <1>3, NumberInduction
<1>5. PICK g : Right(g, last)
  BY <1>4
<1>6. \A s \in SUBSET DOMAIN entries : g[s] = Step(g)[s]
  <2> HIDE DEF Step
  <2> QED
    BY <1>1, <1>5
<1>7. \A s \in SUBSET DOMAIN entries : Step(Step(g))[s] = Step(g)[s]
  <2> TAKE s \in SUBSET DOMAIN entries
  <2>1. CASE s = {}
    BY <2>1
  <2>2. CASE s # {}
    <3>1. PICK t : t = s \ {Max(s)}
      OBVIOUS
    <3>2. t \in SUBSET DOMAIN entries
      BY <3>1
    <3>3. g[t] = Step(g)[t]
      BY <1>6, <3>2
    <3>4. \A h : Step(h)[s] = WithBlock(h[t], entries[Max(s)].name,
                                        BlockOf(entries, pipes, Max(s)))
      BY <2>2, <3>1
    <3> HIDE DEF Step
    <3> QED
      BY <3>3, <3>4
  <2> QED
    BY <2>1, <2>2
<1>8. Step(Step(g)) = Step(g)
  BY <1>7
<1> QED
  BY <1>8 DEF Loads

(* Loading is what that function makes of all the entries. *)
LEMMA LoadedIsChosen ==
  ASSUME NEW E, NEW entries \in Seq(E), NEW pipes
  PROVE  \E g : Loads(g, entries, pipes) /\ Loaded(entries, pipes) = g[DOMAIN entries]
<1> DEFINE it == CHOOSE g : Loads(g, entries, pipes)
<1>1. Loaded(entries, pipes) = it[DOMAIN entries]
  BY DEF Loaded, FoldLeft, MapThenFoldSet, Loads, WithBlock, BlockOf, NoBlocks
<1>2. Loads(it, entries, pipes)
  BY LoadsExists
<1> QED
  BY <1>1, <1>2

(* Entries up to the k-th, one after another. *)
LEMMA LoadsNext ==
  ASSUME NEW E, NEW entries \in Seq(E), NEW pipes, NEW g, Loads(g, entries, pipes)
  PROVE  /\ g[1..0] = NoBlocks
         /\ \A k \in DOMAIN entries :
              g[1..k] = WithBlock(g[1..(k - 1)], entries[k].name, BlockOf(entries, pipes, k))
<1>1. Len(entries) \in Nat /\ DOMAIN entries = 1..Len(entries)
  OBVIOUS
<1>2. g[1..0] = NoBlocks
  <2>1. 1..0 = {} /\ {} \in SUBSET DOMAIN entries
    OBVIOUS
  <2> QED
    BY <2>1, Zenon DEF Loads
<1>3. ASSUME NEW k \in DOMAIN entries
      PROVE  g[1..k] = WithBlock(g[1..(k - 1)], entries[k].name, BlockOf(entries, pipes, k))
  <2>1. k \in Nat /\ k \in 1..k /\ (1..k) \ {k} = 1..(k - 1)
    BY <1>1
  <2>2. Max(1..k) = k
    <3>1. Max(1..k) \in 1..k /\ \A x \in 1..k : Max(1..k) >= x
      BY <2>1, LastOf
    <3> QED
      BY <2>1, <3>1
  <2>3. PICK s \in SUBSET DOMAIN entries : s = 1..k /\ s # {}
    <3>1. \A j \in 1..k : j \in DOMAIN entries
      BY <1>1
    <3>2. 1..k \in SUBSET DOMAIN entries
      BY <3>1
    <3> QED
      BY <2>1, <3>2
  <2>4. g[s] = WithBlock(g[s \ {Max(s)}], entries[Max(s)].name, BlockOf(entries, pipes, Max(s)))
    BY <2>3, Zenon DEF Loads
  <2> QED
    BY <2>1, <2>2, <2>3, <2>4
<1> QED
  BY <1>2, <1>3

(* Entry k makes a block, of that name. *)
MakesBlock(entries, pipes, k, name) ==
  entries[k].name = name /\ BlockOf(entries, pipes, k) # Unset

(* A name has a block if an entry of that name makes one, and it has that of the
   last of them. *)
LEMMA LoadedAre ==
  ASSUME NEW E, NEW entries \in Seq(E), NEW pipes, NEW name
  PROVE  LET blocks == Loaded(entries, pipes)
         IN /\ name \in DOMAIN blocks <=>
                 \E k \in DOMAIN entries : MakesBlock(entries, pipes, k, name)
            /\ name \in DOMAIN blocks =>
                 \E k \in DOMAIN entries :
                   /\ MakesBlock(entries, pipes, k, name)
                   /\ \A j \in DOMAIN entries : MakesBlock(entries, pipes, j, name) => j <= k
                   /\ blocks[name] = BlockOf(entries, pipes, k)
<1>1. PICK g : Loads(g, entries, pipes) /\ Loaded(entries, pipes) = g[DOMAIN entries]
  BY LoadedIsChosen
<1>2. PICK last \in Nat : DOMAIN entries = 1..last
  <2>1. Len(entries) \in Nat /\ DOMAIN entries = 1..Len(entries)
    OBVIOUS
  <2> QED
    BY <2>1
<1> DEFINE Gives(k) == MakesBlock(entries, pipes, k, name)
           Has(k) ==
             /\ name \in DOMAIN g[1..k] <=> \E j \in 1..k : Gives(j)
             /\ name \in DOMAIN g[1..k] =>
                  \E j \in 1..k : /\ Gives(j)
                                  /\ \A i \in 1..k : Gives(i) => i <= j
                                  /\ g[1..k][name] = BlockOf(entries, pipes, j)
           Good == {k \in Nat : k <= last => Has(k)}
<1>3. 0 \in Good
  <2>1. g[1..0] = NoBlocks
    BY <1>1, LoadsNext
  <2>2. Has(0)
    BY <2>1 DEF NoBlocks
  <2> QED
    BY <2>2
<1>4. ASSUME NEW n \in Nat, n \in Good
      PROVE  n + 1 \in Good
  <2> SUFFICES ASSUME n + 1 <= last
               PROVE  Has(n + 1)
    OBVIOUS
  <2>1. PICK k \in DOMAIN entries : k = n + 1 /\ k - 1 = n /\ k \in Nat
    BY <1>2
  <2>2. Has(n)
    BY <1>2, <1>4
  <2>3. g[1..k] = WithBlock(g[1..n], entries[k].name, BlockOf(entries, pipes, k))
    BY <1>1, <2>1, LoadsNext
  <2>4. 1..k = (1..n) \cup {k} /\ \A j \in 1..n : j <= k
    BY <2>1
  <2> DEFINE old == g[1..n]
             new == g[1..k]
             handle == BlockOf(entries, pipes, k)
  <2> HIDE DEF old, new, handle
  <2>5. CASE handle = Unset
    <3>1. new = old /\ ~Gives(k)
      BY <2>3, <2>5 DEF WithBlock, MakesBlock, old, new, handle
    <3>2. Has(k)
      <4> HIDE DEF Gives
      <4> QED
        BY <2>2, <2>4, <3>1 DEF old, new
    <3> QED
      BY <2>1, <3>2
  <2>6. CASE handle # Unset
    <3>1. new = [m \in DOMAIN old \cup {entries[k].name} |->
                   IF m = entries[k].name THEN handle ELSE old[m]]
      BY <2>3, <2>6 DEF WithBlock, old, new, handle
    <3>2. Gives(k) <=> entries[k].name = name
      BY <2>6 DEF MakesBlock, handle
    <3>3. CASE entries[k].name = name
      <4>1. name \in DOMAIN new /\ new[name] = handle
        BY <3>1, <3>3
      <4>2. Has(k)
        <5>1. k \in 1..k /\ \A i \in 1..k : i <= k
          BY <2>1
        <5> HIDE DEF Gives
        <5> QED
          BY <3>2, <3>3, <4>1, <5>1 DEF new, handle
      <4> QED
        BY <2>1, <4>2
    <3>4. CASE entries[k].name # name
      <4>1. name \in DOMAIN new <=> name \in DOMAIN old
        BY <3>1, <3>4
      <4>2. name \in DOMAIN old => new[name] = old[name]
        BY <3>1, <3>4
      <4>3. ~Gives(k)
        BY <3>2, <3>4
      <4>4. Has(k)
        <5> HIDE DEF Gives
        <5> QED
          BY <2>2, <2>4, <4>1, <4>2, <4>3 DEF old, new
      <4> QED
        BY <2>1, <4>4
    <3> QED
      BY <3>3, <3>4
  <2> QED
    BY <2>5, <2>6
<1>5. last \in Good
  <2> HIDE DEF Good
  <2> QED
    BY <1>3, <1>4, NumberInduction
<1> QED
  BY <1>1, <1>2, <1>5

(* SubPipe and Sound are functions that are there: each value is made of those
   before it. *)
LEMMA SubPipeIs ==
  /\ SubPipe[0] = Unset
  /\ \A n \in 1..Len(Document) :
       SubPipe[n] = Connected(Loaded(Document[n].entries, [m \in 0..(n - 1) |-> SubPipe[m]]),
                              Words(Document[n].run))
<1> DEFINE Of(g, n) == Connected(Loaded(Document[n].entries, [m \in 0..(n - 1) |-> g[m]]),
                                 Words(Document[n].run))
           Step(g) == [n \in 0..Len(Document) |-> IF n = 0 THEN Unset ELSE Of(g, n)]
           Right(g, k) == \A n \in 0..Len(Document) : n <= k => g[n] = Step(g)[n]
           Good == {k \in Nat : \E g : Right(g, k)}
<1>1. Len(Document) \in Nat
  <2>1. PICK D : Document \in Seq(D)
    BY DocumentAssumption
  <2> QED
    BY <2>1
<1>2. \A g, h : \A n \in 0..Len(Document) :
        (\A m \in 0..(n - 1) : g[m] = h[m]) => Of(g, n) = Of(h, n)
  <2> TAKE g, h
  <2> TAKE n \in 0..Len(Document)
  <2> HAVE \A m \in 0..(n - 1) : g[m] = h[m]
  <2>1. [m \in 0..(n - 1) |-> g[m]] = [m \in 0..(n - 1) |-> h[m]]
    OBVIOUS
  <2> QED
    BY <2>1
<1> HIDE DEF Of
<1>3. 0 \in Good
  <2>1. \A n \in 0..Len(Document) : n <= 0 => n = 0
    BY <1>1
  <2>2. [n \in 0..Len(Document) |-> Unset][0] = Step([n \in 0..Len(Document) |-> Unset])[0]
    BY <1>1
  <2>3. Right([n \in 0..Len(Document) |-> Unset], 0)
    BY <2>1, <2>2
  <2> QED
    BY <2>3
<1>4. ASSUME NEW k \in Nat, k \in Good
      PROVE  k + 1 \in Good
  <2>1. PICK g : Right(g, k)
    BY <1>4
  <2>2. ASSUME NEW n \in 0..Len(Document), n <= k + 1
        PROVE  Step(g)[n] = Step(Step(g))[n]
    <3>1. CASE n = 0
      BY <3>1
    <3>2. CASE n # 0
      <4>1. \A m \in 0..(n - 1) : m \in 0..Len(Document) /\ m <= k
        BY <1>1, <2>2
      <4>2. \A m \in 0..(n - 1) : g[m] = Step(g)[m]
        BY <2>1, <4>1
      <4>3. \A h : Step(h)[n] = Of(h, n)
        BY <3>2
      <4> HIDE DEF Step
      <4> QED
        BY <1>2, <4>2, <4>3
    <3> QED
      BY <3>1, <3>2
  <2>3. Right(Step(g), k + 1)
    BY <2>2
  <2> QED
    <3> HIDE DEF Right, Step
    <3> QED
      BY <2>3
<1>5. Len(Document) \in Good
  <2> HIDE DEF Good
  <2> QED
    BY <1>1, <1>3, <1>4, NumberInduction
<1>6. PICK g : Right(g, Len(Document))
  BY <1>5
<1>7. \A n \in 0..Len(Document) : Step(Step(g))[n] = Step(g)[n]
  <2> TAKE n \in 0..Len(Document)
  <2>1. CASE n = 0
    BY <2>1
  <2>2. CASE n # 0
    <3>1. \A m \in 0..(n - 1) : m \in 0..Len(Document) /\ m <= Len(Document)
      BY <1>1
    <3>2. \A m \in 0..(n - 1) : g[m] = Step(g)[m]
      BY <1>6, <3>1
    <3>3. \A h : Step(h)[n] = Of(h, n)
      BY <2>2
    <3> HIDE DEF Step
    <3> QED
      BY <1>2, <3>2, <3>3
  <2> QED
    BY <2>1, <2>2
<1>8. Step(Step(g)) = Step(g)
  BY <1>7
<1>9. \E h : h = Step(h)
  <2> HIDE DEF Step
  <2> QED
    BY <1>8
<1>10. SubPipe = CHOOSE h : h = Step(h)
  BY DEF SubPipe, Of
<1>11. SubPipe = Step(SubPipe)
  <2> HIDE DEF Step
  <2> QED
    BY <1>9, <1>10
<1>12. SubPipe[0] = Unset /\ \A n \in 1..Len(Document) : SubPipe[n] = Of(SubPipe, n)
  <2> HIDE DEF Of
  <2>1. \A n \in 0..Len(Document) : SubPipe[n] = IF n = 0 THEN Unset ELSE Of(SubPipe, n)
    BY <1>11, Zenon
  <2> QED
    BY <1>1, <2>1
<1> QED
  BY <1>12 DEF Of

(* What documents have a pipe is settled in their order. *)
LEMMA SoundStep ==
  /\ Sound[0] = {}
  /\ \A n \in 1..Len(Document) :
       LET before == Sound[n - 1]
           names == ToSet(Words(Document[n].run))
       IN Sound[n] = IF names # {} /\ \A name \in names : Borne(n, before, name) # {}
                     THEN before \cup {n} ELSE before
<1> DEFINE Of(before, n) ==
             LET names == ToSet(Words(Document[n].run))
             IN IF names # {} /\ \A name \in names : Borne(n, before, name) # {}
                THEN before \cup {n} ELSE before
           Step(g) == [n \in 0..Len(Document) |-> IF n = 0 THEN {} ELSE Of(g[n - 1], n)]
           Right(g, k) == \A n \in 0..Len(Document) : n <= k => g[n] = Step(g)[n]
           Good == {k \in Nat : \E g : Right(g, k)}
<1>1. Len(Document) \in Nat
  <2>1. PICK D : Document \in Seq(D)
    BY DocumentAssumption
  <2> QED
    BY <2>1
<1> HIDE DEF Of
<1>2. 0 \in Good
  <2>1. \A n \in 0..Len(Document) : n <= 0 => n = 0
    BY <1>1
  <2>2. [n \in 0..Len(Document) |-> {}][0] = Step([n \in 0..Len(Document) |-> {}])[0]
    BY <1>1
  <2>3. Right([n \in 0..Len(Document) |-> {}], 0)
    BY <2>1, <2>2
  <2> QED
    BY <2>3
<1>3. ASSUME NEW k \in Nat, k \in Good
      PROVE  k + 1 \in Good
  <2>1. PICK g : Right(g, k)
    BY <1>3
  <2>2. ASSUME NEW n \in 0..Len(Document), n <= k + 1
        PROVE  Step(g)[n] = Step(Step(g))[n]
    <3>1. CASE n = 0
      BY <3>1
    <3>2. CASE n # 0
      <4>1. n - 1 \in 0..Len(Document) /\ n - 1 <= k
        BY <1>1, <2>2, <3>2
      <4>2. g[n - 1] = Step(g)[n - 1]
        BY <2>1, <4>1
      <4>3. \A h : Step(h)[n] = Of(h[n - 1], n)
        BY <3>2
      <4> HIDE DEF Step
      <4> QED
        BY <4>2, <4>3
    <3> QED
      BY <3>1, <3>2
  <2>3. Right(Step(g), k + 1)
    BY <2>2
  <2> QED
    <3> HIDE DEF Right, Step
    <3> QED
      BY <2>3
<1>4. Len(Document) \in Good
  <2> HIDE DEF Good
  <2> QED
    BY <1>1, <1>2, <1>3, NumberInduction
<1>5. PICK g : Right(g, Len(Document))
  BY <1>4
<1>6. \A n \in 0..Len(Document) : Step(Step(g))[n] = Step(g)[n]
  <2> TAKE n \in 0..Len(Document)
  <2>1. CASE n = 0
    BY <2>1
  <2>2. CASE n # 0
    <3>1. n - 1 \in 0..Len(Document) /\ n - 1 <= Len(Document)
      BY <1>1, <2>2
    <3>2. g[n - 1] = Step(g)[n - 1]
      BY <1>5, <3>1
    <3>3. \A h : Step(h)[n] = Of(h[n - 1], n)
      BY <2>2
    <3> HIDE DEF Step
    <3> QED
      BY <3>2, <3>3
  <2> QED
    BY <2>1, <2>2
<1>7. Step(Step(g)) = Step(g)
  BY <1>6
<1>8. \E h : h = Step(h)
  <2> HIDE DEF Step
  <2> QED
    BY <1>7
<1>9. Sound = CHOOSE h : h = Step(h)
  BY DEF Sound, Of
<1>10. Sound = Step(Sound)
  <2> HIDE DEF Step
  <2> QED
    BY <1>8, <1>9
<1>11. Sound[0] = {} /\ \A n \in 1..Len(Document) : Sound[n] = Of(Sound[n - 1], n)
  <2>1. \A n \in 0..Len(Document) : Sound[n] = IF n = 0 THEN {} ELSE Of(Sound[n - 1], n)
    BY <1>10, Zenon
  <2> QED
    BY <1>1, <2>1
<1> QED
  BY <1>11 DEF Of

(* What the entry makes its block of. *)
PipeOf(entry) == IF entry.type \in NeedsPipe THEN SubPipe[entry.pipe] ELSE Unset

(* The documents whose pipes there are, among those an entry may name. *)
Knows(before, n) == \A m \in 0..(n - 1) : m \in before <=> SubPipe[m] # Unset

(* An entry makes a block if it is borne by those that can be run. *)
LEMMA BlocksAre ==
  ASSUME NEW n \in DOMAIN Document, NEW k \in DOMAIN Document[n].entries,
         NEW pipes \in {SubPipe, [m \in 0..(n - 1) |-> SubPipe[m]]},
         NEW before, Knows(before, n), NEW name
  PROVE  /\ MakesBlock(Document[n].entries, pipes, k, name) <=> k \in Borne(n, before, name)
         /\ k \in Borne(n, before, name) =>
              BlockOf(Document[n].entries, pipes, k)
                = Block(Document[n].entries[k], PipeOf(Document[n].entries[k]))
<1>1. PICK entry : entry = Document[n].entries[k]
  OBVIOUS
<1>2. entry.pipe \in 0..(n - 1)
  BY <1>1, DocumentAssumption
<1>3. pipes[entry.pipe] = SubPipe[entry.pipe]
  BY <1>2
<1>4. entry.type \in Registered => /\ Block(entry, Unset) # Unset
                                   /\ Block(entry, SubPipe[entry.pipe]) # Unset
  BY <1>1, UnsetAssumption
<1>5. entry.type \in NeedsPart => entry.type \notin NeedsPipe
  BY DEF NeedsPart, NeedsPipe
<1>6. PICK block : block = BlockOf(Document[n].entries, pipes, k)
  OBVIOUS
<1>7. block = IF entry.type \in Registered THEN Creator(entry, SubPipe[entry.pipe]) ELSE Unset
  BY <1>1, <1>3, <1>6 DEF BlockOf
<1>8. Creator(entry, SubPipe[entry.pipe])
        = IF entry.type \in NeedsPipe
          THEN IF SubPipe[entry.pipe] = Unset THEN Unset ELSE Block(entry, SubPipe[entry.pipe])
          ELSE IF entry.type \in NeedsPart /\ entry.part = Unset THEN Unset ELSE Block(entry, Unset)
  BY DEF Creator, CreateSweepBlock, CreateBlock, NotMade
<1>9. block # Unset <=> /\ entry.type \in Registered
                        /\ entry.type \in NeedsPart => entry.part # Unset
                        /\ entry.type \in NeedsPipe => SubPipe[entry.pipe] # Unset
  BY <1>4, <1>5, <1>7, <1>8
<1>10. k \in Borne(n, before, name) <=>
         /\ entry.name = name /\ entry.type \in Registered
         /\ entry.type \in NeedsPart => entry.part # Unset
         /\ entry.type \in NeedsPipe => entry.pipe \in before
  BY <1>1 DEF Borne
<1>11. entry.pipe \in before <=> SubPipe[entry.pipe] # Unset
  BY <1>2 DEF Knows
<1>12. MakesBlock(Document[n].entries, pipes, k, name) <=> entry.name = name /\ block # Unset
  BY <1>1, <1>6 DEF MakesBlock
<1>13. block # Unset => block = Block(entry, PipeOf(entry))
  BY <1>7, <1>8 DEF PipeOf
<1> QED
  BY <1>1, <1>6, <1>9, <1>10, <1>11, <1>12, <1>13

(* The blocks `made` of a document are, name by name, those of the last entry that
   bears the name. *)
MadeOf(n, before, made) ==
  /\ DOMAIN made = DOMAIN Words(Document[n].run)
  /\ \A i \in DOMAIN Words(Document[n].run) :
       \E k \in Borne(n, before, Words(Document[n].run)[i]) :
         /\ \A j \in Borne(n, before, Words(Document[n].run)[i]) : j <= k
         /\ made[i] = Block(Document[n].entries[k], PipeOf(Document[n].entries[k]))

(* The blocks of a document are connected if each name is borne, each to that of
   the last that bears it. *)
LEMMA ConnectedAre ==
  ASSUME NEW n \in DOMAIN Document,
         NEW pipes \in {SubPipe, [m \in 0..(n - 1) |-> SubPipe[m]]},
         NEW before, Knows(before, n)
  PROVE  LET entries == Document[n].entries
             names == Words(Document[n].run)
             made == Connected(Loaded(entries, pipes), names)
         IN /\ made # Unset <=>
                 ToSet(names) # {} /\ \A name \in ToSet(names) : Borne(n, before, name) # {}
            /\ made # Unset => MadeOf(n, before, made)
<1> DEFINE entries == Document[n].entries
           names == Words(Document[n].run)
           blocks == Loaded(entries, pipes)
           made == Connected(blocks, names)
<1>1. PICK E : entries \in Seq(E)
  BY DocumentAssumption
<1>2. names # <<>> <=> ToSet(names) # {}
  <2>1. PICK W : names \in Seq(W)
    BY DocumentAssumption
  <2> HIDE DEF names
  <2>2. Len(names) \in Nat /\ DOMAIN names = 1..Len(names)
    BY <2>1
  <2>3. names # <<>> => Len(names) # 0
    BY <2>1
  <2>4. names # <<>> => 1 \in DOMAIN names
    BY <2>2, <2>3
  <2>5. DOMAIN <<>> = {}
    OBVIOUS
  <2> QED
    BY <2>4, <2>5 DEF ToSet
<1>3. ToSet(names) \subseteq DOMAIN blocks => [i \in DOMAIN names |-> blocks[names[i]]] # Unset
  BY UnsetAssumption
<1>4. \A name, k : k \in Borne(n, before, name) <=>
        k \in DOMAIN entries /\ MakesBlock(entries, pipes, k, name)
  <2>1. \A name : Borne(n, before, name) \subseteq DOMAIN entries
    BY DEF Borne
  <2> QED
    BY <2>1, BlocksAre
<1>5. \A name, k : k \in Borne(n, before, name) =>
        BlockOf(entries, pipes, k) = Block(entries[k], PipeOf(entries[k]))
  BY <1>4, BlocksAre
<1>6. \A name : /\ name \in DOMAIN blocks <=> Borne(n, before, name) # {}
                /\ name \in DOMAIN blocks =>
                     \E k \in Borne(n, before, name) :
                       /\ \A j \in Borne(n, before, name) : j <= k
                       /\ blocks[name] = Block(entries[k], PipeOf(entries[k]))
  <2> TAKE name
  <2>1. /\ name \in DOMAIN blocks <=>
             \E k \in DOMAIN entries : MakesBlock(entries, pipes, k, name)
        /\ name \in DOMAIN blocks =>
             \E k \in DOMAIN entries :
               /\ MakesBlock(entries, pipes, k, name)
               /\ \A j \in DOMAIN entries : MakesBlock(entries, pipes, j, name) => j <= k
               /\ blocks[name] = BlockOf(entries, pipes, k)
    <3> HIDE DEF entries
    <3> QED
      BY <1>1, LoadedAre
  <2> HIDE DEF entries, blocks
  <2> QED
    BY <1>4, <1>5, <2>1
<1> HIDE DEF entries, names, blocks
<1>7. made # Unset <=> names # <<>> /\ ToSet(names) \subseteq DOMAIN blocks
  BY <1>3 DEF Connected
<1>8. made # Unset => made = [i \in DOMAIN names |-> blocks[names[i]]]
  BY <1>7 DEF Connected
<1>9. \A i \in DOMAIN names : names[i] \in ToSet(names)
  BY DEF ToSet
<1>10. made # Unset <=>
         ToSet(names) # {} /\ \A name \in ToSet(names) : Borne(n, before, name) # {}
  BY <1>2, <1>6, <1>7
<1>11. made # Unset =>
         /\ DOMAIN made = DOMAIN names
         /\ \A i \in DOMAIN names :
              \E k \in Borne(n, before, names[i]) :
                /\ \A j \in Borne(n, before, names[i]) : j <= k
                /\ made[i] = Block(entries[k], PipeOf(entries[k]))
  BY <1>6, <1>7, <1>8, <1>9
<1> QED
  BY <1>10, <1>11 DEF entries, names, blocks, MadeOf

(* The documents that can be run are those that have a pipe. *)
LEMMA SoundIs ==
  \A n \in 0..Len(Document) : Sound[n] = {m \in 1..n : SubPipe[m] # Unset}
<1> DEFINE Good == {n \in Nat : n <= Len(Document) =>
                                  Sound[n] = {m \in 1..n : SubPipe[m] # Unset}}
<1>1. Len(Document) \in Nat /\ DOMAIN Document = 1..Len(Document)
  <2>1. PICK D : Document \in Seq(D)
    BY DocumentAssumption
  <2> QED
    BY <2>1
<1>2. 0 \in Good
  BY SoundStep
<1>3. ASSUME NEW k \in Nat, k \in Good
      PROVE  k + 1 \in Good
  <2> SUFFICES ASSUME k + 1 <= Len(Document)
               PROVE  Sound[k + 1] = {m \in 1..(k + 1) : SubPipe[m] # Unset}
    OBVIOUS
  <2>1. PICK n \in 1..Len(Document) : n = k + 1 /\ n - 1 = k /\ n \in DOMAIN Document
    BY <1>1
  <2>2. PICK before : before = Sound[k] /\ before = {m \in 1..k : SubPipe[m] # Unset}
    BY <1>1, <1>3
  <2>3. Knows(before, n)
    BY <2>1, <2>2, SubPipeIs DEF Knows
  <2> DEFINE names == Words(Document[n].run)
             fits == ToSet(names) # {} /\ \A name \in ToSet(names) : Borne(n, before, name) # {}
  <2>4. SubPipe[n] # Unset <=> fits
    <3>1. PICK pipes \in {SubPipe, [m \in 0..(n - 1) |-> SubPipe[m]]} :
            pipes = [m \in 0..(n - 1) |-> SubPipe[m]]
      OBVIOUS
    <3>2. SubPipe[n] = Connected(Loaded(Document[n].entries, pipes), names)
      BY <3>1, SubPipeIs
    <3> QED
      BY <2>1, <2>3, <3>2, ConnectedAre
  <2>5. Sound[n] = IF fits THEN before \cup {n} ELSE before
    BY <2>1, <2>2, SoundStep
  <2>6. 1..n = (1..k) \cup {n}
    BY <2>1
  <2>7. Sound[n] = {m \in 1..n : SubPipe[m] # Unset}
    <3> HIDE DEF fits
    <3> QED
      BY <2>2, <2>4, <2>5, <2>6
  <2> QED
    BY <2>1, <2>7
<1>4. \A n \in Nat : n \in Good
  <2> HIDE DEF Good
  <2> QED
    BY <1>2, <1>3, NumberInduction
<1> QED
  BY <1>1, <1>4

(* At the end every document that has a pipe is known, and no other. *)
LEMMA AllKnown ==
  ASSUME NEW n \in DOMAIN Document
  PROVE  Knows(AllSound, n) /\ (n \in AllSound <=> SubPipe[n] # Unset)
<1>1. Len(Document) \in Nat /\ DOMAIN Document = 1..Len(Document)
  <2>1. PICK D : Document \in Seq(D)
    BY DocumentAssumption
  <2> QED
    BY <2>1
<1>2. PICK all \in Nat : all = Len(Document)
  BY <1>1
<1>3. AllSound = {m \in 1..all : SubPipe[m] # Unset}
  BY <1>1, <1>2, SoundIs DEF AllSound
<1>4. SubPipe[0] = Unset /\ n \in 1..all
  BY <1>1, <1>2, SubPipeIs
<1> QED
  BY <1>3, <1>4 DEF Knows

(* The pipe of a sub-pipeline's document, in the words for that of any. *)
LEMMA SubPipeMade ==
  ASSUME NEW n \in DOMAIN Document
  PROVE  \E pipes \in {SubPipe, [m \in 0..(n - 1) |-> SubPipe[m]]} :
           SubPipe[n] = Connected(Loaded(Document[n].entries, pipes), Words(Document[n].run))
<1>1. n \in 1..Len(Document)
  <2>1. PICK D : Document \in Seq(D)
    BY DocumentAssumption
  <2> QED
    BY <2>1
<1> QED
  BY <1>1, SubPipeIs

(* The blocks of a pipe have the names of the run line. *)
LEMMA NamesOfPipe ==
  ASSUME NEW n \in DOMAIN Document,
         NEW pipes \in {SubPipe, [m \in 0..(n - 1) |-> SubPipe[m]]}
  PROVE  LET made == Connected(Loaded(Document[n].entries, pipes), Words(Document[n].run))
         IN made # Unset => [i \in DOMAIN made |-> made[i].name] = Words(Document[n].run)
<1> DEFINE entries == Document[n].entries
           names == Words(Document[n].run)
           made == Connected(Loaded(entries, pipes), names)
<1> SUFFICES ASSUME made # Unset
             PROVE  [i \in DOMAIN made |-> made[i].name] = names
  OBVIOUS
<1>1. names = [i \in DOMAIN names |-> names[i]]
  <2>1. PICK W : names \in Seq(W)
    BY DocumentAssumption
  <2> HIDE DEF names
  <2> QED
    BY <2>1
<1>2. /\ DOMAIN made = DOMAIN names
      /\ \A i \in DOMAIN names :
           \E k \in Borne(n, AllSound, names[i]) :
             /\ \A j \in Borne(n, AllSound, names[i]) : j <= k
             /\ made[i] = Block(entries[k], PipeOf(entries[k]))
  <2>1. Knows(AllSound, n)
    BY AllKnown
  <2>2. MadeOf(n, AllSound, made)
    BY <2>1, ConnectedAre
  <2> HIDE DEF made
  <2> QED
    BY <2>2 DEF MadeOf
<1> HIDE DEF names, made
<1>3. \A i \in DOMAIN names : made[i].name = names[i]
  <2> TAKE i \in DOMAIN names
  <2>1. PICK k \in Borne(n, AllSound, names[i]) : made[i] = Block(entries[k], PipeOf(entries[k]))
    BY <1>2
  <2>2. entries[k].name = names[i]
    BY DEF Borne
  <2> QED
    BY <2>1, <2>2 DEF Block
<1> QED
  BY <1>1, <1>2, <1>3

(* What RunsWhatIsWritten says of a document and its pipe. *)
CanRun(n) ==
  n \in AllSound /\ \A k \in DOMAIN Document[n].run : Len(Document[n].run[k]) = 1

LastEntry(n, name) ==
  LET bearers == Borne(n, AllSound, name)
  IN Document[n].entries[CHOOSE j \in bearers : \A i \in bearers : i <= j]

BlockIsWritten(block, entry) ==
  /\ block.type = entry.type
  /\ \A o \in DOMAIN entry.given \ NotHeeded(entry.type) : block.options[o] = entry.given[o]
  /\ entry.type \in NeedsPipe =>
       [j \in DOMAIN block.pipe |-> block.pipe[j].name] = Words(Document[entry.pipe].run)

(* What is given is what the block gets, but for what is not heeded. *)
LEMMA SettingsAre ==
  ASSUME NEW entry, DOMAIN entry.given \subseteq DOMAIN Defaults(entry.type)
  PROVE  \A o \in DOMAIN entry.given \ NotHeeded(entry.type) : Settings(entry)[o] = entry.given[o]
<1>1. \A o \in DOMAIN entry.given : Options(entry)[o] = entry.given[o]
  BY DEF Options
<1>2. DOMAIN Options(entry) = DOMAIN Defaults(entry.type)
  BY DEF Options
<1>3. CASE entry.type = "separateAtoms"
  <2>1. Settings(entry) = [pairDistances |-> Options(entry).pairDistances]
    BY <1>3 DEF Settings
  <2>2. DOMAIN Defaults(entry.type) = {"pairDistances", "failAction"}
    BY <1>3 DEF Defaults, OutputDefaults, NeedsPipe
  <2>3. NotHeeded(entry.type) = {"failAction"}
    BY <1>3 DEF NotHeeded
  <2> QED
    BY <1>1, <2>1, <2>2, <2>3
<1>4. CASE entry.type = "writeStructures"
  <2>1. Settings(entry) = [Options(entry) EXCEPT !.multiWrite = TRUE]
    BY <1>4 DEF Settings
  <2>2. NotHeeded(entry.type) = {"multiWrite"}
    BY <1>4 DEF NotHeeded
  <2> QED
    BY <1>1, <1>2, <2>1, <2>2
<1>5. CASE entry.type \notin {"separateAtoms", "writeStructures"}
  <2>1. Settings(entry) = Options(entry)
    BY <1>5 DEF Settings
  <2> QED
    BY <1>1, <2>1
<1> QED
  BY <1>3, <1>4, <1>5

IsWritten(n, p) ==
  /\ [k \in DOMAIN p |-> p[k].name] = Words(Document[n].run)
  /\ \A k \in DOMAIN p : BlockIsWritten(p[k], LastEntry(n, p[k].name))

(* The documents with a pipe are those that can be run; theirs is made of their
   own entries and of the pipes of the documents before. *)
LEMMA PipeIsMade ==
  ASSUME NEW n \in DOMAIN Document
  PROVE  /\ Pipe[n] # Unset <=> CanRun(n)
         /\ Pipe[n] # Unset =>
              Pipe[n] = Connected(Loaded(Document[n].entries, SubPipe), Words(Document[n].run))
<1> DEFINE line == Document[n].run
           names == Words(line)
           made == Connected(Loaded(Document[n].entries, SubPipe), names)
           fits == ToSet(names) # {} /\ \A name \in ToSet(names) : Borne(n, AllSound, name) # {}
<1>1. Pipe[n] = IF line = Unset \/ \E k \in DOMAIN line : Len(line[k]) # 1 THEN Unset ELSE made
  BY DEF Pipe
<1>2. made # Unset <=> fits
  BY AllKnown, ConnectedAre
<1>3. n \in AllSound <=> fits
  <2>1. PICK pipes \in {SubPipe, [m \in 0..(n - 1) |-> SubPipe[m]]} :
          SubPipe[n] = Connected(Loaded(Document[n].entries, pipes), names)
    BY SubPipeMade
  <2>2. SubPipe[n] # Unset <=> fits
    BY <2>1, AllKnown, ConnectedAre
  <2> QED
    BY <2>2, AllKnown
<1>4. line = Unset => ~fits
  BY DEF Words, ToSet
<1> HIDE DEF fits, made
<1> QED
  BY <1>1, <1>2, <1>3, <1>4 DEF CanRun, made

(* The pipe that is built is the one that is written. *)
LEMMA PipeIsWritten ==
  ASSUME NEW n \in DOMAIN Document, Pipe[n] # Unset
  PROVE  IsWritten(n, Pipe[n])
<1> DEFINE p == Pipe[n]
           entries == Document[n].entries
           names == Words(Document[n].run)
<1>1. p = Connected(Loaded(entries, SubPipe), names)
  BY PipeIsMade
<1>2. [k \in DOMAIN p |-> p[k].name] = names
  BY <1>1, NamesOfPipe
<1>3. /\ DOMAIN p = DOMAIN names
      /\ \A i \in DOMAIN names :
           \E k \in Borne(n, AllSound, names[i]) :
             /\ \A j \in Borne(n, AllSound, names[i]) : j <= k
             /\ p[i] = Block(entries[k], PipeOf(entries[k]))
  <2>1. Knows(AllSound, n)
    BY AllKnown
  <2>2. SubPipe \in {SubPipe, [m \in 0..(n - 1) |-> SubPipe[m]]}
    OBVIOUS
  <2>3. MadeOf(n, AllSound, p)
    BY <1>1, <2>1, <2>2, ConnectedAre
  <2> HIDE DEF p
  <2> QED
    BY <2>3 DEF MadeOf
<1>4. \A name : Borne(n, AllSound, name) \subseteq Nat
  <2>1. PICK E : entries \in Seq(E)
    BY DocumentAssumption
  <2>2. DOMAIN entries \subseteq Nat
    BY <2>1
  <2> QED
    BY <2>2 DEF Borne
<1> HIDE DEF p, names
<1>5. ASSUME NEW i \in DOMAIN p
      PROVE  BlockIsWritten(p[i], LastEntry(n, p[i].name))
  <2> DEFINE bearers == Borne(n, AllSound, p[i].name)
             entry == LastEntry(n, p[i].name)
  <2>a. entry = entries[CHOOSE j \in bearers : \A k \in bearers : k <= j]
    BY DEF LastEntry
  <2>b. bearers = Borne(n, AllSound, p[i].name)
    OBVIOUS
  <2> HIDE DEF bearers, entry
  <2>1. p[i].name = names[i] /\ i \in DOMAIN names
    BY <1>2, <1>3
  <2>2. PICK k \in bearers : /\ \A j \in bearers : j <= k
                             /\ p[i] = Block(entries[k], PipeOf(entries[k]))
    BY <1>3, <2>b, <2>1
  <2>3. PICK last : last = CHOOSE j \in bearers : \A m \in bearers : m <= j
    OBVIOUS
  <2>4. last \in bearers /\ \A j \in bearers : j <= last
    BY <2>2, <2>3
  <2>5. last = k
    <3>1. last \in Nat /\ k \in Nat
      BY <1>4, <2>b, <2>2, <2>4
    <3> QED
      BY <2>2, <2>4, <3>1
  <2>6. entry = entries[k] /\ p[i] = Block(entry, PipeOf(entry))
    BY <2>a, <2>2, <2>3, <2>5
  <2>7. k \in DOMAIN entries /\ entry.type \in Registered
        /\ (entry.type \in NeedsPipe => entry.pipe \in AllSound)
    BY <2>b, <2>2, <2>6 DEF Borne
  <2>8. p[i].type = entry.type /\ p[i].options = Settings(entry) /\ p[i].pipe = PipeOf(entry)
    BY <2>6 DEF Block
  <2>9. \A o \in DOMAIN entry.given \ NotHeeded(entry.type) : Settings(entry)[o] = entry.given[o]
    <3>1. DOMAIN entry.given \subseteq DOMAIN Defaults(entry.type)
      BY <2>6, <2>7, OptionsAssumption
    <3> QED
      BY <3>1, SettingsAre
  <2>10. ASSUME entry.type \in NeedsPipe
         PROVE  [j \in DOMAIN p[i].pipe |-> p[i].pipe[j].name] = Words(Document[entry.pipe].run)
    <3>1. PICK m : m = entry.pipe /\ p[i].pipe = SubPipe[m] /\ m \in AllSound
      BY <2>7, <2>8, <2>10 DEF PipeOf
    <3>2. m \in 1..Len(Document) /\ m \in DOMAIN Document
      <4>1. Len(Document) \in Nat /\ DOMAIN Document = 1..Len(Document)
        <5>1. PICK D : Document \in Seq(D)
          BY DocumentAssumption
        <5> QED
          BY <5>1
      <4> QED
        BY <3>1, <4>1, SoundIs DEF AllSound
    <3>3. SubPipe[m] # Unset
      BY <3>1, <3>2, AllKnown
    <3>4. PICK pipes \in {SubPipe, [j \in 0..(m - 1) |-> SubPipe[j]]} :
            SubPipe[m] = Connected(Loaded(Document[m].entries, pipes), Words(Document[m].run))
      BY <3>2, SubPipeMade
    <3>5. [j \in DOMAIN SubPipe[m] |-> SubPipe[m][j].name] = Words(Document[m].run)
      BY <3>2, <3>3, <3>4, NamesOfPipe
    <3> QED
      BY <3>1, <3>5
  <2>11. BlockIsWritten(p[i], entry)
    BY <2>8, <2>9, <2>10 DEF BlockIsWritten
  <2> QED
    BY <2>11 DEF entry
<1>6. IsWritten(n, p)
  BY <1>2, <1>5, Zenon DEF IsWritten, names
<1> QED
  BY <1>6 DEF p

(* A document is turned down for its pipe only if it has none. *)
TurnedDownOK == exit = "build" => Pipe[document] = Unset

(* No step but BuildPipe turns a document down for its pipe. *)
LEMMA TurnedDownStep ==
  ASSUME TurnedDownOK, [Next]_vars
  PROVE  TurnedDownOK'
<1>1. CASE ReadInput
  BY <1>1 DEF ReadInput, Fail, NextStep, mainVars, TurnedDownOK
<1>2. CASE BuildPipe
  BY <1>2 DEF BuildPipe, Fail, TurnedDownOK
<1>3. CASE MakeEngine
  BY <1>3 DEF MakeEngine, Fail, mainVars, TurnedDownOK
<1>4. CASE Initialising \/ Initialised \/ Starting \/ Start
  BY <1>4 DEF Initialising, Initialised, Starting, Start, mainVars, TurnedDownOK
<1>5. ASSUME NEW i \in DOMAIN structures, Stream(i)
      PROVE  TurnedDownOK'
  BY <1>5 DEF Stream, AutoScale, Rescale, NiggliReduce, FindSymmetryGroup, PasteFragment,
              SeparateAtoms, CutAndPaste, Clone, GeomOptimise, WriteStructures, LetThrough, PassOn,
              mainVars, TurnedDownOK
<1>6. CASE Moves
  BY <1>6 DEF Moves, KeepStableIn, KeepIn, Finish, mainVars, TurnedDownOK
<1>7. CASE Turns
  BY <1>7 DEF Turns, Ask, Release, EndRun, mainVars, TurnedDownOK
<1>8. CASE UNCHANGED vars
  BY <1>8 DEF vars, mainVars, TurnedDownOK
<1> QED
  BY <1>1, <1>2, <1>3, <1>4, <1>5, <1>6, <1>7, <1>8, StepCases DEF Streams

(* The engine gets the pipe that the document describes, however the entries
   follow one another and however deep pipes are within pipes; and no document
   that can be run is turned down for its pipe. *)
THEOREM RunsWhatIsWrittenAlways == Spec => []RunsWhatIsWritten
<1> DEFINE WInv == Inv /\ EngineOK /\ TurnedDownOK
<1>1. Init => WInv
  <2>1. Init => TurnedDownOK
    BY ProgramAssumption DEF Init, TurnedDownOK
  <2> QED
    BY <2>1, InitInv, EngineInit
<1>2. WInv /\ [Next]_vars => WInv'
  BY StepInv, EngineStep, TurnedDownStep
<1>3. WInv => RunsWhatIsWritten
  <2> SUFFICES ASSUME WInv
               PROVE  RunsWhatIsWritten
    OBVIOUS
  <2>1. document \in DOMAIN Document
    BY ProgramAssumption DEF Inv, PhaseOK
  <2>2. exit = "build" => ~CanRun(document)
    BY <2>1, PipeIsMade DEF TurnedDownOK
  <2>3. pc = "engine" => CanRun(document) /\ IsWritten(document, pipe)
    <3>1. pc = "engine" => pipe = Pipe[document] /\ Pipe[document] # Unset
      BY DEF EngineOK, PipeOK
    <3> QED
      BY <2>1, <3>1, PipeIsMade, PipeIsWritten
  <2> QED
    BY <2>2, <2>3, Zenon
       DEF RunsWhatIsWritten, CanRun, IsWritten, BlockIsWritten, LastEntry, AllSound
<1> QED
  BY <1>1, <1>2, <1>3, PTL DEF Spec

==============================================================================
