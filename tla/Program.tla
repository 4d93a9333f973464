------------------------------- MODULE Program -------------------------------
(***************************************************************************)
(* spipe from its command line to its exit code: the input document is     *)
(* read, its pipe built and an engine made for it; the engine takes the    *)
(* blocks through its phases, and structures go from block to block, each  *)
(* on its own, until the start block is through, nothing moves and no      *)
(* barrier has data.  A block that sweeps is a start block that sends      *)
(* structures; what it does to get them is Sweep.  KeepTopN,               *)
(* KeepWithinXPercent and RemoveDuplicates, which have modules of their    *)
(* own, are barriers here that may give up any of what they hold; the      *)
(* first two let through what has no value to judge it by.                 *)
(***************************************************************************)
EXTENDS Blocks, PipeBuild, FiniteSets

CONSTANTS
  Inputs,       \* the numbers of documents the program may be given
  Home,         \* the atoms of a structure that is built
  Loadable,     \* the structures LoadStructures finds, if it can read them
  Fragment,     \* the atoms of a fragment, if it can be read
  BuiltIn,      \* the parameters of the optimiser's potential
  Known,        \* the species it has distances for, each to itself
  GarbageTimes, \* what a number that nothing has set may be
  SweepYield,   \* bound on the structures a sweep sends
  Writers,      \* the formats there are writers for
  Multi,        \* they hold several structures in a file
  MaxStructures \* bound on the structures of a run, which the documents keep

ASSUME ProgramAssumption ==
  /\ Inputs \subseteq DOMAIN Document
  /\ SweepYield \in Nat /\ MaxStructures \in Nat
  /\ GarbageTimes \subseteq Int
  /\ Unset # "build"
  /\ \A n \in Inputs : Pipe[n] # Unset =>
       \A k \in DOMAIN Pipe[n] :
         Pipe[n][k].type = "clone" => Pipe[n][k].options.times \in Int \cup {Garbage}

(* Atoms are at home where they are built or read from, and nothing has cut them. *)
AtHome(atoms) ==
  /\ atoms \in Seq(ToSet(atoms))
  /\ \A k \in DOMAIN atoms :
       /\ DOMAIN atoms[k] = {"species", "inShape", "at", "cut"}
       /\ atoms[k].inShape \in BOOLEAN /\ atoms[k].at = "home" /\ ~atoms[k].cut

(* What is read from files has not been changed by the program, and its names are
   none that the program generates; the potential has parameters. *)
ASSUME InputAssumption ==
  /\ BuiltIn # Unset
  /\ AtHome(Home) /\ AtHome(Fragment)
  /\ Loadable \in Seq(ToSet(Loadable))
  /\ \A k \in DOMAIN Loadable :
       LET s == Loadable[k]
       IN /\ s = [NewStructure(s.name, s.atoms) EXCEPT
                    !.cell = s.cell, !.energy = s.energy, !.enthalpy = s.enthalpy]
          /\ AtHome(s.atoms)
          /\ s.name # Unset => s.name[1] # "structure"

VARIABLES
  document,   \* the number of the input
  pc,         \* the step main is at, the phase of the engine, or "exit"
  exit,       \* Unset, "done" for 0, or for 1 the step that failed
  pipe,       \* the blocks, from the start block on
  stage,      \* the block whose turn it is in a phase or to release
  global,     \* GlobalData
  shared,     \* SharedData of the engine
  own,        \* what each block keeps for itself
  disk,       \* which structure was last written to a location
  unique,     \* names given out by generateUniqueName
  tries,      \* structures the start block has tried to send
  structures, \* the structures made, and where they are
  idle        \* barriers that had no data when they were last asked

mainVars == <<document, exit, pipe>>
engineVars == <<global, shared, own, disk, unique>>
flowVars == <<tries, structures, idle>>
vars == <<pc, stage, mainVars, engineVars, flowVars>>

Stable == INSTANCE KeepStableCompositions

Init ==
  /\ document \in Inputs
  /\ pc = "args"
  /\ exit = Unset
  /\ pipe = <<>>
  /\ stage = 1
  /\ global = NewGlobal(Unset)
  /\ shared = NewShared(<<"main">>)
  /\ own = <<>>
  /\ disk = [l \in {} |-> Unset]
  /\ unique = 0
  /\ tries = 0
  /\ structures = <<>>
  /\ idle = {}

------------------------------------------------------------------------------
(* main *)
Fail ==
  /\ exit' = pc
  /\ pc' = "exit"
  /\ UNCHANGED <<document, pipe, stage, engineVars, flowVars>>

(* The command line, the file, its YAML, the values defined on the command
   line, the elements main itself needs: each may be wrong. *)
NextStep == [args |-> "exists", exists |-> "yaml", yaml |-> "define", define |-> "schema",
             schema |-> "build"]
ReadInput ==
  /\ pc \in DOMAIN NextStep
  /\ \/ Fail
     \/ /\ pc = "schema" => Document[document].engine # Unset /\ Document[document].run # Unset
        /\ pc' = NextStep[pc]
        /\ UNCHANGED <<stage, mainVars, engineVars, flowVars>>

BuildPipe ==
  /\ pc = "build"
  /\ IF Pipe[document] = Unset THEN Fail
     ELSE /\ pipe' = Pipe[document]
          /\ pc' = "engine"
          /\ UNCHANGED <<document, exit, stage, engineVars, flowVars>>

(* What a block keeps when it is new. *)
New(block) ==
  IF block.type = "keepStableCompositions" THEN Stable!NewBarrier
  ELSE IF block.type \in Barriers THEN {}
  ELSE IF block.type \in {"loadStructures", "pasteFragment"} THEN <<>> ELSE Unset

MakeEngine ==
  /\ pc = "engine"
  /\ IF CreateEngine(Document[document].engine) = Unset THEN Fail
     ELSE /\ global' = [global EXCEPT !.seed = "input"]
          /\ own' = [k \in DOMAIN pipe |-> New(pipe[k])]
          /\ pc' = "initialising"
          /\ UNCHANGED <<stage, mainVars, shared, disk, unique, flowVars>>

(* The phases of the engine before structures move: every block is told of one
   before any is told of the next. *)
NextPhase ==
  [initialising |-> "initialised", initialised |-> "starting", starting |-> "running"]
Told ==
  IF stage = Len(pipe) THEN stage' = 1 /\ pc' = NextPhase[pc]
  ELSE stage' = stage + 1 /\ UNCHANGED pc

OwnBecomes(value) == own' = [own EXCEPT ![stage] = value]

HasPotential(block) == block.type = "geomOptimise" /\ block.part # "none"

(* What an optimiser keeps when it is told: the parameters that its potential
   holds, Unset if there is nothing to set. *)
Tuned(block) ==
  IF block.part = "parameterised" THEN Parameterised(global, block.options.paramsTag, BuiltIn)
  ELSE Unset

(* pipelineInitialising, but for the species database: an optimiser's potential
   takes its parameters, and what is to be read from files is read, or cannot be. *)
ReadOrTuned(block) ==
  \/ block.type = "loadStructures" /\ own[stage] = <<>> /\ OwnBecomes(Loadable)
  \/ block.type = "pasteFragment" /\ OwnBecomes(Fragment)
  \/ block.type = "geomOptimise" /\ OwnBecomes(Tuned(block))
  \/ block.type # "geomOptimise" /\ UNCHANGED own

(* Mutant of Initialising: a potential with nothing to set fills no database. *)
InitialisingTuned ==
  /\ pc = "initialising"
  /\ IF pipe[stage].type = "geomOptimise" /\ pipe[stage].part = "parameterised"
     THEN shared' = [shared EXCEPT !.species = BuiltIn]
     ELSE UNCHANGED shared
  /\ ReadOrTuned(pipe[stage])
  /\ Told
  /\ UNCHANGED <<mainVars, global, disk, unique, flowVars>>

(* GeomOptimise's potential, if there is one, fills the species database. *)
Initialising ==
  /\ pc = "initialising"
  /\ IF HasPotential(pipe[stage])
     THEN shared' = [shared EXCEPT !.species =
                       IF Tuned(pipe[stage]) = Unset THEN BuiltIn ELSE Tuned(pipe[stage])]
     ELSE UNCHANGED shared
  /\ ReadOrTuned(pipe[stage])
  /\ Told
  /\ UNCHANGED <<mainVars, global, disk, unique, flowVars>>

Separators == {"cutAndPaste", "separateAtoms"}

(* Mutant of Initialised: the database is taken for want of distances only. *)
InitialisedEither ==
  /\ pc = "initialised"
  /\ IF pipe[stage].type \in Separators
     THEN OwnBecomes([database |-> IF pipe[stage].options.pairDistances # Unset THEN Unset
                                   ELSE shared.species,
                      over |-> pipe[stage].options.pairDistances])
     ELSE UNCHANGED own
  /\ Told
  /\ UNCHANGED <<mainVars, global, shared, disk, unique, flowVars>>

(* pipelineInitialised: the separators take a copy of the database, with the
   distances of their options put on top of it. *)
Initialised ==
  /\ pc = "initialised"
  /\ IF pipe[stage].type \in Separators
     THEN OwnBecomes([database |-> shared.species,
                      over |-> pipe[stage].options.pairDistances])
     ELSE UNCHANGED own
  /\ Told
  /\ UNCHANGED <<mainVars, global, shared, disk, unique, flowVars>>

(* pipelineStarting *)
Starting ==
  /\ pc = "starting"
  /\ IF pipe[stage].type = "writeStructures"
     THEN OwnBecomes(WriterState(pipe[stage].options.format, Writers))
     ELSE UNCHANGED own
  /\ Told
  /\ UNCHANGED <<mainVars, global, shared, disk, unique, flowVars>>

------------------------------------------------------------------------------
(* Structures.  line is the history of a structure: itself and what it was
   cloned from. *)
Entry(s, k, line) == [data |-> s, where |-> "moving", stage |-> k, line |-> line]
Fresh(k) == <<"structure", unique + k>>

Send(s) ==
  /\ structures' =
       Append(structures, Entry(s, 2, {Len(structures) + 1}))
  /\ idle' = {}

MaxTries ==
  LET start == pipe[1]
  IN CASE start.type = "generateStructures" -> start.options.num
       [] start.type = "loadStructures" -> Len(own[1])
       [] OTHER -> SweepYield

(* start of the start block, one structure at a time; an attempt at building
   one may fail, and a sweep may send fewer. *)
Start ==
  /\ pc = "running" /\ tries < MaxTries
  /\ tries' = tries + 1
  /\ \/ /\ pipe[1].type # "loadStructures"
        /\ UNCHANGED <<unique, structures, idle>>
     \/ /\ pipe[1].type = "generateStructures"
        /\ Send(Generated(global, shared, Home, Fresh(1)))
        /\ unique' = unique + 1
     \/ /\ pipe[1].type = "loadStructures"
        /\ Send(NameIfNone(own[1][tries'], Fresh(1)))
        /\ unique' = unique + 1
     \/ /\ pipe[1].type \in NeedsPipe
        /\ \E energy, enthalpy \in BOOLEAN :
             Send([NewStructure(Fresh(1), Home) EXCEPT !.energy = energy, !.enthalpy = enthalpy])
        /\ unique' = unique + 1
  /\ UNCHANGED <<pc, stage, mainVars, global, shared, own, disk>>

Moving(i) == structures[i].where = "moving"
At(i, type) ==
  /\ pc = "running" /\ Moving(i)
  /\ structures[i].stage \in DOMAIN pipe
  /\ pipe[structures[i].stage].type = type
Data(i) == structures[i].data
Here(i) == structures[i].stage
OptionsAt(i) == pipe[Here(i)].options

Passed(i, s) == [structures EXCEPT ![i] = Entry(s, @.stage + 1, @.line)]
Put(these, where) ==
  [i \in DOMAIN structures |->
     IF i \in these THEN [structures[i] EXCEPT !.where = where] ELSE structures[i]]

(* out of the blocks that only change a structure. *)
PassOn(i, s) ==
  /\ structures' = Passed(i, s)
  /\ UNCHANGED <<pc, stage, mainVars, engineVars, tries, idle>>

HasRadius == IF shared.species = Unset THEN {} ELSE Known

AutoScale(i) == At(i, "autoScale") /\ \E s \in Scaled(Data(i), HasRadius) : PassOn(i, s)
Rescale(i) == At(i, "rescale") /\ \E s \in Rescaled(Data(i)) : PassOn(i, s)
NiggliReduce(i) == At(i, "niggliReduce") /\ PassOn(i, NiggliReduced(Data(i)))
FindSymmetryGroup(i) == At(i, "findSymmetry") /\ PassOn(i, SymmetryFound(Data(i)))
PasteFragment(i) == At(i, "pasteFragment") /\ PassOn(i, FragmentPasted(Data(i), own[Here(i)]))
SeparateAtoms(i) == At(i, "separateAtoms") /\ \E s \in AtomsSeparated(Data(i)) : PassOn(i, s)
CutAndPaste(i) ==
  /\ At(i, "cutAndPaste")
  /\ \E s \in CutAndPasted(Data(i), OptionsAt(i)) : PassOn(i, s)

Clone(i) ==
  /\ At(i, "clone")
  /\ \E times \in IF OptionsAt(i).times = Garbage THEN GarbageTimes ELSE {OptionsAt(i).times} :
       LET out == Cloned(Data(i), times, OptionsAt(i).giveUniqueNames # FALSE,
                         [k \in 1..(IF times > 1 THEN times ELSE 1) |-> Fresh(k)])
           clones == [k \in 1..(Len(out) - 1) |->
                        Entry(out[k + 1], Here(i) + 1,
                              structures[i].line \cup {Len(structures) + k})]
       IN /\ structures' = Passed(i, out[1]) \o clones
          /\ unique' = unique + Len(out)
  /\ UNCHANGED <<pc, stage, mainVars, global, shared, own, disk, tries, idle>>

GeomOptimise(i) ==
  /\ At(i, "geomOptimise")
  /\ \E o \in Optimised(Data(i), own[Here(i)], OptionsAt(i).failAction, AllMoved(Data(i).atoms)) :
       structures' = IF o.out THEN Passed(i, o.structure) ELSE Put({i}, "dropped")
  /\ UNCHANGED <<pc, stage, mainVars, engineVars, tries, idle>>

(* in of WriteStructures, with a writer and without one; a structure that has
   no name is given one first. *)
WriteStructures(i) ==
  LET named == NameIfNone(Data(i), Fresh(1))
      location == SaveLocation(named, OptionsAt(i).multiWrite /\ Multi, shared, global)
  IN /\ At(i, "writeStructures")
     /\ IF own[Here(i)] = "disabled"
        THEN structures' = Passed(i, Data(i)) /\ UNCHANGED <<disk, unique>>
        ELSE /\ unique' = IF named = Data(i) THEN unique ELSE unique + 1
             /\ \/ /\ disk' = OnDisk(disk, i, location)
                   /\ structures' = Passed(i, [named EXCEPT !.saved = location])
                \/ structures' = Passed(i, named) /\ UNCHANGED disk
     /\ UNCHANGED <<pc, stage, mainVars, global, shared, own, tries, idle>>

------------------------------------------------------------------------------
(* Barriers. *)
KeepStableIn(i) ==
  /\ At(i, "keepStableCompositions")
  /\ own' = [own EXCEPT ![Here(i)] = Stable!In(@, i)]
  /\ structures' = Put({i}, "held")
  /\ UNCHANGED <<pc, stage, mainVars, global, shared, disk, unique, tries, idle>>

(* in of KeepTopN and KeepWithinXPercent, whose property is the enthalpy: let
   anything through that does not have it. *)
Keepers == {"keepTopN", "keepWithinXPercent"}
LetThrough(i) ==
  /\ \E type \in Keepers : At(i, type)
  /\ ~Data(i).enthalpy
  /\ PassOn(i, Data(i))

(* in of the other barriers: the structure is held, and some of what is held,
   the structure perhaps, is dropped. *)
KeepIn(i) ==
  /\ \/ At(i, "removeDuplicates")
     \/ Data(i).enthalpy /\ \E type \in Keepers : At(i, type)
  /\ \E some \in SUBSET (own[Here(i)] \cup {i}) :
       /\ own' = [own EXCEPT ![Here(i)] = (@ \cup {i}) \ some]
       /\ structures' = [j \in DOMAIN structures |->
                           IF j \in some THEN [structures[j] EXCEPT !.where = "dropped"]
                           ELSE IF j = i THEN [structures[j] EXCEPT !.where = "held"]
                           ELSE structures[j]]
  /\ UNCHANGED <<pc, stage, mainVars, global, shared, disk, unique, tries, idle>>

(* The engine turns to a barrier when nothing moves.  Which one it asks, and
   whether it does so before the start block is through, is up to pipelib. *)
Quiet == pc = "running" /\ \A i \in DOMAIN structures : ~Moving(i)
BarrierStages == {k \in DOMAIN pipe : pipe[k].type \in Barriers}

Endpoints(k) == UNION {{a.species : a \in ToSet(Data(i).atoms)} : i \in own[k].store}

(* What barrier k may answer when it is asked for data, and how it is then. *)
Answers(k) ==
  IF pipe[k].type = "keepStableCompositions"
  THEN Stable!HasData(own[k], {i \in own[k].store : Data(i).energy}, Endpoints(k))
  ELSE {[answer |-> own[k] # {}, barrier |-> own[k]]}

Ask(k) ==
  /\ Quiet /\ k \in BarrierStages \ idle
  /\ \E reply \in Answers(k) :
       /\ own' = [own EXCEPT ![k] = reply.barrier]
       /\ IF reply.answer THEN pc' = "releasing" /\ stage' = k /\ UNCHANGED idle
          ELSE idle' = idle \cup {k} /\ UNCHANGED <<pc, stage>>
  /\ UNCHANGED <<mainVars, global, shared, disk, unique, tries, structures>>

Released(k) ==
  IF pipe[k].type = "keepStableCompositions" THEN Stable!Release(own[k])
  ELSE [out |-> own[k], drop |-> {}, barrier |-> {}]

Release ==
  /\ pc = "releasing"
  /\ LET let == Released(stage)
     IN /\ own' = [own EXCEPT ![stage] = let.barrier]
        /\ structures' =
             [i \in DOMAIN structures |->
                IF i \in let.out THEN Entry(Data(i), stage + 1, structures[i].line)
                ELSE IF i \in let.drop THEN [structures[i] EXCEPT !.where = "dropped"]
                ELSE structures[i]]
  /\ pc' = "running" /\ stage' = 1 /\ idle' = {}
  /\ UNCHANGED <<mainVars, global, shared, disk, unique, tries>>

(* The end of the pipe: a structure that nobody is waiting for is freed. *)
Finish(i) ==
  /\ pc = "running" /\ Moving(i)
  /\ structures[i].stage = Len(pipe) + 1
  /\ structures' = Put({i}, "finished")
  /\ UNCHANGED <<pc, stage, mainVars, engineVars, tries, idle>>

(* The run is over when no barrier has data: the blocks are told that it is
   finishing, the engine frees what is left, and main returns 0. *)
EndRun ==
  /\ Quiet /\ tries = MaxTries /\ idle = BarrierStages
  /\ own' = [k \in DOMAIN own |->
               IF pipe[k].type = "keepStableCompositions" THEN Stable!PipelineFinishing(own[k])
               ELSE IF pipe[k].type = "removeDuplicates" THEN {} ELSE own[k]]
  /\ structures' = Put({i \in DOMAIN structures : structures[i].where = "held"}, "freed")
  /\ pc' = "exit" /\ exit' = "done"
  /\ UNCHANGED <<document, pipe, stage, global, shared, disk, unique, tries, idle>>

Stream(i) ==
  \/ AutoScale(i) \/ Rescale(i) \/ NiggliReduce(i) \/ FindSymmetryGroup(i)
  \/ PasteFragment(i) \/ SeparateAtoms(i) \/ CutAndPaste(i) \/ Clone(i)
  \/ GeomOptimise(i) \/ WriteStructures(i) \/ LetThrough(i)

Done == pc = "exit" /\ UNCHANGED vars

Next ==
  \/ ReadInput \/ BuildPipe \/ MakeEngine
  \/ Initialising \/ Initialised \/ Starting \/ Start
  \/ \E i \in DOMAIN structures : Stream(i) \/ KeepStableIn(i) \/ KeepIn(i) \/ Finish(i)
  \/ \E k \in BarrierStages : Ask(k)
  \/ Release \/ EndRun
  \/ Done

(* The engine never stops on its own, and one of its threads always runs. *)
Spec == Init /\ [][Next]_vars /\ WF_vars(Next)

------------------------------------------------------------------------------
Held(k) == {i \in DOMAIN structures : structures[i].where = "held" /\ structures[i].stage = k}
In(where) == {i \in DOMAIN structures : structures[i].where = where}
Types == {pipe[k].type : k \in DOMAIN pipe}

(* What barrier k has in its own books. *)
KeepsBook(k) ==
  /\ pipe[k].type \in Barriers \ {"keepStableCompositions"} => own[k] = Held(k)
  /\ pipe[k].type = "keepStableCompositions" =>
       /\ own[k].store = Held(k)
       /\ (own[k].hull # Stable!NoHull /\ Held(k) # {}) =>
            own[k].hull.of = Held(k) /\ own[k].hull.stable \subseteq Held(k)
BooksAreKept == \A k \in DOMAIN own : KeepsBook(k)

(* Who is about to release without a hull has none to make. *)
NoneUnjudged ==
  (pc = "releasing" /\ pipe[stage].type = "keepStableCompositions"
     /\ own[stage].hull = Stable!NoHull) => ~Stable!CanJudge(Endpoints(stage))

(* What a barrier holds is what was sent to it and has not left it, a hull that
   it has kept is of all it holds, however often it was asked and has released
   before, and nothing is released unjudged that a hull could be made of. *)
BarriersKeepBooks == BooksAreKept /\ NoneUnjudged

(* Where a structure was saved there is the structure, or one that it was
   cloned from, and never another, unless clones or the structures that are read
   share a name. *)
SavedIsThere ==
  (/\ \A j, k \in DOMAIN Loadable :
        Loadable[j].name = Loadable[k].name /\ Loadable[j].name # Unset => j = k
   /\ \A k \in DOMAIN pipe :
        pipe[k].type = "clone" => pipe[k].options.giveUniqueNames # FALSE) =>
    \A i \in DOMAIN structures :
      structures[i].data.saved # Unset => disk[structures[i].data.saved] \in structures[i].line

(* What CutAndPaste has not cut out stays where it was built, whatever comes
   before and after it, unless it is moved with the cell or by an optimiser:
   neither the shape nor the separation that CutAndPaste does gives it a place. *)
Movers == {"autoScale", "geomOptimise", "rescale"}
UntouchedStay ==
  (/\ "separateAtoms" \notin Types
   /\ \A k \in DOMAIN pipe : pipe[k].type = "cutAndPaste" => pipe[k].options.fixUntouched) =>
    \A i \in DOMAIN structures : \A j \in DOMAIN structures[i].data.atoms :
      LET atom == structures[i].data.atoms[j]
      IN ~atom.cut => atom.at = "home" \/ (atom.at = "moved" /\ Types \cap Movers # {})

(* Whoever uses the species database while structures move finds what the
   potential put there, wherever an optimiser that has one is in the pipe: the
   structures are built with it, and separators have it. *)
HasDatabase == \E k \in DOMAIN pipe : HasPotential(pipe[k])
DatabaseIsReady ==
  (pc = "running" /\ HasDatabase) =>
    /\ \A k \in DOMAIN pipe : pipe[k].type \in Separators => own[k].database = BuiltIn
    /\ pipe[1].type = "generateStructures" =>
         \A i \in DOMAIN structures : structures[i].data.radii = BuiltIn

(* No cell is scaled to nothing for want of a database that an optimiser of the
   pipe fills: only that of a structure without an atom that is in it. *)
FlatForWantOfAtoms ==
  [][HasDatabase =>
       \A i \in DOMAIN structures :
         structures'[i].data.flat /\ ~Data(i).flat =>
           \A j \in DOMAIN Data(i).atoms : Data(i).atoms[j].species \notin Known]_vars

(* A document can be run if every name in its run line is that of an entry that
   can be made, one whose own document can be run if it needs a pipe.  At the
   top a text between bars is a name. *)
Borne(n, sound, name) ==
  {k \in DOMAIN Document[n].entries :
     LET entry == Document[n].entries[k]
     IN /\ entry.name = name
        /\ entry.type \in Registered
        /\ entry.type \in NeedsPart => entry.part # Unset
        /\ entry.type \in NeedsPipe => entry.pipe \in sound}
Sound[n \in 0..Len(Document)] ==
  IF n = 0 THEN {}
  ELSE LET before == Sound[n - 1]
           names == ToSet(Words(Document[n].run))
       IN IF names # {} /\ \A name \in names : Borne(n, before, name) # {}
          THEN before \cup {n} ELSE before
AllSound == Sound[Len(Document)]

(* The pipe that an engine gets is the one the document describes: its blocks are
   of the run line, in that order, each of the last entry of its name, with the
   options given there, but for two that no block is told of, and the pipe of
   its own document; and a document is turned down for its pipe if and only if
   it cannot be run. *)
NotHeeded(type) ==
  CASE type = "separateAtoms" -> {"failAction"}
    [] type = "writeStructures" -> {"multiWrite"}
    [] OTHER -> {}
RunsWhatIsWritten ==
  LET line == Document[document].run
      canRun == document \in AllSound /\ \A k \in DOMAIN line : Len(line[k]) = 1
  IN /\ exit = "build" => ~canRun
     /\ pc = "engine" =>
          /\ canRun
          /\ [k \in DOMAIN pipe |-> pipe[k].name] = Words(line)
          /\ \A k \in DOMAIN pipe :
               LET bearers == Borne(document, AllSound, pipe[k].name)
                   entry == Document[document].entries[CHOOSE j \in bearers :
                                                          \A i \in bearers : i <= j]
               IN /\ pipe[k].type = entry.type
                  /\ \A o \in DOMAIN entry.given \ NotHeeded(entry.type) :
                       pipe[k].options[o] = entry.given[o]
                  /\ entry.type \in NeedsPipe =>
                       [j \in DOMAIN pipe[k].pipe |-> pipe[k].pipe[j].name]
                         = Words(Document[entry.pipe].run)

(* Every structure is made once and ends once, and every one that is made ends:
   the pipeline implements StructureFlow. *)
Flow == INSTANCE StructureFlow WITH
  Structure <- 1..MaxStructures,
  unmade <- 1..MaxStructures \ DOMAIN structures,
  live <- In("moving") \cup In("held"),
  finished <- In("finished"),
  dropped <- In("dropped"),
  freed <- In("freed")
EachEndsOnce == Flow!Spec
==============================================================================
