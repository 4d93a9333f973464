------------------------------ MODULE MCProgram ------------------------------
(***************************************************************************)
(* Instances of Program for TLC: documents that between them have every    *)
(* type of block, and some that are wrong.                                 *)
(***************************************************************************)
EXTENDS Program

Nothing == [o \in {} |-> Unset]
Entry1(type, name, given) ==
  [type |-> type, name |-> name, given |-> given, pipe |-> 0,
   part |-> IF type = "geomOptimise" THEN "parameterised" ELSE "made"]
Plain(type) == Entry1(type, type, Nothing)
Given(type, given) == Entry1(type, type, given)

(* A document whose run line names its entries in order. *)
InOrder(entries) ==
  [entries |-> entries, run |-> [k \in DOMAIN entries |-> <<entries[k].name>>],
   engine |-> {"serial"}]
Runs(doc, line) == [doc EXCEPT !.run = line]

Two == Given("generateStructures", [num |-> 2])
Twice == Given("clone", [times |-> 2])

Sub == InOrder(<<Plain("generateStructures"), Plain("geomOptimise")>>)
Named2(type, name) == Entry1(type, name, Nothing)
With(potential) == [Plain("geomOptimise") EXCEPT !.part = potential]

MCDocument ==
  << (* pipes of sub-pipelines: one text of two names, one of a block that has a
        pipe itself, one with a part that cannot be made *)
     Runs(Sub, <<<<"generateStructures", "geomOptimise">>>>),
     InOrder(<<[Plain("searchStoichiometries") EXCEPT !.pipe = 1], Plain("writeStructures")>>),
     InOrder(<<[Plain("generateStructures") EXCEPT !.part = Unset]>>),
     (* the optimiser comes last: the blocks before it use its database *)
     InOrder(<<Two, Plain("autoScale"), Given("cutAndPaste", [pairDistances |-> "AB"]),
               With("fixed"), Plain("keepStableCompositions")>>),
     InOrder(<<Two, Plain("writeStructures"), Twice, Named2("writeStructures", "again")>>),
     InOrder(<<Plain("loadStructures"), Plain("rescale"),
               Plain("findSymmetry"), Plain("pasteFragment"), Plain("separateAtoms")>>),
     InOrder(<<Plain("loadStructures"), Given("geomOptimise", [failAction |-> "continue"]),
               Twice, Plain("keepStableCompositions"), Plain("writeStructures")>>),
     InOrder(<<[Plain("searchStoichiometries") EXCEPT !.pipe = 1],
               Plain("keepStableCompositions"),
               Named2("keepStableCompositions", "again"), Plain("writeStructures")>>),
     InOrder(<<[Plain("runPotentialParamsQueue") EXCEPT !.pipe = 2], Plain("keepTopN"),
               Plain("clone")>>),
     InOrder(<<Plain("generateStructures"), Given("geomOptimise", [failAction |-> "continue"]),
               Twice, Plain("keepWithinXPercent"), Plain("removeDuplicates")>>),
     InOrder(<<Plain("generateStructures"),
               Given("clone", [times |-> 2, giveUniqueNames |-> FALSE]),
               Given("cutAndPaste", [fixUntouched |-> FALSE, separate |-> FALSE]),
               Given("writeStructures", [format |-> "none", multiWrite |-> FALSE])>>),
     (* no database, or no potential to fill it *)
     InOrder(<<Two, Plain("autoScale"), Given("separateAtoms", [pairDistances |-> "AB"]),
               Given("cutAndPaste", [paste |-> FALSE]), Plain("rescale")>>),
     InOrder(<<Plain("generateStructures"), Given("separateAtoms", [failAction |-> "drop"]),
               Given("cutAndPaste", [paste |-> FALSE]), Plain("autoScale"), With("none")>>),
     (* what is cut out before it is scaled with a database *)
     InOrder(<<Plain("loadStructures"), Given("cutAndPaste", [paste |-> FALSE]),
               Plain("autoScale"), With("fixed"), Named2("cutAndPaste", "again")>>),
     (* of two blocks with one name the later is run *)
     Runs(InOrder(<<Two, Named2("rescale", "x"), Named2("autoScale", "x"), Plain("niggliReduce")>>),
          <<<<"generateStructures">>, <<"x">>, <<"niggliReduce">>>>),
     (* a pipe that is not there, none that can be made, two names in a text, a
        name that nothing has, a type that nobody knows, no run line, no engine,
        an engine of no kind *)
     InOrder(<<Plain("searchStoichiometries"), Plain("rescale")>>),
     InOrder(<<[Plain("searchStoichiometries") EXCEPT !.pipe = 3], Plain("rescale")>>),
     Runs(Sub, <<>>),
     Runs(Sub, <<<<"generateStructures", "geomOptimise">>>>),
     Runs(Sub, <<<<"generateStructures">>, <<"rescale">>>>),
     InOrder(<<Plain("generateStructures"), Plain("edgeDetect")>>),
     Runs(Sub, Unset),
     [Sub EXCEPT !.engine = Unset],
     [Sub EXCEPT !.engine = {}],
     [Sub EXCEPT !.engine = {"serial", "multithreaded"}],
     [Sub EXCEPT !.engine = {"multithreaded"}]
  >>

Atom(species, inShape) ==
  [species |-> species, inShape |-> inShape, at |-> "home", cut |-> FALSE]
MCHome == <<Atom("A", TRUE), Atom("B", FALSE)>>
MCLoadable == <<NewStructure(Unset, <<Atom("A", TRUE)>>),
                NewStructure(<<"loaded">>, <<Atom("A", FALSE)>>)>>
MCFragment == <<Atom("B", FALSE)>>
MCTags == {"tag"}
MCKnown == {"A", "B"}
MCBuiltIn == <<"built in">>
MCInputs == 4..Len(MCDocument)
MCWriters == {"res", "cif"}
==============================================================================
