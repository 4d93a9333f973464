------------------------------ MODULE PipeBuild ------------------------------
(***************************************************************************)
(* From an input document to a pipe: the entries of a document are made    *)
(* into blocks, found by name, and connected as the document's run line    *)
(* says; an entry may hold a document of its own for a sub-pipeline.       *)
(* Errors on the way are printed, and what is not there when it is asked   *)
(* for is what stops the program.                                          *)
(***************************************************************************)
EXTENDS EngineData

CONSTANTS
  Garbage,     \* a member of an options struct that nothing has set
  WithHull,    \* SPL_USE_CGAL
  WithThreads, \* SPIPE_USE_BOOST_THREAD
  Document     \* the documents, numbered so that sub-pipelines come first

(* A document is a record of its entries, its run line and its engine map.  An
   entry has a type and a name, the options given, the part that SSLib makes for
   the block, Unset if it cannot, and the number of the document of its
   sub-pipeline, or 0.  Of an optimiser the part tells its potential: "none",
   "fixed" or "parameterised".  A run line is a sequence of the texts between
   bars, each a sequence of words; it and the engine map are Unset if the
   document has none. *)
Words(line) == IF line = Unset THEN <<>> ELSE FlattenSeq(line)

(* Entries and run lines are sequences, and no run line names a block twice: what
   a block connected twice does is up to pipelib. *)
ASSUME DocumentAssumption ==
  /\ Document \in Seq(ToSet(Document))
  /\ \A n \in DOMAIN Document :
       /\ Document[n].entries \in Seq(ToSet(Document[n].entries))
       /\ \A k \in DOMAIN Document[n].entries : Document[n].entries[k].pipe \in 0..(n - 1)
       /\ Words(Document[n].run) \in Seq(ToSet(Words(Document[n].run)))
       /\ IsInjective(Words(Document[n].run))

------------------------------------------------------------------------------
StartTypes ==
  {"generateStructures", "loadStructures", "runPotentialParamsQueue", "searchStoichiometries"}
Barriers ==
  {"keepTopN", "keepWithinXPercent", "removeDuplicates"}
  \cup (IF WithHull THEN {"keepStableCompositions"} ELSE {})
Streaming ==
  {"autoScale", "clone", "cutAndPaste", "findSymmetry", "geomOptimise", "pasteFragment",
   "niggliReduce", "rescale", "separateAtoms", "writeStructures"}

(* The directory of creators that the loader's constructor fills. *)
Registered == StartTypes \cup Barriers \cup Streaming

NeedsPipe == {"runPotentialParamsQueue", "searchStoichiometries"}
NeedsPart == {"generateStructures", "cutAndPaste", "geomOptimise", "removeDuplicates"}

(* What the schemas put where the document says nothing: their defaults, Unset
   for an optional; a required value that is missing is only reported. *)
SweepDefaults(type) ==
  CASE type = "runPotentialParamsQueue" ->
         [queueFile |-> "params_queue", doneFile |-> "params_done", paramsTag |-> ""]
    [] type = "searchStoichiometries" -> [ranges |-> <<>>, useSeparateDirs |-> FALSE]

OutputDefaults(type) ==
  CASE type = "separateAtoms" -> [pairDistances |-> Unset, failAction |-> "continue"]
    [] type = "writeStructures" -> [format |-> "res", multiWrite |-> TRUE]

Defaults(type) ==
  CASE type \in NeedsPipe -> SweepDefaults(type)
    [] type \in {"separateAtoms", "writeStructures"} -> OutputDefaults(type)
    [] type = "autoScale" -> [packingFactor |-> "0.1"]
    [] type = "generateStructures" -> [num |-> 1]
    [] type = "clone" -> [times |-> Garbage, giveUniqueNames |-> Unset]
    [] type = "cutAndPaste" ->
         [paste |-> TRUE, separate |-> TRUE, fixUntouched |-> TRUE, pairDistances |-> Unset]
    [] type = "geomOptimise" ->
         [writeSummary |-> FALSE, failAction |-> "drop", paramsTag |-> Unset]
    [] type = "keepStableCompositions" -> [writeHull |-> FALSE]
    [] type = "keepTopN" -> [num |-> 1]
    [] type = "keepWithinXPercent" -> [percent |-> 5]
    [] type = "loadStructures" -> [toLoad |-> ""]
    [] type = "pasteFragment" -> [fragment |-> Unset]
    [] type = "rescale" -> [scaleFactor |-> "1.5"]
    [] type \in {"findSymmetry", "niggliReduce", "removeDuplicates"} -> [none |-> Unset]

(* nodeToValue *)
Options(entry) ==
  LET default == Defaults(entry.type)
  IN [o \in DOMAIN default |-> IF o \in DOMAIN entry.given THEN entry.given[o] ELSE default[o]]

(* The settings createBlock makes of the options: failAction is not handed on to
   SeparateAtoms, and setWriteMulti stores true whatever it is given. *)
Settings(entry) ==
  LET options == Options(entry)
  IN CASE entry.type = "separateAtoms" -> [pairDistances |-> options.pairDistances]
       [] entry.type = "writeStructures" -> [options EXCEPT !.multiWrite = TRUE]
       [] OTHER -> options

Block(entry, pipe) ==
  [type |-> entry.type, name |-> entry.name, options |-> Settings(entry), part |-> entry.part,
   pipe |-> pipe]

NotMade == [handle |-> Unset, result |-> FALSE]

(* Mutant of CreateBlock: no block is handed out where it returns false. *)
CreateBlockIfTrue(entry) ==
  IF entry.type = "keepWithinXPercent" \/ (entry.type \in NeedsPart /\ entry.part = Unset)
  THEN NotMade ELSE [handle |-> Block(entry, Unset), result |-> TRUE]

(* createBlock: the handle it sets and the result it returns.  It needs the
   part that SSLib makes, and for KeepWithinXPercent it returns false though it
   has made the block. *)
CreateBlock(entry) ==
  IF entry.type \in NeedsPart /\ entry.part = Unset THEN NotMade
  ELSE [handle |-> Block(entry, Unset), result |-> entry.type # "keepWithinXPercent"]

(* createBlock of the two blocks that run a pipe of their own. *)
CreateSweepBlock(entry, pipe) ==
  IF pipe = Unset THEN NotMade ELSE [handle |-> Block(entry, pipe), result |-> TRUE]

(* FactoryBlockCreator::createBlock: the errors of the options are printed and
   the result of the factory is not looked at. *)
Creator(entry, pipe) ==
  (IF entry.type \in NeedsPipe THEN CreateSweepBlock(entry, pipe) ELSE CreateBlock(entry)).handle

(* BlockLoader::load: the blocks by name.  Entries of a type that is not known
   are passed over, and a block takes the place of an earlier one of its name. *)
Loaded(entries, pipes) ==
  LET Load(blocks, entry) ==
        LET handle == IF entry.type \in Registered THEN Creator(entry, pipes[entry.pipe])
                      ELSE Unset
        IN IF handle = Unset THEN blocks
           ELSE [name \in DOMAIN blocks \cup {entry.name} |->
                   IF name = entry.name THEN handle ELSE blocks[name]]
  IN FoldLeft(Load, [name \in {} |-> Unset], entries)

(* The blocks in the order of their names, or no pipe if one is not found. *)
Connected(blocks, names) ==
  IF names = <<>> \/ ~(ToSet(names) \subseteq DOMAIN blocks) THEN Unset
  ELSE [k \in DOMAIN names |-> blocks[names[k]]]

(* BlockLoaderType::nodeToValue for the document of a sub-pipeline: bars and
   spaces both separate names.  A pipe that is not made leaves the option as it
   was, a null handle; so does one that is not there. *)
SubPipe[n \in 0..Len(Document)] ==
  IF n = 0 THEN Unset
  ELSE Connected(Loaded(Document[n].entries, [m \in 0..(n - 1) |-> SubPipe[m]]),
                 Words(Document[n].run))

(* buildPipe: only bars separate names, which are trimmed. *)
Pipe[n \in DOMAIN Document] ==
  LET line == Document[n].run
  IN IF line = Unset \/ \E k \in DOMAIN line : Len(line[k]) # 1 THEN Unset
     ELSE Connected(Loaded(Document[n].entries, SubPipe), Words(line))

(* An option that is given is one of those the schema of the block has. *)
ASSUME OptionsAssumption ==
  \A n \in DOMAIN Document : \A k \in DOMAIN Document[n].entries :
    LET entry == Document[n].entries[k]
    IN entry.type \in Registered => DOMAIN entry.given \subseteq DOMAIN Defaults(entry.type)

(* Unset, which stands for what is not there, is no block and no pipe. *)
ASSUME UnsetAssumption ==
  \A n \in DOMAIN Document :
    LET entries == Document[n].entries
        names == Words(Document[n].run)
    IN /\ \A k \in DOMAIN entries :
            entries[k].type \in Registered =>
              /\ Block(entries[k], Unset) # Unset
              /\ Block(entries[k], SubPipe[entries[k].pipe]) # Unset
       /\ \A pipes \in {SubPipe, [m \in 0..(n - 1) |-> SubPipe[m]]} :
            LET blocks == Loaded(entries, pipes)
            IN ToSet(names) \subseteq DOMAIN blocks =>
                 [k \in DOMAIN names |-> blocks[names[k]]] # Unset

(* PipeEngineFactory::createEngine: a serial engine if both are asked for, and a
   multithreaded one only if it was built in. *)
CreateEngine(engine) ==
  IF "serial" \in engine THEN "serial"
  ELSE IF WithThreads /\ "multithreaded" \in engine THEN "multithreaded" ELSE Unset
==============================================================================
