----------------------------- MODULE EngineData -----------------------------
(***************************************************************************)
(* What a block finds in the engine that runs it.  GlobalData is one for   *)
(* the program and all its engines: the seed name, parameters by tag, the  *)
(* settings structures are generated with.  SharedData belongs to one      *)
(* engine: an instance name, a working directory, a species database.      *)
(* Either is a record.  A path is a sequence of names, absolute if it      *)
(* starts with the root; a name is a tuple that begins with its kind.      *)
(***************************************************************************)
EXTENDS Naturals, Sequences, SequencesExt

CONSTANTS
  Unset,      \* an optional or a property that is not there
  Tags,       \* tags of parameters in GlobalData
  Refused     \* parameter sets that a potential's setParams does not take

Root == <<"/">>
Dot == <<".">>
Current == <<Root, <<"cwd">>>>   \* the directory the program is started in

IsAbsolute(path) == path # <<>> /\ path[1] = Root

(* The program never calls setWorkingDir of GlobalData: it stays empty. *)
NewGlobal(seedName) ==
  [seed |-> seedName, dir |-> <<>>, params |-> [t \in Tags |-> Unset], generation |-> Unset]

NewShared(instance) == [instance |-> instance, dir |-> <<>>, species |-> Unset]

(* setParameters: an empty set takes the tag's parameters away. *)
SetParameters(global, tag, params) ==
  [global EXCEPT !.params[tag] = IF params = <<>> THEN Unset ELSE params]

(* updateParameterisable, as a potential with the parameters held leaves it:
   it keeps them if the tag is empty or has none, or if it refuses them. *)
Parameterised(global, tag, held) ==
  IF tag \notin Tags \/ global.params[tag] \in Refused \cup {Unset} THEN held
  ELSE global.params[tag]

(* getOutputFileStem; an instance name is generated and never empty. *)
OutputFileStem(shared, global) ==
  IF global.seed = Unset THEN <<>> ELSE <<<<global.seed, shared.instance>>>>

(* getWorkingDir *)
WorkingDir(shared, global) ==
  IF IsAbsolute(shared.dir) THEN shared.dir ELSE global.dir \o shared.dir

(* outputFileStemPath *)
OutputFileStemPath(shared, global) ==
  WorkingDir(shared, global) \o OutputFileStem(shared, global)

Absolute(path) == IF IsAbsolute(path) THEN path ELSE Current \o path

(* make_relative of SSLib. *)
MakeRelative(base, path) ==
  IF IsPrefix(Absolute(base), Absolute(path))
  THEN SubSeq(Absolute(path), Len(Absolute(base)) + 1, Len(Absolute(path)))
  ELSE path

(* getRelativeSavePath: where a structure was saved last, if it was. *)
RelativeSavePath(structure, relativeTo) ==
  IF structure.saved = Unset THEN Unset
  ELSE [structure.saved EXCEPT !.path = MakeRelative(relativeTo, @)]
==============================================================================
