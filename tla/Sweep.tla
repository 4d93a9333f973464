------------------------------- MODULE Sweep --------------------------------
(***************************************************************************)
(* Three engines, one inside the other.  The program's engine runs         *)
(* RunPotentialParamsQueue, which runs a pipe of its own for each set of   *)
(* parameters; that pipe starts with SearchStoichiometries, which runs a   *)
(* pipe of its own for each stoichiometry; and that one generates,         *)
(* optimises and writes structures.  What finishes in a pipe is buffered   *)
(* by the block that runs it, entered in the block's table and sent on     *)
(* when the run is over.  The blocks speak to each other through           *)
(* GlobalData and through the working directory of the inner engines.      *)
(* How processes share the queue of parameters is ParamsQueue.             *)
(***************************************************************************)
EXTENDS Blocks, FiniteSets, FiniteSetsExt

CONSTANTS
  QueueTag,    \* the tag RunPotentialParamsQueue stores parameters under
  BuiltIn,     \* the parameters the potential is made with
  Ranges,      \* atomRanges: a pair of bounds for each species
  MaxAtoms,    \* maxAtoms
  Settings     \* what input files ask for: a set of records

Species == DOMAIN Ranges

ASSUME SweepAssumption ==
  /\ QueueTag \in Tags /\ Unset \notin Tags
  /\ BuiltIn # Unset /\ BuiltIn # <<>>
  /\ IsFiniteSet(Species) /\ MaxAtoms \in Nat
  /\ \A p \in Species : Ranges[p] \in Nat \X Nat

VARIABLES
  setting,     \* the input file, one of Settings
  pc,          \* the loop the program is in: "queue", "stoich", "pipe" or "end"
  global,      \* GlobalData
  unique,      \* names given out by generateUniqueName
  held,        \* the parameters the optimiser's potential holds
  disk,        \* structures saved, by location
  (* RunPotentialParamsQueue, in the program's engine *)
  waiting,     \* myParamsQueue
  doneParams,  \* myDoneParams
  buffer,      \* myBuffer
  table,       \* its table
  sent,        \* history: what went down the program's pipe
  (* SearchStoichiometries *)
  shared,      \* SharedData of the engine that runs it
  todo,        \* stoichiometries the loop has yet to come to
  stoich,      \* currentIdx
  found,       \* myBuffer
  stoichTable, \* its table
  (* the innermost pipe *)
  inner,       \* SharedData of the engine that runs it
  attempt,     \* structures BuildStructures has tried to make
  passing      \* structures between two blocks, with the step that is next

programVars == <<setting, global, unique, held, disk>>
queueVars == <<waiting, doneParams, buffer, table, sent>>
stoichVars == <<shared, todo, stoich, found, stoichTable>>
pipeVars == <<inner, attempt, passing>>
vars == <<pc, programVars, queueVars, stoichVars, pipeVars>>

MainShared == NewShared(<<"main">>)

(* A row of either table is a record of its cells.  A cell with a number of a
   structure holds the structure's name. *)
EmptyRow ==
  [atoms |-> Unset, params |-> Unset, energy |-> Unset, sg |-> Unset, lowest |-> Unset]
NoTable == [key \in {} |-> EmptyRow]
RowOf(t, key) == IF key \in DOMAIN t THEN t[key] ELSE EmptyRow

(* A row is there once a cell of it is set. *)
WithRow(t, key, row) ==
  IF row = EmptyRow THEN t
  ELSE [k \in DOMAIN t \cup {key} |-> IF k = key THEN row ELSE t[k]]

(* A cell after a loop over structures of which each sets it that has a value. *)
LastOf(values, cell) ==
  LET given == {k \in DOMAIN values : values[k] # Unset}
  IN IF given = {} THEN cell ELSE values[Max(given)]

(* What both blocks enter of the structures they send on, with paths relative
   to their working directory. *)
RowAfter(row, structures, dir) ==
  LET Each(Value(_)) == [k \in DOMAIN structures |-> Value(structures[k])]
  IN [row EXCEPT
        !.energy = LastOf(Each(LAMBDA s : IF s.energy THEN s.name ELSE Unset), @),
        !.sg = LastOf(Each(LAMBDA s : IF s.sg THEN s.name ELSE Unset), @),
        !.lowest = LastOf(Each(LAMBDA s : RelativeSavePath(s, dir)), @)]

(* insertStructureInfoAndPotentialParams, for one structure after another. *)
RowWithParams(row, structures, dir) ==
  [RowAfter(row, structures, dir) EXCEPT
     !.params = LastOf([k \in DOMAIN structures |-> structures[k].params], @)]

(* Mutant of StoichRange: the end of a half-open range is not raised by one. *)
StoichRangeShort ==
  {n \in [Species -> UNION {Ranges[p][1]..Ranges[p][2] : p \in Species}] :
     \A p \in Species : Ranges[p][1] <= n[p] /\ n[p] < Ranges[p][2]}

(* getStoichRange: a half-open range, one more than the maximum at its end. *)
StoichRange ==
  {n \in [Species -> UNION {Ranges[p][1]..Ranges[p][2] : p \in Species}] :
     \A p \in Species : Ranges[p][1] <= n[p] /\ n[p] < Ranges[p][2] + 1}

(* What input files may ask for.  A line that is read from the queue is not
   empty, so that the set of parameters on it is not either. *)
ASSUME SettingsAssumption ==
  /\ Unset \notin StoichRange
  /\ \A s \in Settings :
       /\ s.queued \in BOOLEAN /\ s.num \in Nat
       /\ s.queue \in Seq(ToSet(s.queue) \ {Unset, <<>>})

Total(n) == MapThenSumSet(LAMBDA p : n[p], Species)
Skipped(n) == Total(n) = 0 \/ Total(n) > MaxAtoms

(* The directory of a stoichiometry, and the key of its row. *)
SweepPath(n) ==
  WorkingDir(shared, global) \o IF setting.separate THEN <<<<"stoich", n>>>> ELSE <<>>
KeyOf(path) == IF path = <<>> THEN <<Dot>> ELSE path

------------------------------------------------------------------------------
Init ==
  /\ setting \in Settings
  /\ pc = IF setting.queued THEN "queue" ELSE "stoich"
  /\ global = NewGlobal("seed")
  /\ unique = 0
  /\ held = BuiltIn
  /\ disk = [l \in {} |-> Unset]
  /\ waiting = setting.queue
  /\ doneParams = <<>> /\ buffer = <<>> /\ sent = <<>>
  /\ table = NoTable
  /\ shared = IF setting.queued THEN NewShared(<<"outer">>) ELSE MainShared
  /\ todo = IF setting.queued THEN {} ELSE StoichRange
  /\ stoich = Unset
  /\ found = <<>>
  /\ stoichTable = NoTable
  /\ inner = NewShared(<<"inner", 0>>)
  /\ attempt = 0
  /\ passing = {}

(* The next parameter set: stored for the blocks of all pipes, with a directory
   of its own, and the pipe of SearchStoichiometries started. *)
NextParams ==
  /\ pc = "queue" /\ waiting # <<>>
  /\ global' = SetParameters(global, QueueTag, Head(waiting))
  /\ unique' = unique + 1
  /\ shared' = [shared EXCEPT !.dir = Append(WorkingDir(MainShared, global), <<"dir", unique'>>)]
  /\ todo' = StoichRange
  /\ pc' = "stoich"
  /\ UNCHANGED <<setting, held, disk, queueVars, stoich, found, stoichTable, pipeVars>>

(* The order in which the loop comes to the stoichiometries is one that is
   fixed and not told. *)
Upcoming == CHOOSE n \in todo : TRUE

SkipStoich ==
  /\ pc = "stoich" /\ todo # {}
  /\ Skipped(Upcoming)
  /\ todo' = todo \ {Upcoming}
  /\ UNCHANGED <<pc, programVars, queueVars, shared, stoich, found, stoichTable, pipeVars>>

(* Mutant of InnerFor: the inner engine's directory is set once only. *)
InnerForDirOnce(n) == IF inner.dir = <<>> THEN [inner EXCEPT !.dir = SweepPath(n)] ELSE inner

(* The inner engine's shared data, set up before each run. *)
InnerFor(n) == [inner EXCEPT !.dir = SweepPath(n)]

(* Mutant of SettingsFor: settings that are there already are left. *)
SettingsForFirst(n) ==
  IF global.generation = Unset THEN [global EXCEPT !.generation = n] ELSE global

SettingsFor(n) == [global EXCEPT !.generation = n]

(* The loop's body up to the start of the inner pipe: the settings and the
   directory for its blocks, then their pipelineInitialising, in which
   GeomOptimise gives its potential the parameters of its tag and fills the
   species database. *)
RunStoich ==
  /\ pc = "stoich" /\ todo # {}
  /\ ~Skipped(Upcoming)
  /\ todo' = todo \ {Upcoming}
  /\ stoich' = Upcoming
  /\ global' = SettingsFor(Upcoming)
  /\ held' = IF setting.fits THEN Parameterised(global, setting.tag, held) ELSE held
  /\ inner' = [InnerFor(Upcoming) EXCEPT !.species = held']
  /\ attempt' = 0
  /\ pc' = "pipe"
  /\ UNCHANGED <<setting, unique, disk, queueVars, shared, found, stoichTable, passing>>

(* BuildStructures: one more structure, or none within the attempts allowed. *)
Generate ==
  /\ pc = "pipe" /\ attempt < setting.num
  /\ attempt' = attempt + 1
  /\ \/ UNCHANGED <<unique, passing>>
     \/ /\ unique' = unique + 1
        /\ passing' = passing \cup
             {[next |-> "optimise",
               structure |-> Generated(global, inner, Unset, <<"structure", unique'>>)]}
  /\ UNCHANGED <<pc, setting, global, held, disk, queueVars, stoichVars, inner>>

(* What its atoms are here, how many of each species, is left alone. *)
Optimise(p) ==
  /\ p.next = "optimise"
  /\ \E o \in Optimised(p.structure, IF setting.fits THEN held ELSE Unset, setting.failAction,
                      {p.structure.atoms}) :
       passing' = (passing \ {p}) \cup
         IF o.out THEN {[next |-> "save", structure |-> SymmetryFound(o.structure)]} ELSE {}
  /\ UNCHANGED <<pc, programVars, queueVars, stoichVars, inner, attempt>>

(* WriteStructures; what could not be written goes on all the same. *)
Save(p) ==
  LET location == SaveLocation(p.structure, setting.multi, inner, global)
      saved == [p.structure EXCEPT !.saved = location]
  IN /\ p.next = "save"
     /\ \/ /\ disk' = OnDisk(disk, saved, location)
           /\ passing' = (passing \ {p}) \cup {[next |-> "finish", structure |-> saved]}
        \/ /\ passing' = (passing \ {p}) \cup {[p EXCEPT !.next = "finish"]}
           /\ UNCHANGED disk
     /\ UNCHANGED <<pc, setting, global, unique, held, queueVars, stoichVars, inner, attempt>>

(* The inner engine hands a finished structure to SearchStoichiometries. *)
Finish(p) ==
  /\ p.next = "finish"
  /\ passing' = passing \ {p}
  /\ found' = Append(found, p.structure)
  /\ UNCHANGED <<pc, programVars, queueVars, shared, todo, stoich, stoichTable, inner, attempt>>

(* An engine's shared data may be made anew when a run is over. *)
ResetOrNot(data) == {data, NewShared(<<"inner", unique>>)}

(* Mutant of Tagged: the current parameters whatever the optimiser used. *)
TaggedAlways(structures) ==
  [k \in DOMAIN structures |-> [structures[k] EXCEPT !.params = Head(waiting)]]

(* RunPotentialParamsQueue::finished *)
Tagged(structures) ==
  [k \in DOMAIN structures |->
     [structures[k] EXCEPT !.params = IF @ = Unset THEN Head(waiting) ELSE @]]

(* The table when a run of the inner pipe is over: the row made, under "." if
   the path is empty, and the structures entered, under the path as it is. *)
StoichEntered ==
  LET path == SweepPath(stoich)
      made == WithRow(stoichTable, KeyOf(path),
                      [RowOf(stoichTable, KeyOf(path)) EXCEPT !.atoms = stoich])
  IN WithRow(made, path, RowAfter(RowOf(made, path), found, WorkingDir(shared, global)))

(* Mutant of Released: the buffer is not cleared. *)
ReleasedNotCleared ==
  IF setting.queued THEN buffer' = buffer \o Tagged(found) /\ UNCHANGED <<sent, found>>
  ELSE sent' = sent \o found /\ UNCHANGED <<buffer, found>>

(* Everything buffered is sent down the pipe that SearchStoichiometries starts.
   There it finishes, in the queue block or in the program's pipe. *)
Released ==
  /\ IF setting.queued THEN buffer' = buffer \o Tagged(found) /\ UNCHANGED sent
     ELSE sent' = sent \o found /\ UNCHANGED buffer
  /\ found' = <<>>

(* The rest of the loop's body, once the inner pipe has run dry. *)
EndRun ==
  /\ pc = "pipe" /\ attempt = setting.num /\ passing = {}
  /\ stoichTable' = StoichEntered
  /\ Released
  /\ inner' \in ResetOrNot(inner)
  /\ pc' = "stoich"
  /\ UNCHANGED <<programVars, waiting, doneParams, table, shared, todo, stoich, attempt, passing>>

(* SearchStoichiometries has come to an end as the program's start block. *)
EndStoich ==
  /\ pc = "stoich" /\ todo = {} /\ ~setting.queued
  /\ pc' = "end"
  /\ stoichTable' = NoTable
  /\ UNCHANGED <<programVars, queueVars, shared, todo, stoich, found, pipeVars>>

(* Mutant of ParamsDone: the set is not noted. *)
ParamsDoneUnnoted == waiting' = Tail(waiting) /\ UNCHANGED doneParams

ParamsDone == waiting' = Tail(waiting) /\ doneParams' = Append(doneParams, Head(waiting))

(* The pipe run for a parameter set is finished, and its table cleared: the set
   is done, and what was buffered entered and sent on. *)
EndParams ==
  LET path == shared.dir
      dir == WorkingDir(MainShared, global)
  IN /\ pc = "stoich" /\ todo = {} /\ setting.queued
     /\ stoichTable' = NoTable
     /\ ParamsDone
     /\ table' = WithRow(table, path, RowWithParams(RowOf(table, path), buffer, dir))
     /\ sent' = sent \o buffer
     /\ buffer' = <<>>
     /\ shared' \in ResetOrNot(shared)
     /\ pc' = "queue"
     /\ UNCHANGED <<programVars, todo, stoich, found, pipeVars>>

EndQueue ==
  /\ pc = "queue" /\ waiting = <<>>
  /\ pc' = "end"
  /\ UNCHANGED <<programVars, queueVars, stoichVars, pipeVars>>

Next ==
  \/ NextParams \/ SkipStoich \/ RunStoich
  \/ Generate
  \/ \E p \in passing : Optimise(p) \/ Save(p) \/ Finish(p)
  \/ EndRun \/ EndStoich \/ EndParams \/ EndQueue

(* A program that runs goes on. *)
Spec == Init /\ [][Next]_vars /\ WF_vars(Next)

------------------------------------------------------------------------------
Finished == found \o buffer \o sent

(* The variables have their types.  GlobalData keeps the settings of the last
   stoichiometry; the inner engine has a directory while it runs, and a queue
   that is at work has a set in hand. *)
TypeOK ==
  /\ setting \in Settings
  /\ pc \in {"queue", "stoich", "pipe", "end"}
  /\ unique \in Nat
  /\ todo \subseteq StoichRange
  /\ pc = "pipe" => stoich \in StoichRange /\ global.generation = stoich
  /\ (setting.queued /\ pc \in {"stoich", "pipe"}) => waiting # <<>> /\ shared.dir # <<>>
  /\ pc # "pipe" => passing = {}
  /\ attempt \in 0..setting.num

(* A structure is marked with the parameters it was in fact optimised with,
   those whose radii it was built with as well, though the result of handing
   them to the potential is ignored and a set may be refused.  The set at hand
   is used if it is not, and the block that runs the queue adds it where there
   was nothing to mark. *)
MarkedAsUsed ==
  /\ setting.fits => \A k \in DOMAIN Finished : Finished[k].params = Finished[k].radii
  /\ \A k \in DOMAIN buffer :
       (~setting.fits \/ (setting.tag = QueueTag /\ Head(waiting) \notin Refused)) =>
         buffer[k].params = Head(waiting)

(* A row's path leads from the block's working directory to a structure that
   was saved, in the directory the row is named for: one with the row's atoms
   if each stoichiometry has a directory, one optimised with the row's
   parameters in the table of the queue. *)
RowsTellTheTruth ==
  LET At(dir, row) == [row.lowest EXCEPT !.path = Absolute(dir) \o @]
      Saved(t, dir, Agrees(_, _)) ==
        \A key \in DOMAIN t :
          LET there == At(dir, t[key])
          IN t[key].lowest # Unset =>
               /\ there \in DOMAIN disk
               /\ IsPrefix(Absolute(key), there.path)
               /\ Agrees(t[key], disk[there])
  IN /\ setting.separate =>
          Saved(stoichTable, WorkingDir(shared, global), LAMBDA row, s : s.atoms = row.atoms)
     /\ Saved(table, WorkingDir(MainShared, global),
              LAMBDA row, s : setting.fits => s.params = row.params)

(* When the loop over stoichiometries is through, every one within the limits
   has a row of its own that names it, the ends of the ranges included, and
   there are no other rows. *)
SweepIsComplete ==
  LET wanted == {n \in [Species -> 0..MaxAtoms] :
                   /\ \A p \in Species : n[p] \in Ranges[p][1]..Ranges[p][2]
                   /\ Total(n) \in 1..MaxAtoms}
  IN (pc = "stoich" /\ todo = {} /\ setting.separate) =>
       /\ {stoichTable[key].atoms : key \in DOMAIN stoichTable} = wanted
       /\ Cardinality(DOMAIN stoichTable) = Cardinality(wanted)

(* A structure that was saved and is through the inner pipe is on its way out
   or sent, in one place and once, across both buffers. *)
SavedIsSentOnce ==
  /\ \A j, k \in DOMAIN Finished : Finished[j].name = Finished[k].name => j = k
  /\ \A l \in DOMAIN disk :
       \/ \E k \in DOMAIN Finished : Finished[k].name = l.id
       \/ \E p \in passing : p.structure.name = l.id
  /\ pc = "end" => found = <<>> /\ buffer = <<>>

(* Every parameter set of the chunk is run and noted, in order. *)
QueueIsRun == <>(pc = "end" /\ (setting.queued => doneParams = setting.queue))

(* "use '.' as the current directory if the path is empty"
   (SearchStoichiometries.cpp:118), and a row's key is not empty
   (DataTable.cpp:213). *)
KeysAreNotEmpty == \A key \in DOMAIN stoichTable : key # <<>>
==============================================================================
