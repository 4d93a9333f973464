# StructurePipe in TLA+

StructurePipe generates, optimises and sifts crystal structures in pipelines of
blocks. This directory holds TLA+ models of the parts of it that carry state,
order or concurrency of their own, TLC instances that check them, and proofs that
the TLA+ proof system checks. Line numbers refer to the files of the repository.

## The system

A **pipeline** starts with a start block, runs through blocks that pass structures
on (`out`) or give them up (`drop`), and contains **barriers**, which hold what they
are given until the engine asks them to `release`. A pipelib **engine** runs it, in
one thread or in several; blocks may then be entered by several threads at once and
guard their state with a mutex. Two start blocks own a sub-pipeline with an engine
of its own and run it once for each item of a sweep. Several **processes** may work
on one sweep through files they share.

| Component | State | Operations | Interacts with | Hard because | Correct when |
|---|---|---|---|---|---|
| `RunPotentialParamsQueue` | chunk in hand, sets done and not recorded, chunk size, timings; the queue file and the done file | `getWork`, `updateDoneParams`, `updateWorkChunkSize`, `start`, `finished` | other processes through two locked files; its sub-pipeline; `GlobalData` | processes interleave, die between two calls, rewrite a file in place; the done file comes and goes | each parameter set is run by one process, once, in order, and is recorded once |
| `DataTable`, `DataTableWriter`, `DataTableSupport` | rows, columns; what is on disk, where the next write goes | `insert`, `clear`, `write`, engine events | blocks that insert; the engine's listener list; the file | the writer appends what it believes is new and rewrites otherwise | the file holds the table |
| `KeepTopN` | an ordered multimap for each composition | `in`, `release`, `hasData` | engine threads | drops early, in any order of arrival | holds exactly the best N |
| `KeepWithinXPercent` | the same | the same | the same | the cutoff moves with each new lowest value | holds exactly what is within the cutoff |
| `RemoveDuplicates` | a set of unique structures, a counter on each | the same, `pipelineFinishing` | the same; the comparator | similarity is not transitive | one of each kind is kept, all are counted |
| `KeepStableCompositions` | the structures and a cached convex hull | the same | the same; CGAL | a hull cached in a const call is used by a later one | releases the stable ones, and drops the rest |
| `SearchStoichiometries` | a buffer, a table | `start`, `finished` | sub-pipeline, `GlobalData` | the buffer is filled by the sub-engine; rows are shared by name | every stoichiometry within the limit is run once and has its row |
| Streaming blocks (`GeomOptimise`, `BuildStructures`, `LoadStructures`, `WriteStructures`, `Clone`, `CutAndPaste`, `PasteFragment`, `SeparateAtoms`) | little | `in` or `start` | SSLib | failure branches | each structure is passed on or dropped, once |
| One-call blocks (`AutoScale`, `Rescale`, `NiggliReduce`, `FindSymmetryGroup`) | none | `in` | SSLib | - | - |
| `BlockLoader`, `PipeBuilder`, `BlockLoaderType` | blocks by name | `load`, `get`, `buildPipe` | YAML, `BlockFactory` | missing and half-parsed blocks | the pipe has the blocks named, in order |
| `BlockFactory`, `PipeEngineFactory`, schemas | none | `createBlock`, `createEngine` | schemer | return values | a block made is a block reported |
| `GlobalData`, `SharedData`, `PipeFunctions` | parameters and objects by key, working directory | getters and setters | all blocks | who sets what before whom | a block sees what its start block set |
| `CommonData`, `UtilityFunctions` | none | parsers of parameter ranges, paths | - | two parsers of one syntax | both yield the same range |
| `DataTableInserters`, `TableWriter`, `StructureData` | - | formatted inserts | tables | - | - |
| `spipe.cpp`, `Initialisation` | - | command line, logging | engine | - | - |
| `EdgeDetect` | dead code | - | - | - | - |

`PROJECT.json` lists the same components with what is modelled of each, and the
hazards of the code one by one with the properties that would catch them.

## The modules

| Module | Models | Composes |
|---|---|---|
| `WorkChunk` | the arithmetic of `updateWorkChunkSize` in closed form | - |
| `WorkChunkLoop` | the function as the loop it is, called over and over | `WorkChunk` |
| `WorkPool` | abstract: a pool of sets that processes claim, run and record | - |
| `ParamsQueue` | `RunPotentialParamsQueue` as processes sharing two files | `WorkChunk`, and `WorkPool` by refinement |
| `EngineData` | `GlobalData`, `SharedData`, `PipeFunctions` and save paths, as operators on records | - |
| `Blocks` | the blocks that hold no structures, each as what it makes of one | `EngineData` |
| `Sweep` | the two sweeping blocks and the innermost pipe: three engines, one inside the other | `Blocks` |
| `DataTable` | the table's operations on a record | - |
| `DataTableWriter` | the writer's operations on a disk and a writer | `DataTable` |
| `DataTableSupport` | the table, its writer and the engine's events | `DataTableWriter` |
| `KeepBarrier` | what the two `Keep` barriers share: reduced compositions, the ordered multimap, letting through, releasing | - |
| `KeepTopN`, `KeepWithinXPercent` | what each of them keeps | `KeepBarrier` |
| `RemoveDuplicates` | the barrier | - |
| `KeepStableCompositions` | the barrier with its cached hull, as operators on a record | - |
| `PipeBuild` | the loader, the builder, the factories and the schemas' defaults: from a document to a pipe | `EngineData` |
| `Program` | `main`, the phases of its engine, and structures going from block to block | `PipeBuild`, `Blocks`, `KeepStableCompositions`, and `StructureFlow` by refinement |
| `StructureFlow` | abstract: structures that are made once and end once | - |
| `ParamsQueueProofs`, `SweepProofs`, `KeepBarrierProofs`, `KeepProofs`, `RemoveDuplicatesProofs`, `ProgramProofs`, `DataTableProofs` | theorems and their proofs; `ParamsQueueProofs` has those about `WorkChunkLoop` too | the modules they are named for |
| `SumProofs` | lemmas about sums over finite sets, by induction, and the induction itself | - |
| `MC...` | instances for TLC, one for each module above that has runs | |

Operators whose comment begins with "Mutant of" are variants of the definition below
them with a plausible mistake in it; `PROJECT.json` says which property each breaks.
They are no part of any specification.

### ParamsQueue

Each process has a `pc` for where it stands in `start` (RunPotentialParamsQueue.cpp,
111-151). `LockQueue` to `FlushQueue` are `getWork`: take the lock, read line by line
until the chunk is full or the file ends, return if nothing was read, copy the rest,
write everything back, close and unlock. `RunItem` is the body of the inner loop;
`NoDoneFile`, `LockDone` and `FlushDone` are `updateDoneParams`; `ResizeChunk` is
`updateWorkChunkSize`. A file is a sequence of lines and a line a parameter set with
the pid it is marked with, if any; `ended` says whether the queue file's last line has a
newline, which the user may have left out. What `getline` has read is written back with
one, what is copied behind it is not (lines 184 and 190-192): if the file had a line
left that has no end (`Unended`), the first claimed line is written into it. What then
stands there begins with a set and is a work line for the next reader, `Garbled`; the
claimed set has no line of its own. A stream writes `FlushLines` lines at a time. That a
buffer really ends at a byte and not at a line makes no difference in the queue file,
which is spoiled by a crash between two writes in any case; in the done file a write
that is not the last may leave half a line (`doneHalf`), and the line that the next
process writes behind a dead one's is `Joined`. An empty file stands for no file as
well: `getWork` returns false for both, before or after it takes the lock. The clock is
in `Durations`: a run takes one of them.

`Crash` may strike between any two steps; file locks go with their process and the
process's memory is lost. `Restart` starts it anew. `CreateDoneFile` is the user: the
program only appends to a done file that is there. A crash between two `write()`
calls of one rewrite leaves a file in which lines are lost or doubled. `spoiled` records
that, and that a claimed line was written into one without an end; the properties
promise nothing of such a queue file, and `params_queue_unended` shows what the second
does without any crash. Half lines of the done file are not among the excuses:
`DoneFileIsExact` says that each crash leaves at most one, which spoils at most the line
behind it.

### DataTableSupport

A table is a record of column names and rows; a file is a sequence of characters, of
which a value takes `Width` many, so that writing over a file, behind its end, or with a
shorter text are what they are on disk. `Insert` is the whole of `DataTable::insert`
with the calls it makes to the writer, in the code's order: the column is announced
before the value is stored, with the row in the table or not yet: `coords` has
`row(key)` and `col(colName)` for the arguments of one call (DataTable.cpp:249), which
C++ evaluates in either order (`Announced`). Coordinates count from zero and the last
row's number wraps at `SizeRange`, as `numRows() - 1` does. `setFilename` is two
actions, for an idle and for a running engine. `expected` remembers what a file should
hold once a run has left it.

Table notes are left out: only `GeomOptimise.cpp:92-97` adds one, and never does,
since `myPotentialParams` is never set. So is the `append` option, which has no
effect: opening with `out | ate` and no `in` empties the file (DataTableWriter.cpp,
162-167).

### The barriers

`in` of every barrier reads only its argument until it takes the block's mutex, and
holds the mutex to the end: a call is one step, and the interleavings of several
threads are the orders of arrival, all of which are explored. `release` and `hasData`
take no lock; the engine calls them when no structure is on its way to the barrier.
Values are compared as fractions without dividing; the rounding of doubles is not
modelled. In `KeepWithinXPercent` the state `"undefined"` stands for whatever happens
once the eviction loop has read past the start of an order. `myKeepPercent` is any
fraction, the default of 5 included; N may be zero, which leaves orders that are empty.

In `Program` every barrier appears again, as one among other blocks. There a `Keep`
barrier lets through at once what has no enthalpy (`LetThrough`), as `in` does on lines
50-54 of KeepTopN.cpp and 53-57 of KeepWithinXPercent.cpp; of anything else it, like
`RemoveDuplicates`, may give up any of what it holds when a structure comes in. Between
them that includes what the modules of their own say the barriers do.
`KeepStableCompositions` is complete: `hasData` makes the hull, if what is held has two
species, and keeps it, `in` takes it away, `release` judges by it and leaves it. The hull
itself is CGAL's, and finds any subset of the structures with an energy stable.

### Sweep

`pc` says which of the nested loops the program is in: `RunPotentialParamsQueue`'s
over its chunk (`NextParams`, `EndParams`), `SearchStoichiometries`' over the
stoichiometries (`SkipStoich`, `RunStoich`, `EndRun`), or the innermost pipe
(`Generate`, `Optimise`, `Save`, `Finish`, for several structures in any order). What
ties them together is data: the parameters under a tag of `GlobalData`, the settings
for generation, the working directory each loop puts into the shared data of the
engine it runs, and the parameters that the optimiser's potential holds. `held` keeps
those, since a set that is refused leaves the old one in place (GeomOptimise.cpp:85).
Structures that finish in a pipe go to the buffer of the block that runs it (`found`,
`buffer`), are entered into its table and sent on. `EngineData` computes paths by the
code's rules, working directories relative and absolute, so that what a row names
can be compared with where the structure was saved.

`ResetOrNot` leaves open whether an engine makes its shared data anew after a run:
that is pipelib's, and the properties hold either way. How the queue is shared between
processes is left to `ParamsQueue`; here one process has a chunk in hand.

### PipeBuild and Program

A document is a record of entries, run line and engine map; sub-pipelines are
documents of smaller numbers. `Loaded` is `BlockLoader::load`, `Connected` the look-up
by name, `Pipe` and `SubPipe` the two ways a run line is read: `buildPipe` splits at
bars alone, `BlockLoaderType` at bars and blanks. A handle is what `createBlock` sets
and a result what it returns; `Creator` keeps the first and ignores the second, as
BlockLoader does. `Settings` is what `createBlock` makes of the options: all of them but
two. The `failAction` of `separateAtoms` is handed to no block (BlockFactory.cpp,
232-242), and `setWriteMulti` stores true whatever it is given (WriteStructures.cpp,
47-51). An optimiser's part says whether SSLib gives it no potential, a fixed one or one
with parameters. A multithreaded engine is there only if it was built in (`WithThreads`).

`Program` starts with the steps of `main` (`pc` from "args" to "engine"), any of which
may fail and end the program. The engine then tells the blocks, one after another, of
the phases (`Initialising`, `Initialised`, `Starting`), and runs: `Start` sends
structures, each is taken from block to block on its own (an action for each type of
block), a barrier holds it, and `Finish` is the end of the pipe. When nothing moves
the engine may ask a barrier for data (`Ask`) and has it release (`Release`); `EndRun`
comes when the start block is through and no barrier has data. An entry of
`structures` has the structure's data, where it is, the block it is at and its line:
itself and what it was cloned from. A member of the options that nothing has set is
`Garbage`, and any number in `GarbageTimes` when it is used.

Of an atom the model keeps its species, whether it lies in the shape of the pipe's
`CutAndPaste` blocks (there is one shape in a pipe), whether it has ever been cut out,
and how it came to be where it is: "home" where it was built or read, "random" in the
shape, "placed" by a separator, "moved" by `AutoScale` or `Rescale` along with the cell or
by `GeomOptimise`, which relaxes positions. Each of these may carry it into the shape or
out of it. The species database is nothing or what the last optimiser with a potential
put there; `Known` are the species it has distances for. `AutoScale` adds up the volumes
of the atoms that are known: the sum is zero without a database and for a structure
without such an atom, such as one whose atoms have all been cut out and not put back,
and the cell is then `flat`.

A block that sweeps sends at most `SweepYield` structures here; what it does to get
them is `Sweep`.

**What is taken from pipelib**, whose source is not in the repository: a phase is told
to every block before the next one begins; a barrier is asked only when nothing moves,
in any order, before or after the start block is through, and until none has data; a
structure given to nobody is freed at the end of the run; a sink is called by one
thread at a time. No run line names a block twice (`DocumentAssumption`), and the
block a document starts with is one that can start a pipe.

## What the runs check

| Run | Instance | Shows |
|---|---|---|
| `work_chunk_loop` | means 1 to 7, targets 0 to 6, a first chunk of 9, every sequence of calls | the loop ends, computes `NextChunk`, and fills the target time and no more, but for an item after a chunk that fills it exactly |
| `params_queue` | 2 processes, 3 sets, a file of 4 lines with and without a last newline, one line a write, 2 crashes | short of a spoiled queue file `OneOwner`, `FileKeepsEveryLine`, `ClaimedInOrder`, `NothingLost`, and `DoneFileIsExact` with half lines in the done file; the refinement of `WorkPool`; `RunIsRecorded`, `AllFinish`, `SurvivorsDrainQueue` |
| `params_queue_unended` | the same without crashes | `RestIsWrittenOut` fails |
| `data_table` | 2 keys, 2 columns, values of one and two characters, 2 files, 2 runs, a write after more than one changed character; `SteadySpec` | `FileIsWrittenPart`, `FinalFileIsTable` |
| `data_table_shrink` | the same with one run, in which values may get shorter; `Spec` | `FinalFileIsTable` fails |
| `keep_top_n` | 7 structures, N of 2, one composition in two cell sizes, ties, one without the property | `HeldIsTopN`, `EachGoesOneWay`, `HeldIsReleased` |
| `keep_within_x_percent` | 8 structures, a fraction of one half, values on, above and below the cutoff and above zero | `HeldIsWithinCutoff`, `EachGoesOneWay`, `UndefinedOnlyAboveZero` |
| `keep_within_above_zero` | the same | `EvictionEnds` fails |
| `remove_duplicates` | 6 structures, four in a chain of similarity | `KeepsOneOfEach`, `CountsAddUp`, nothing held from a run that is over |
| `sweep` | 6 input files, 2 species of 0 or 1 atoms, at most one in all; queues of one set or two, one of them refused | `MarkedAsUsed`, `RowsTellTheTruth`, `SweepIsComplete`, `SavedIsSentOnce`, `QueueIsRun` |
| `sweep_current_dir` | a sweep without a directory of its own | `KeysAreNotEmpty` fails |
| `program` | 23 documents that have every block between them, up to 4 structures | `BarriersKeepBooks`, `SavedIsThere`, `UntouchedStay`, `DatabaseIsReady`, `FlatForWantOfAtoms`, `RunsWhatIsWritten`; the refinement of `StructureFlow` |

**Bounds.** Two processes are enough for every pair of interleaved sections, and three
sets with a first chunk of two make one process take a full chunk, another a partial
one, and either come back; a target time of 3 and durations of 1 and 4 make chunks grow
and shrink. A line that is no work is in the file from the start, and others become such
by being claimed. With one line a write (`FlushLines`) every rewrite and every list but
a list of one takes several. Two crashes let both processes die, or one die twice. In
the table, two rows and two columns are the least with a row before the last one, a row
shorter than the table and a cell to the left of the last; a delay of one character
makes some inserts write and others not. `MaxRuns` is 2, so that one writer replaces
another. Rows, columns and files are interchangeable there, and TLC uses the symmetry;
no liveness is checked with it. The barriers see every order of arrival of their
structures. In `sweep` two of the four stoichiometries are run and two skipped, one for
each reason; the six input files have a set taken before one that is refused and the
other way round, each with and without directories, a potential with and without
parameters of its own, both actions on failure, and two structures in one run. In
`program` the input documents are numbers 4 to 26 of `MCDocument`; the first three are
sub-pipelines. Twelve of the 23 have a pipe of interest: the optimiser first, last or
absent, with a potential that is fixed, has parameters or is none, barriers one behind
the other, clones with and without names, atoms cut out before the cell is scaled,
options that no block is told of, two blocks of one name, numbers that nothing has set.
The others are wrong each in a way of its own, save one that asks for two engines. Two
structures that come in are enough for one to overtake another and to be cloned into
four.

**Assumptions of `data_table`.** A writer keeps its file in step in the runs of
`SteadySpec`, which restricts `Next` in two ways. `FreshFile` keeps two runs in a row
off one file. The file's name holds the instance name of the run's shared data
(PipeFunctions.cpp, 22-33; SharedData.cpp, 22-25), which is generated. Were the file the
same, the old writer would put its last newline into the file that the new one has just
emptied (DataTableSupport.cpp:111). `NothingShrinks` says that no cell is given a value
with fewer characters while a pipeline runs. The code does not see to it: without it the
table is wrong on disk, which is what `data_table_shrink` shows.

**Fairness.** `ParamsQueue` assumes that a live process keeps being scheduled (weak
fairness of its `Step`) and nothing of the user, of crashes or of restarts. A process
waiting for a lock is not promised the lock while others take it; every process
finishes all the same, since each claim takes lines off a finite queue. `WorkChunkLoop`
assumes that a function goes on once it is called, `KeepTopN` that the engine
releases a barrier that has data. `Sweep` and `Program` assume that a program that
runs goes on (weak fairness of `Next`): each is one process in which nothing waits for
anybody, and no choice between actions is promised to be fair.

**Deadlock** is not checked where the system comes to a rest: all processes finished,
all structures through, the support destroyed, the sweep at its end.

## What disagrees

- `data_table_shrink`: "Write out the final state of the data table"
  (DataTableSupport.cpp:91), but `writeFull` does not truncate the file it writes
  over, and what is left of a longer text stays behind the table.
- `params_queue_unended`: "Write out the whole new contents", "First the rest of the
  file", "Then the part of the queue that we're running"
  (RunPotentialParamsQueue.cpp:198-203), but the rest is copied as it is (190-192): if the
  user's file has no newline at its end, the first claimed line is written into its last
  line. The set there is garbled, and is run so by whoever takes it next; the claimed set
  stands on no line of its own. No crash is needed.
- `keep_within_above_zero`: "Go from the end erasing all entries greater than the new
  cutoff" (KeepWithinXPercent.cpp:130), but with a lowest value above zero the cutoff
  lies below it, and the loop erases everything and reads `rbegin` of an empty order.
- `sweep_current_dir`: "use '.' as the current directory if the path is empty"
  (SearchStoichiometries.cpp:118) holds for the atoms of a row; the structures are
  entered under the path itself (line 124), an empty key, which `DataTable.cpp:213`
  asserts against.

Met on the way and not run: the option of `KeepWithinXPercent`, called percent, has 5
for its default (YamlSchema.h:149), while `getCutoff` (KeepWithinXPercent.cpp:148) takes
it for a fraction, as the example does which sets it to 0.03 (AB.yaml:47). With the default
the cutoff of a lowest value below zero is above zero and rises as that value falls, so
that nearly everything is kept, and what was dropped early may lie within it later.
`HeldIsWithinCutoff` says of a fraction of one and above only that nothing outside the
cutoff is held.

Met on the way, without a sentence of the repository to set them against:
`createBlock` of `KeepWithinXPercent`, which returns false for a block it has made
(BlockFactory.cpp:150) and does no harm, as `RunsWhatIsWritten` shows, because the
loader looks at the handle alone; the two options that no block is told of, which
`RunsWhatIsWritten` leaves out by name (`NotHeeded`); a chunk one item longer than it need
be after one that fills the target exactly, since the search starts behind it
(RunPotentialParamsQueue.cpp:263); the number of atoms of a sweep, which no input document
can set (SearchStoichiometries.h:53); cells that `AutoScale` scales to nothing, which
`FlatForWantOfAtoms` confines to structures without known atoms and pipes without a
potential; the column "lowest", which names the structure that finished last.

**What the properties leave out.** `MarkedAsUsed` is about the mark a structure bears: a
set that the potential refuses is noted as done all the same (line 138), and what was
optimised with the set before lies in its directory. `QueueIsRun` says that each set has
had its turn, no more. `RowsTellTheTruth` compares the atoms and the parameters of a row
with those of the file its path names, and not the cells of energy and space group, which
may come from another structure of the row; without separate directories all
stoichiometries share one row, of which nothing is said. `SavedIsThere` is about pipes
whose clones are given names: those that keep theirs do overwrite one another.

## What is proved

`ParamsQueueProofs`, for any number of processes, any finite or infinite set of
parameter sets, any queue file in which no set stands twice, with a newline at its end or
not, any chunk size, buffer size and number of crashes:

- `TypeCorrect`, `Spec => []TypeOK`. The inductive invariant is `TypeInv`: the types
  and, for each `pc`, what the process knows there (`PhaseInv`: a reader has not read
  past the end, a writer's new contents are as long as the file, the lock is held
  exactly in the phases that need it, a process that sizes its chunk has run
  something). Without it `queue[pos + 1]` and the mean duration have no value.
- `OneOwnerAlways`, `Spec => []OneOwner`. `OneOwner` speaks of what
  is owned and what waits, and is not inductive: it says nothing of what `getWork` has
  read and not yet written. `OwnerInv` says that, short of a spoiled file, the processes
  hold different sets, none of them run before; until a rewrite has begun, every work
  line of the file is a set not run and at most being claimed; what a reader holds or
  keeps comes from the lines it has read; and the contents about to be written name no
  set twice and offer none that somebody holds. The proof has a lemma for each action
  that moves a set from one place to another, and one for a crash.
- `LoopIsNextChunkAlways` and `ChunkAlwaysFillsTarget`, `LoopSpec => []ChunkFillsTarget`,
  about `WorkChunkLoop`: for any means and any target the loop of `updateWorkChunkSize`
  stops at `NextChunk`, the one step `ParamsQueue` makes of it. `LoopInv` says that no
  number of items from where the search starts to the counter fills the target. The
  search starts behind the chunk before; one item too many, if that fills the target
  exactly, is the exception that `ChunkFillsTarget` names. `NextChunkFillsTarget` is the
  arithmetic that makes the chunk size useful as well as positive. That the loop stops
  at all is liveness and stays with TLC.

Three more invariants build on it, with what those before do not say, and with them
every invariant that the run `params_queue` checks is a theorem:

- `DoneFileAlways`, `Spec => []DoneFileIsExact`. `DoneInv` adds that what a process
  keeps for the done file it has run, keeps once and keeps alone, that what is in the
  file and what has yet to be written there have nothing in common, also between two
  writes of one list, and that half lines whose writer is dead and lines spoiled by one
  are no more than the crashes. It uses `OwnerInv` where a set is run: one that is held
  has been run by nobody, so that it is in no record yet.
- `ListInv` follows the lines from the file through the memory of a process and back.
  Until a rewrite has begun the file names every set; what has been read of it is
  claimed or kept; what will be written over it names every set again and offers the
  work of the file less the claims, as long as the file is not spoiled, which a rewrite
  that runs into a line without an end makes it. From it follow
  `FileAlwaysKeepsEveryLine`; `ImplementsPool`, `Spec => ImplementsWorkPool`, where the
  last write of a rewrite is the claim of all that was read, a set that is run is run,
  each write to the done file records the lines it brought to their end, but for one
  behind a half line, a crash loses what its process had claimed or not recorded, and
  every other step changes nothing `WorkPool` sees; and `NothingEverLost`, which needs
  that a claim, a run and a record only move sets.
- `AlwaysClaimedInOrder`: `OrderInv` says that the work lines
  ascend, in the file and in what will be written over it, and that the claims of a
  rewrite come before all the work it leaves.

They use that the user's file names each set of `Params` (`ListingAssumption`), that no
set stands twice and that the sets ascend, being numbered by their place
(`QueueAssumption`).

`KeepBarrierProofs` has what the two `Keep` barriers share: values per atom are in a
weak order (by cross-multiplication), the structures of a batch in a strict one by
value and time of arrival (`Beats`), and `Inserted` keeps an order that of its batch.
On it rests `KeepProofs`, for any structures, any values and every order of arrival:

- `KeepTopN`, for any N, zero included: `TopNTypeAlways`, by which an order is empty if and
  only if N is zero, `TopNOneWayAlways` and `TopNAlways`,
  `TopNSpec => []HeldIsTopN`. The inductive invariant says of a structure of the batch that
  is not in its order that it was dropped and that the order is full of structures that
  beat it. `HeldIsTopN` counts rivals and does not say who they are; the invariant
  names them, and they are only ever replaced by better ones.
- `KeepWithinXPercent`, for any fraction: `WithinTypeAlways`, `WithinOneWayAlways`,
  `WithinCutoffAlways`, `WithinSpec => []HeldIsWithinCutoff`, and `DefinedUpToZero`. The
  invariant says of each order that the first structure beats all of the composition,
  that the others are inside its cutoff and, for a fraction below one, that all who are
  not there are outside; `Cutoffs` shows that what was outside is above the cutoff of any
  lower lowest. With a fraction of one the cutoff stays at zero, and what lies on it
  would be held or not by the lowest at the time; above one it rises.

`RemoveDuplicatesProofs`, for any structures and any symmetric comparator:
`TypeCorrect`, `OneOfEachAlways` and `CountsAlways`, `Spec => []CountsAddUp`.
`KeepsOneOfEach` is inductive over the types; the symmetry of the comparator is used
once, where a structure joins the set. The counters add up because a structure that
comes in adds one to the sum, whether it joins the set or raises a counter; that a sum
over a finite set changes by what one of its terms does is `SumProofs`.

`SumProofs` does induction over data, over finite sets and over numbers. Theorems of
the library that take an operator as a parameter cannot be used, but the set of what is
good can be a parameter (`SubsetInduction`, `NumberInduction`), and a least
counterexample is had from a well-founded order. By it the recursive function behind
`MapThenSumSet` exists (`SumsExists`), does not depend on which element is taken first,
and is bounded by its terms.

`SweepProofs`, for any ranges of atoms, any input files, any set of parameter sets that
are refused, any number of structures in a run and any order in which they finish; every
invariant of the run is a theorem:

- `TypeAlways`, from `ControlInv`: which of the nested loops is where, which buffers are
  empty when, which working directory each engine has, that the set that
  is worked on is the one under its tag of `GlobalData`.
- `SentOnceAlways`, `Spec => []SavedIsSentOnce`. `NameInv` follows the names: those in
  the pipe, in the two buffers and among the structures sent are different and were all
  drawn from the generator, and a line on the disk belongs to one that is past the
  writer.
- `MarkedAlways`, `Spec => []MarkedAsUsed`. The potential keeps its old parameters when
  it refuses a set, so that what a structure is optimised with is not what the sweep
  last set. `ParamInv` says what each has been marked with between the stages, and that
  a pipe with a potential to fit is only entered, and its structures only buffered,
  while what is held is what is set.
- `RowsAlwaysTrue`, `Spec => []RowsTellTheTruth`. `PlaceInv` says that a structure lies
  on the disk under the directory of its run as it is in memory; `RowInv` that the rows
  of the inner table belong to the stoichiometries that have been run, that of each path
  a row names there is a file of that row's atoms, and that no row of the outer table has
  the key of the directory at work. It is lemmas about joining, prefixes and absolute
  paths that most of the proof consists of.
- `SweepAlwaysComplete`, `Spec => []SweepIsComplete`: the stoichiometries that have
  their row are those with at least one atom and no more than the limit. The wanted ones
  are finitely many (`WantedIsFinite`, by induction over the species), which is why
  counting rows is enough.

They use `SweepAssumption`, which names what there is, and `SettingsAssumption`: the
ranges are set, and a line that is read from the queue is not empty, since one that is
goes unread (RunPotentialParamsQueue.cpp, 170-183).

`ProgramProofs`, for any documents, blocks, failures and number of structures:

- `BooksAlways`, `Spec => []BarriersKeepBooks`: a barrier's store is what was sent to it
  and has not left it, a hull kept for release was made of the whole store, and a barrier
  about to release without one has not two species to make it of. It is
  not inductive: what a block keeps has to be a record of that kind at all (`OwnOK`),
  the list of structures a list of structures (`StructuresOK`), the phase one in which
  there is a pipe, and the pipe that of the document (`PhaseOK`), and a barrier that had
  no data has to be empty still when the run ends, which sets back only two kinds of
  them (`IdleOK`). `Inv` is
  their conjunction. The proof has a lemma for each kind of step, and beneath them
  lemmas about lists of structures of which some are passed on, put somewhere or added.
- `FlowAlways`: every step of `Program` is a step of `StructureFlow` or changes none of
  its variables. TLC checks it for four structures and proves nothing about more;
  the theorem has the natural numbers for names and no bound. It is the safety part
  of the refinement: no structure is lost between blocks or ends twice, those that a
  `Keep` barrier lets through included.
- `DatabaseAlwaysReady`, `Spec => []DatabaseIsReady`, for pipes with an optimiser that has
  a potential. `EngineOK` follows the phases
  block by block: that the pipe is there from the engine on (`PipeOK`), that the species
  database is filled once the first phase has come to the optimiser and copied by the
  separators the second phase has come to (`DatabaseOK`), that what is read is what
  was found, or nothing (`ReadOK`). `BuiltOK` adds what a structure was built with. It
  is because every block is told of one phase before any is told of the next that a
  separator may stand before the optimiser.
- `FlatAlways`, `Spec => FlatForWantOfAtoms`: in such a pipe a step that scales a cell to
  nothing is `AutoScale`'s, or `Rescale`'s, of a structure without an atom that is known.
  It rests on the database being there when structures move.
- `SavedAlwaysThere`, `Spec => []SavedIsThere`. That a file was not overwritten by
  another structure depends on names, and names change: `NamesOK` says that each
  structure has a name of its own which has been given out, and that the name a
  structure was saved under is its own or, after a clone block has renamed it, nobody's.
  `LinesOK`, that a structure is in its own line, is needed where it is written again.
- `RunsWhatIsWrittenAlways`, `Spec => []RunsWhatIsWritten`, for documents of any length,
  with pipes within pipes to any depth. What is loaded is a fold over the entries; it is
  unfolded entry by entry (`LoadsNext`), and by induction over them `LoadedAre` shows
  that a name goes to the last entry that bears it and makes a block. `SubPipeIs` and
  `SoundStep` show by induction over the documents that the two recursive functions
  exist, the pipes and, on the side of the property, the documents that can be run;
  `SoundIs`, that the second are those whose pipe the first has. `TurnedDownOK` carries
  that to the end of the run.
- `UntouchedAlwaysStay`, `Spec => []UntouchedStay`: an atom that was never cut out is at
  home, or was moved with its cell or by an optimiser, in pipes whose `CutAndPaste`
  blocks fix what they do not touch and that have no `separateAtoms`, which fixes
  nothing. `AtomsOK` says it of atoms that are atoms, wherever the shape finds them.
  CutAndPaste fixes atoms by their index in the new list; `ChosenAre` and `CutAre` show
  that those behind the fixed ones are all from inside the shape. Which atoms are chosen
  is a recursive function, had by induction (`ChoosesExists`).

`DatabaseIsReady`, `FlatForWantOfAtoms`, `SavedIsThere` and `UntouchedStay` have
`InputAssumption`: structures and fragments that are read have their atoms at home, names
that are read are none that the program generates, the potential has parameters; and
`PipeShape`, on which they rest, has `DocumentAssumption`. `RunsWhatIsWritten` has
`OptionsAssumption` besides, that an option which is given is one of its block's schema, and
`UnsetAssumption`, that the value which stands for no pipe is no pipe and no block.
`SavedIsThere` speaks of pipes whose clone blocks give unique names and of input files
no two of which have one name; without the second the writer puts one structure
over the other.

`DataTableProofs`, for any keys, of which there are fewer than a `size_t` counts, any
columns, values, widths and files, and any delay:

- `WrittenPartOfTable`, `SteadySpec => []FileIsWrittenPart`, and `FinalFileHoldsTable`,
  `SteadySpec => []FinalFileIsTable`. Neither is inductive. `WriterKeeps` says of a
  running writer that its stream stands at the end of its file (`Kept`), that the file
  is not longer than the text of the table, which is what makes a write over it leave
  nothing behind, and that a writer that may append stands behind a cell of the table
  with exactly what is before it in its file; of a finished one, that its file holds
  what it should and nothing is put there but a newline at its end. The texts are folds
  over rows and words. They are unfolded from the end (`FlattenAppend`), from which it
  follows, by induction over the lists, that lists of texts may be concatenated
  (`FlattenConcat`), that wider words make longer texts (`FlattenLonger`) and that the
  text of a table is that of the part written and what `writeFrom` writes next
  (`TableSplit`). Then each change of a table leaves alone what is before the writer's
  place, or the writer notes that it has to write everything: a row added
  (`GrownFollows`), a column (`ColumnKeeps`), a value (`StoredFollows`, where `Before` is
  what `onDataTableValueChanged` asks). `RowsCounted` is where keys are counted: no two
  rows have one, so that `numRows() - 1` wraps for an empty table alone.
- `TableTypeAlways`, `Spec => [](TypeOK /\ TypeInv)`, in every run and not just those
  of `SteadySpec`: `TypeInv` adds to the types that no two rows have one key and that a
  writer which is going to append stands in the table.

`FreshFile` and `NothingShrinks` are conditions of the first two and discussed above:
the first follows from generated names; the second the code does not see to, and
`data_table_shrink` shows that the theorem needs it.

Proofs rest on the named assumptions of the modules and on nothing else.

Only model-checked: every liveness property, the one inside `StructureFlow!Spec`
included; fairness and `ENABLED` are out of the prover's reach.

## Not modelled

- pipelib, SSLib, schemer, yaml-cpp, CGAL and Boost are not in the repository. What is
  taken from them is said above and in the comments of the modules.
- What a structure is made of beyond what properties tell apart: cells, energies as
  numbers (the `Keep` barriers have them), the geometry of atoms.
- The parsers of parameter ranges in `CommonData` and `UtilityFunctions` and the
  objects of `SharedData` that have a key: nothing in the program calls them.
- `EdgeDetect`, which includes headers that are no more; `TableWriter` and `StructureData`,
  which are empty or unused; `DataTable::writeToFile`, which is not called.
- `YamlKeywords`, a list of names, and formatted output: logging, the hull's plot, the
  summary of `GeomOptimise`.
- Failures of the file system below a table or the queue file, and the draws of random
  numbers and generated names, which are taken to be unique.

## What is left

1. Writes of a table that fail, with the flags they leave behind.
2. `Sweep` in a process of `ParamsQueue`, in place of its one step for a run.
