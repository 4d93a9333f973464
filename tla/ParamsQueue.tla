----------------------------- MODULE ParamsQueue -----------------------------
(***************************************************************************)
(* RunPotentialParamsQueue: several StructurePipe processes share one      *)
(* queue file of potential parameter sets, and one file of the sets that   *)
(* are done.  A process locks the queue file, claims a chunk of lines by   *)
(* rewriting the file in place with those lines commented out at the end,  *)
(* runs the sub-pipeline once for each set, appends the sets to the done   *)
(* file and sizes its next chunk.  A process may die between any two       *)
(* system calls; the operating system then drops its file locks.           *)
(*                                                                         *)
(* A file is a sequence of lines, of which the last need not have an end:  *)
(* the user may have left none in the queue file, and a process that dies  *)
(* leaves part of a line in the done file.  What is written behind such a  *)
(* line runs into it.  What the sub-pipeline computes for a parameter set  *)
(* is not modelled here, only that it ran and for how long.                *)
(***************************************************************************)
EXTENDS WorkChunk, Sequences, FiniteSets, Functions

CONSTANTS
  Worker,         \* the processes (the pid written into a claimed line)
  Params,         \* the parameter sets, numbered as they stand in the file
  InitialQueues,  \* the queue files the user may start from
  InitialChunk,   \* INITIAL_NUM_WORK_ITEMS
  TargetTime,     \* Settings::targetChunkTime
  Durations,      \* how long one run of the sub-pipeline may take
  FlushLines,     \* lines that fit in a stream's buffer: one write() each time
  MaxCrashes,     \* bound on the number of crashes
  NoWorker,       \* no pid: a line not claimed, a lock not held
  NoParams,       \* the text of a comment line or of a blank line
  Garbled,        \* the text of a set that a claimed line has run into
  Joined          \* a line of the done file that starts with part of another

(* What getWork takes for a parameter set: readParams refuses nothing. *)
Text == Params \cup {Garbled}

Line == [params : Text \cup {NoParams}, by : Worker \cup {NoWorker}]

(* A line getWork takes: neither blank nor starting with '#'. *)
IsWork(line) == line.params # NoParams /\ line.by = NoWorker

(* No parameter set stands on two lines. *)
Distinct(lines) ==
  \A j, k \in DOMAIN lines :
    (lines[j].params = lines[k].params /\ lines[j].params # NoParams) => j = k

ASSUME WorkerAssumption == NoWorker \notin Worker
ASSUME ParamsAssumption ==
  Params \subseteq Nat /\ NoParams \notin Text /\ Joined \notin Text
ASSUME QueueAssumption ==
  \A q \in InitialQueues :
    /\ q \in Seq(Line)
    /\ Distinct(q)
    /\ \A k \in DOMAIN q : q[k].by = NoWorker /\ q[k].params \in Params \cup {NoParams}
    /\ \A j, k \in DOMAIN q :
         (j < k /\ IsWork(q[j]) /\ IsWork(q[k])) => q[j].params < q[k].params
(* Params are the sets the user's file names, and no others. *)
ASSUME ListingAssumption ==
  \A q \in InitialQueues : Params \subseteq {q[k].params : k \in DOMAIN q}
ASSUME ChunkAssumption == InitialChunk \in Nat \ {0} /\ TargetTime \in Nat
ASSUME DurationAssumption == Durations \subseteq Nat \ {0}
ASSUME FlushAssumption == FlushLines \in Nat \ {0}
ASSUME CrashAssumption == MaxCrashes \in Nat

VARIABLES
  queue,        \* the queue file; <<>> also stands for no file
  ended,        \* whether its last line ends in a newline
  queueLock,    \* who holds the file_lock on it
  done,         \* the done file, as far as its lines have an end
  doneHalf,     \* whether part of a line follows them
  doneExists,   \* whether there is one: the user creates it
  doneLock,     \* who holds the file_lock on it
  pc,           \* what each process is about to do
  pos,          \* lines of the queue file getWork has read
  kept,         \* originalContents: the lines to leave in the queue
  flushed,      \* lines written so far of the file being written
  paramsQueue,  \* myParamsQueue
  doneParams,   \* myDoneParams
  chunk,        \* myNumWorkItemsChunk
  items,        \* myWorkItemsTiming: number of runs
  busy,         \* myWorkItemsTiming: their total time
  runs,         \* history: times each parameter set has been run
  spoiled,      \* history: a rewrite of the queue file was interrupted by a
                \* crash, or wrote a claimed line behind one without an end
  crashes       \* number of crashes so far

files == <<queue, ended, queueLock, done, doneHalf, doneExists, doneLock>>
timing == <<chunk, items, busy>>
history == <<runs, spoiled, crashes>>
vars == <<queue, ended, queueLock, done, doneHalf, doneExists, doneLock, pc, pos,
          kept, flushed, paramsQueue, doneParams, chunk, items, busy, runs,
          spoiled, crashes>>

------------------------------------------------------------------------------
(* The lines a claimed chunk becomes. *)
Claimed(w) ==
  [k \in DOMAIN paramsQueue[w] |-> [params |-> paramsQueue[w][k], by |-> w]]

(* getWork copies what it has not read as it is: the end its last line lacks is
   not added, as it is to the lines that were read. *)
Unended(w) == ~ended /\ pos[w] < Len(queue)

(* A line without an end, with a claimed one behind it. *)
Glued(line) == IF IsWork(line) THEN [line EXCEPT !.params = Garbled] ELSE line

GlueLast(lines) == [lines EXCEPT ![Len(lines)] = Glued(@)]

(* The whole file getWork writes back: the lines kept, then those it claimed. *)
NewContents(w) ==
  IF Unended(w)
  THEN GlueLast(kept[w]) \o Tail(Claimed(w))
  ELSE kept[w] \o Claimed(w)

(* A stream writes FlushLines lines of the file at a time, the rest on close. *)
NextFlush(written, length) ==
  IF written + FlushLines < length THEN written + FlushLines ELSE length

Init ==
  /\ queue \in InitialQueues
  /\ ended \in BOOLEAN
  /\ queueLock = NoWorker
  /\ done = <<>>
  /\ doneHalf = FALSE
  /\ doneExists \in BOOLEAN
  /\ doneLock = NoWorker
  /\ pc = [w \in Worker |-> "getWork"]
  /\ pos = [w \in Worker |-> 0]
  /\ kept = [w \in Worker |-> <<>>]
  /\ flushed = [w \in Worker |-> 0]
  /\ paramsQueue = [w \in Worker |-> <<>>]
  /\ doneParams = [w \in Worker |-> <<>>]
  /\ chunk = [w \in Worker |-> InitialChunk]
  /\ items = [w \in Worker |-> 0]
  /\ busy = [w \in Worker |-> 0]
  /\ runs = [p \in Text |-> 0]
  /\ spoiled = FALSE
  /\ crashes = 0

------------------------------------------------------------------------------
(* getWork *)

(* Mutant of LockQueue: the file_lock is not waited for. *)
LockQueueAnyway(w) ==
  /\ pc[w] = "getWork"
  /\ queueLock' = w
  /\ pos' = [pos EXCEPT ![w] = 0]
  /\ kept' = [kept EXCEPT ![w] = <<>>]
  /\ pc' = [pc EXCEPT ![w] = "reading"]
  /\ UNCHANGED <<queue, ended, done, doneHalf, doneExists, doneLock, flushed,
                 paramsQueue, doneParams, timing, history>>

LockQueue(w) ==
  /\ pc[w] = "getWork"
  /\ queueLock = NoWorker
  /\ queueLock' = w
  /\ pos' = [pos EXCEPT ![w] = 0]
  /\ kept' = [kept EXCEPT ![w] = <<>>]
  /\ pc' = [pc EXCEPT ![w] = "reading"]
  /\ UNCHANGED <<queue, ended, done, doneHalf, doneExists, doneLock, flushed,
                 paramsQueue, doneParams, timing, history>>

(* while(numParamsRead < myNumWorkItemsChunk) and getline succeeds *)
CanRead(w) == pos[w] < Len(queue) /\ Len(paramsQueue[w]) < chunk[w]

(* Mutant of ReadWork: a line that starts with '#' is taken like any other. *)
ReadWorkUnchecked(w) ==
  /\ pc[w] = "reading"
  /\ CanRead(w)
  /\ paramsQueue' = [paramsQueue EXCEPT ![w] = Append(@, queue[pos[w] + 1].params)]
  /\ pos' = [pos EXCEPT ![w] = @ + 1]
  /\ UNCHANGED <<files, pc, kept, flushed, doneParams, timing, history>>

ReadWork(w) ==
  /\ pc[w] = "reading"
  /\ CanRead(w)
  /\ IsWork(queue[pos[w] + 1])
  /\ paramsQueue' = [paramsQueue EXCEPT ![w] = Append(@, queue[pos[w] + 1].params)]
  /\ pos' = [pos EXCEPT ![w] = @ + 1]
  /\ UNCHANGED <<files, pc, kept, flushed, doneParams, timing, history>>

(* Mutant of ReadOther: readParams may refuse a line, which is then left. *)
ReadOtherOrRefused(w) ==
  /\ pc[w] = "reading"
  /\ CanRead(w)
  /\ kept' = [kept EXCEPT ![w] = Append(@, queue[pos[w] + 1])]
  /\ pos' = [pos EXCEPT ![w] = @ + 1]
  /\ UNCHANGED <<files, pc, flushed, paramsQueue, doneParams, timing, history>>

ReadOther(w) ==
  /\ pc[w] = "reading"
  /\ CanRead(w)
  /\ ~IsWork(queue[pos[w] + 1])
  /\ kept' = [kept EXCEPT ![w] = Append(@, queue[pos[w] + 1])]
  /\ pos' = [pos EXCEPT ![w] = @ + 1]
  /\ UNCHANGED <<files, pc, flushed, paramsQueue, doneParams, timing, history>>

(* Mutant of NoWorkLeft: the early return keeps the lock. *)
NoWorkLeftLocked(w) ==
  /\ pc[w] = "reading"
  /\ ~CanRead(w)
  /\ paramsQueue[w] = <<>>
  /\ pc' = [pc EXCEPT ![w] = "finished"]
  /\ UNCHANGED <<files, pos, kept, flushed, paramsQueue, doneParams, timing,
                 history>>

(* Nothing was read: getWork returns false, and so does start. *)
NoWorkLeft(w) ==
  /\ pc[w] = "reading"
  /\ ~CanRead(w)
  /\ paramsQueue[w] = <<>>
  /\ queueLock' = NoWorker
  /\ pc' = [pc EXCEPT ![w] = "finished"]
  /\ UNCHANGED <<queue, ended, done, doneHalf, doneExists, doneLock, pos, kept,
                 flushed, paramsQueue, doneParams, timing, history>>

(* Copy the rest of the file behind the lines kept and seek to its start. *)
StartRewrite(w) ==
  /\ pc[w] = "reading"
  /\ ~CanRead(w)
  /\ paramsQueue[w] # <<>>
  /\ kept' = [kept EXCEPT ![w] = @ \o SubSeq(queue, pos[w] + 1, Len(queue))]
  /\ flushed' = [flushed EXCEPT ![w] = 0]
  /\ pc' = [pc EXCEPT ![w] = "rewriting"]
  /\ spoiled' = (spoiled \/ Unended(w))
  /\ UNCHANGED <<files, pos, paramsQueue, doneParams, timing, runs, crashes>>

(* Mutant of FlushQueue: the lock is released before the file is closed. *)
FlushQueueUnlocked(w) ==
  LET text == NewContents(w)
      upto == NextFlush(flushed[w], Len(text))
  IN /\ pc[w] = "rewriting"
     /\ queue' = [k \in (IF upto = Len(text) THEN DOMAIN text ELSE DOMAIN queue) |->
                    IF k <= upto THEN text[k] ELSE queue[k]]
     /\ ended' = (ended \/ upto = Len(text))
     /\ flushed' = [flushed EXCEPT ![w] = upto]
     /\ queueLock' = NoWorker
     /\ pc' = IF upto = Len(text) THEN [pc EXCEPT ![w] = "work"] ELSE pc
     /\ UNCHANGED <<done, doneHalf, doneExists, doneLock, pos, kept,
                    paramsQueue, doneParams, timing, history>>

(* One write() of the new contents over the old; the last one is close, and
   then the lock goes with the scope. *)
FlushQueue(w) ==
  LET text == NewContents(w)
      upto == NextFlush(flushed[w], Len(text))
  IN /\ pc[w] = "rewriting"
     /\ queue' = [k \in (IF upto = Len(text) THEN DOMAIN text ELSE DOMAIN queue) |->
                    IF k <= upto THEN text[k] ELSE queue[k]]
     /\ ended' = (ended \/ upto = Len(text))
     /\ flushed' = [flushed EXCEPT ![w] = upto]
     /\ IF upto = Len(text)
        THEN /\ queueLock' = NoWorker
             /\ pc' = [pc EXCEPT ![w] = "work"]
        ELSE UNCHANGED <<queueLock, pc>>
     /\ UNCHANGED <<done, doneHalf, doneExists, doneLock, pos, kept,
                    paramsQueue, doneParams, timing, history>>

------------------------------------------------------------------------------
(* The body of start's inner loop: run the sub-pipeline on the front set. *)
RunItem(w, duration) ==
  /\ pc[w] = "work"
  /\ paramsQueue[w] # <<>>
  /\ doneParams' = [doneParams EXCEPT ![w] = Append(@, Head(paramsQueue[w]))]
  /\ paramsQueue' = [paramsQueue EXCEPT ![w] = Tail(@)]
  /\ items' = [items EXCEPT ![w] = @ + 1]
  /\ busy' = [busy EXCEPT ![w] = @ + duration]
  /\ runs' = [runs EXCEPT ![Head(paramsQueue[w])] = @ + 1]
  /\ UNCHANGED <<files, pc, pos, kept, flushed, chunk, spoiled, crashes>>

------------------------------------------------------------------------------
(* updateDoneParams *)

(* Mutant of NoDoneFile: myDoneParams is cleared although it was not written. *)
NoDoneFileForget(w) ==
  /\ pc[w] = "work"
  /\ paramsQueue[w] = <<>>
  /\ ~doneExists
  /\ doneParams' = [doneParams EXCEPT ![w] = <<>>]
  /\ pc' = [pc EXCEPT ![w] = "resize"]
  /\ UNCHANGED <<files, pos, kept, flushed, paramsQueue, timing, history>>

(* No done file: return at once and keep myDoneParams. *)
NoDoneFile(w) ==
  /\ pc[w] = "work"
  /\ paramsQueue[w] = <<>>
  /\ ~doneExists
  /\ pc' = [pc EXCEPT ![w] = "resize"]
  /\ UNCHANGED <<files, pos, kept, flushed, paramsQueue, doneParams, timing,
                 history>>

LockDone(w) ==
  /\ pc[w] = "work"
  /\ paramsQueue[w] = <<>>
  /\ doneExists
  /\ doneLock = NoWorker
  /\ doneLock' = w
  /\ flushed' = [flushed EXCEPT ![w] = 0]
  /\ pc' = [pc EXCEPT ![w] = "appending"]
  /\ UNCHANGED <<queue, ended, queueLock, done, doneHalf, doneExists, pos, kept,
                 paramsQueue, doneParams, timing, history>>

(* The lines that a write() brings to their end, of which the first may be behind
   part of a line that a process had begun before it died. *)
Appended(w, upto) ==
  LET lines == SubSeq(doneParams[w], flushed[w] + 1, upto)
  IN IF flushed[w] = 0 /\ doneHalf THEN <<Joined>> \o Tail(lines) ELSE lines

(* Mutant of FlushDone: myDoneParams is not cleared. *)
FlushDoneKeep(w) ==
  LET upto == NextFlush(flushed[w], Len(doneParams[w]))
  IN /\ pc[w] = "appending"
     /\ done' = done \o Appended(w, upto)
     /\ IF upto = Len(doneParams[w]) THEN doneHalf' = FALSE ELSE doneHalf' \in BOOLEAN
     /\ flushed' = [flushed EXCEPT ![w] = upto]
     /\ IF upto = Len(doneParams[w])
        THEN /\ doneLock' = NoWorker
             /\ pc' = [pc EXCEPT ![w] = "resize"]
        ELSE UNCHANGED <<doneLock, pc>>
     /\ UNCHANGED <<queue, ended, queueLock, doneExists, doneParams, pos, kept,
                    paramsQueue, timing, history>>

(* Mutant of FlushDone: what does not fit in the buffer is not written. *)
FlushDoneFirst(w) ==
  LET upto == NextFlush(flushed[w], Len(doneParams[w]))
  IN /\ pc[w] = "appending"
     /\ done' = done \o Appended(w, upto)
     /\ doneHalf' = FALSE
     /\ flushed' = [flushed EXCEPT ![w] = upto]
     /\ doneLock' = NoWorker
     /\ doneParams' = [doneParams EXCEPT ![w] = <<>>]
     /\ pc' = [pc EXCEPT ![w] = "resize"]
     /\ UNCHANGED <<queue, ended, queueLock, doneExists, pos, kept, paramsQueue,
                    timing, history>>

(* One write() at the end of the done file, which but for the last may stop in
   the middle of a line; then the lock is released and myDoneParams cleared. *)
FlushDone(w) ==
  LET upto == NextFlush(flushed[w], Len(doneParams[w]))
  IN /\ pc[w] = "appending"
     /\ done' = done \o Appended(w, upto)
     /\ IF upto = Len(doneParams[w]) THEN doneHalf' = FALSE ELSE doneHalf' \in BOOLEAN
     /\ flushed' = [flushed EXCEPT ![w] = upto]
     /\ IF upto = Len(doneParams[w])
        THEN /\ doneLock' = NoWorker
             /\ doneParams' = [doneParams EXCEPT ![w] = <<>>]
             /\ pc' = [pc EXCEPT ![w] = "resize"]
        ELSE UNCHANGED <<doneLock, doneParams, pc>>
     /\ UNCHANGED <<queue, ended, queueLock, doneExists, pos, kept, paramsQueue,
                    timing, history>>

(* updateWorkChunkSize, and back to the head of start's loop. *)
ResizeChunk(w) ==
  /\ pc[w] = "resize"
  /\ chunk' = [chunk EXCEPT ![w] =
                 NextChunk(MeanDuration(busy[w], items[w]), @, TargetTime)]
  /\ pc' = [pc EXCEPT ![w] = "getWork"]
  /\ UNCHANGED <<files, pos, kept, flushed, paramsQueue, doneParams, items,
                 busy, history>>

------------------------------------------------------------------------------
(* The environment *)

(* The program never creates the done file. *)
CreateDoneFile ==
  /\ ~doneExists
  /\ doneExists' = TRUE
  /\ UNCHANGED <<queue, ended, queueLock, done, doneHalf, doneLock, pc, pos,
                 kept, flushed, paramsQueue, doneParams, timing, history>>

(* Mutant of Release: a dead process keeps its locks. *)
ReleaseNever(lock, w) == lock

(* The operating system drops the locks of a process that has died. *)
Release(lock, w) == IF lock = w THEN NoWorker ELSE lock

(* The process dies: what it held in memory is gone, its locks are free, and
   a rewrite or a line it was in the middle of stays as it is. *)
Crash(w) ==
  /\ crashes < MaxCrashes
  /\ pc[w] \notin {"finished", "crashed"}
  /\ crashes' = crashes + 1
  /\ spoiled' = (spoiled \/ (pc[w] = "rewriting" /\ flushed[w] > 0))
  /\ queueLock' = Release(queueLock, w)
  /\ doneLock' = Release(doneLock, w)
  /\ pc' = [pc EXCEPT ![w] = "crashed"]
  /\ kept' = [kept EXCEPT ![w] = <<>>]
  /\ paramsQueue' = [paramsQueue EXCEPT ![w] = <<>>]
  /\ doneParams' = [doneParams EXCEPT ![w] = <<>>]
  /\ UNCHANGED <<queue, ended, done, doneHalf, doneExists, pos, flushed, timing,
                 runs>>

(* Start the program again, as a new process. *)
Restart(w) ==
  /\ pc[w] = "crashed"
  /\ chunk' = [chunk EXCEPT ![w] = InitialChunk]
  /\ items' = [items EXCEPT ![w] = 0]
  /\ busy' = [busy EXCEPT ![w] = 0]
  /\ pc' = [pc EXCEPT ![w] = "getWork"]
  /\ UNCHANGED <<files, pos, kept, flushed, paramsQueue, doneParams, history>>

------------------------------------------------------------------------------
Step(w) ==
  \/ LockQueue(w) \/ ReadWork(w) \/ ReadOther(w) \/ NoWorkLeft(w)
  \/ StartRewrite(w) \/ FlushQueue(w)
  \/ \E duration \in Durations : RunItem(w, duration)
  \/ NoDoneFile(w) \/ LockDone(w) \/ FlushDone(w)
  \/ ResizeChunk(w)

Next ==
  \/ \E w \in Worker : Step(w) \/ Crash(w) \/ Restart(w)
  \/ CreateDoneFile

Spec == Init /\ [][Next]_vars

(* A live process is scheduled; the user need not create the done file. *)
Fairness == \A w \in Worker : WF_vars(Step(w))

FairSpec == Spec /\ Fairness

------------------------------------------------------------------------------
(* The lines of the queue file; while a process rewrites it, the lines it is
   going to have. *)
Contents ==
  IF \E w \in Worker : pc[w] = "rewriting"
  THEN NewContents(CHOOSE w \in Worker : pc[w] = "rewriting")
  ELSE queue

Listed == {line.params : line \in Range(Contents)} \ {NoParams}

(* A claim takes effect when the rewrite that makes it is complete: until then
   the sets getWork has read are still waiting. *)
Owned(w) ==
  IF pc[w] \in {"reading", "rewriting"} THEN {} ELSE Range(paramsQueue[w])

Waiting ==
  {line.params : line \in {l \in Range(Contents) : IsWork(l)}}
    \cup UNION {Range(paramsQueue[w]) : w \in {v \in Worker : pc[v] = "rewriting"}}

(* The sets a process has run and not yet written to the done file. *)
Unrecorded(w) ==
  {doneParams[w][k] : k \in {j \in DOMAIN doneParams[w] :
                               pc[w] = "appending" => j > flushed[w]}}

(* A half line at the end of the done file whose writer is dead. *)
Fragment ==
  doneHalf /\ ~\E w \in Worker : pc[w] = "appending" /\ flushed[w] > 0

JoinedLines == {k \in DOMAIN done : done[k] = Joined}

(* The type of every variable: the queue file is a sequence of lines, each
   lock is held by at most one process, chunks hold at least one item. *)
TypeOK ==
  /\ queue \in Seq(Line)
  /\ ended \in BOOLEAN
  /\ queueLock \in Worker \cup {NoWorker}
  /\ done \in Seq(Text \cup {Joined})
  /\ doneHalf \in BOOLEAN
  /\ doneExists \in BOOLEAN
  /\ doneLock \in Worker \cup {NoWorker}
  /\ pc \in [Worker -> {"getWork", "reading", "rewriting", "work", "appending",
                        "resize", "finished", "crashed"}]
  /\ pos \in [Worker -> Nat]
  /\ kept \in [Worker -> Seq(Line)]
  /\ flushed \in [Worker -> Nat]
  /\ paramsQueue \in [Worker -> Seq(Text)]
  /\ doneParams \in [Worker -> Seq(Text)]
  /\ chunk \in [Worker -> Nat \ {0}]
  /\ items \in [Worker -> Nat]
  /\ busy \in [Worker -> Nat]
  /\ runs \in [Text -> Nat]
  /\ spoiled \in BOOLEAN
  /\ crashes \in Nat

(* A parameter set is claimed by one process, is run by it once and is run by
   no other, whatever the order in which the processes read and rewrite the
   file and wherever one of them dies, unless the queue file is spoiled. *)
OneOwner ==
  ~spoiled =>
    /\ \A p \in Params : runs[p] <= 1
    /\ \A w \in Worker : \A p \in Owned(w) :
         /\ runs[p] = 0
         /\ p \notin Waiting
         /\ \A v \in Worker \ {w} : p \notin Owned(v)
    /\ \A p \in Waiting : runs[p] = 0

(* A rewrite in place loses no line and repeats none: every parameter set of
   the file the user wrote stays on exactly one line of it.  That a rewrite may
   be cut short, or may run into a line without an end, is what spoiled says. *)
FileKeepsEveryLine == ~spoiled => Listed = Params /\ Distinct(Contents)

(* With no crash at all the new contents are what the comments of getWork say,
   "the rest of the file" and "then the part of the queue that we're running":
   every parameter set the user wrote still stands on a line of its own. *)
RestIsWrittenOut == crashes = 0 => Listed = Params /\ Distinct(Contents)

(* Work is claimed in the order of the file, also after rewrites have moved
   lines: no set is taken while an earlier one waits. *)
ClaimedInOrder ==
  ~spoiled => \A p, q \in Listed : (p < q /\ p \in Waiting) => q \in Waiting

(* The done file names only sets that have been run, no set twice, and none
   that a process still means to write to it.  Each crash leaves at most one
   half line in it, which may spoil the line that is written behind it. *)
DoneFileIsExact ==
  ~spoiled =>
    /\ \A j, k \in DOMAIN done \ JoinedLines : done[j] = done[k] => j = k
    /\ \A p \in Range(done) \ {Joined} :
         runs[p] = 1 /\ \A w \in Worker : p \notin Unrecorded(w)
    /\ Cardinality(JoinedLines) + (IF Fragment THEN 1 ELSE 0) <= crashes

(* With no crash, no parameter set is ever out of sight: it waits, or one
   process has claimed it, or has run it and will record it, or it is recorded. *)
NothingLost ==
  (crashes = 0 /\ ~spoiled) =>
    \A p \in Params :
      \/ p \in Waiting \cup Range(done)
      \/ \E w \in Worker : p \in Owned(w) \cup Unrecorded(w)

(* Once there is a done file, what a process has run, also what it ran before
   the file was there, is recorded when it finishes the chunk it is on, unless it
   dies or writes behind the half line of one that did. *)
RunIsRecorded ==
  \A p \in Params : \A w \in Worker :
    (doneExists /\ Owned(w) # {} /\ p \in Owned(w) \cup Unrecorded(w))
      ~> (p \in Range(done) \/ pc[w] = "crashed" \/ JoinedLines # {})

(* Every process comes to an end, of its own or by a crash, whoever waits for whom
   and whoever is started again, and with no crash all sets were run then. *)
AllFinish ==
  <>[](/\ \A w \in Worker : pc[w] \in {"finished", "crashed"}
       /\ crashes > 0 \/ spoiled \/ \A p \in Params : runs[p] = 1)

(* A process that dies never holds the others up: as long as one is left the
   queue is worked off. *)
SurvivorsDrainQueue ==
  <>((\A w \in Worker : pc[w] = "crashed") \/ Waiting = {})

(* Where each parameter set stands, for WorkPool. *)
pool == INSTANCE WorkPool WITH
  waiting <- Waiting,
  claimed <- [w \in Worker |-> Owned(w)],
  ran <- [w \in Worker |-> Unrecorded(w)],
  recorded <- Range(done) \ {Joined},
  cut <- Fragment

(* Every step is a step of WorkPool or changes nothing it sees: the files, the
   locks, the buffers and the crashes together implement the pool, until the
   queue file is spoiled. *)
ImplementsWorkPool ==
  pool!PoolInit /\ [][spoiled' \/ [pool!PoolNext]_(pool!poolVars)]_vars
==============================================================================
