-------------------------- MODULE DataTableSupport ---------------------------
(***************************************************************************)
(* DataTableSupport: the table a block fills while its pipeline runs, the  *)
(* writer that keeps the table's file, and the engine events that create   *)
(* the one, write out the other and clear it.  An insert tells the writer  *)
(* of a new column before it stores the value, all under the table's lock. *)
(***************************************************************************)
EXTENDS DataTableWriter

CONSTANTS
  Keys, Cols, Values,   \* what is inserted
  Files,                \* file names
  NoFile, NoWriter,     \* an empty myFilename, a null myWriter
  NoText,               \* nothing is promised of a file
  ClearOnFinish,        \* myClearTableOnPipeFinish
  MaxRuns               \* bound on the runs of the pipeline

ASSUME TableAssumption ==
  /\ WriteDelay \in Nat /\ MaxRuns \in Nat /\ ClearOnFinish \in BOOLEAN
  /\ \A word \in Keys \cup Cols \cup Values \cup {KeyColumn} : Width[word] \in Nat \ {0}
  /\ Width[NoValue] = 0
  /\ NoFile \notin Files

(* There are fewer rows than a size_t counts. *)
ASSUME SizeAssumption ==
  IsFiniteSet(Keys) /\ SizeRange \in Nat /\ Cardinality(Keys) < SizeRange

VARIABLES
  engine,    \* PipelineState, as far as the support sees it, and "destroyed"
  filename,  \* myFilename
  table,     \* myTable
  writer,    \* myWriter
  disk,      \* the files
  expected,  \* history: what a file that has been left should hold
  ran        \* runs of the pipeline so far

vars == <<engine, filename, table, writer, disk, expected, ran>>

Init ==
  /\ engine = "idle"
  /\ filename = NoFile
  /\ table = EmptyTable
  /\ writer = NoWriter
  /\ disk = [f \in Files |-> <<>>]
  /\ expected = [f \in Files |-> NoText]
  /\ ran = 0

(* createWriter, where the files are onDisk and the writer is old: the new
   writer opens its file, then the old one is deleted. *)
CreateWriter(onDisk, old, name) ==
  /\ writer' = NewWriter(name)
  /\ disk' = LET opened == Opened(onDisk, name)
             IN IF old = NoWriter THEN opened ELSE Closed(opened, old)

(* setFilename between runs, as from a block's pipelineInitialising. *)
SetFilename(f) ==
  /\ engine \in {"idle", "finished"}
  /\ filename # f
  /\ filename' = f
  /\ UNCHANGED <<engine, table, writer, disk, expected, ran>>

(* setFilename during a run: the old file is written out first. *)
SwitchFile(f) ==
  LET wrote == IF writer = NoWriter THEN <<disk, writer>>
               ELSE Write(disk, writer, table)
  IN /\ engine = "running"
     /\ filename # f
     /\ filename' = f
     /\ CreateWriter(wrote[1], wrote[2], f)
     /\ expected' = [g \in Files |->
                       IF g = f THEN NoText
                       ELSE IF writer # NoWriter /\ g = writer.name THEN TableText(table)
                       ELSE expected[g]]
     /\ UNCHANGED <<engine, table, ran>>

(* The engine's state changes to RUNNING. *)
StartRunning ==
  /\ engine \in {"idle", "finished"}
  /\ ran < MaxRuns
  /\ ran' = ran + 1
  /\ engine' = "running"
  /\ IF filename = NoFile
     THEN UNCHANGED <<writer, disk, expected>>
     ELSE /\ CreateWriter(disk, writer, filename)
          /\ expected' = [expected EXCEPT ![filename] = NoText]
  /\ UNCHANGED <<filename, table>>

(* What the listeners find when they are told of a new column: row and col are
   the arguments of one call, of which either may come first. *)
Announced(t, key, name, rowFirst) == WithCol(IF rowFirst THEN WithRow(t, key) ELSE t, name)

(* DataTable::insert: find or add the row and the column, tell of a new
   column, store the value, tell of the value. *)
Insert(key, name, value) ==
  \E rowFirst \in BOOLEAN :
    LET placed == WithCol(WithRow(table, key), name)
        coords == CoordsOf(placed, key, name)
        stored == WithValue(placed, coords, value)
        told == IF HasCol(table, name) THEN <<disk, writer>>
                ELSE ColumnChanged(disk, writer, Announced(table, key, name, rowFirst), name)
        wrote == ValueChanged(told[1], told[2], stored, coords,
                              OldValue(placed, coords), value)
    IN /\ engine = "running"
       /\ table' = stored
       /\ IF writer = NoWriter
          THEN UNCHANGED <<writer, disk>>
          ELSE disk' = wrote[1] /\ writer' = wrote[2]
       /\ UNCHANGED <<engine, filename, expected, ran>>

(* Mutant of FinishRunning: the table is cleared before it is written. *)
FinishRunningCleared ==
  LET left == IF ClearOnFinish THEN EmptyTable ELSE table
      wrote == Write(disk, writer, left)
  IN /\ engine = "running"
     /\ engine' = "finished"
     /\ IF writer = NoWriter
        THEN UNCHANGED <<writer, disk, expected>>
        ELSE /\ disk' = wrote[1]
             /\ writer' = wrote[2]
             /\ expected' = [expected EXCEPT ![writer.name] = TableText(table)]
     /\ table' = left
     /\ UNCHANGED <<filename, ran>>

(* The engine's state changes to FINISHED. *)
FinishRunning ==
  LET wrote == Write(disk, writer, table)
  IN /\ engine = "running"
     /\ engine' = "finished"
     /\ IF writer = NoWriter
        THEN UNCHANGED <<writer, disk, expected>>
        ELSE /\ disk' = wrote[1]
             /\ writer' = wrote[2]
             /\ expected' = [expected EXCEPT ![writer.name] = TableText(table)]
     /\ table' = IF ClearOnFinish THEN EmptyTable ELSE table
     /\ UNCHANGED <<filename, ran>>

(* The block and its support are deleted. *)
Destroy ==
  /\ engine = "finished"
  /\ engine' = "destroyed"
  /\ writer' = NoWriter
  /\ disk' = IF writer = NoWriter THEN disk ELSE Closed(disk, writer)
  /\ UNCHANGED <<filename, table, expected, ran>>

Next ==
  \/ \E f \in Files : SetFilename(f) \/ SwitchFile(f)
  \/ StartRunning
  \/ \E key \in Keys, name \in Cols, value \in Values : Insert(key, name, value)
  \/ FinishRunning
  \/ Destroy

Spec == Init /\ [][Next]_vars

(* Every run is on another file than the last one: the file name holds the
   instance name of the run's shared data. *)
FreshFile ==
  (engine # "running" /\ engine' = "running" /\ writer # NoWriter) =>
    writer.name # filename

(* No cell is given a value with fewer characters while a pipeline runs. *)
NothingShrinks ==
  (engine = "running" /\ engine' = "running") =>
    \A r \in DOMAIN table.rows : \A c \in DOMAIN table.rows[r] :
      Width[table.rows[r][c]] <= Width[table'.rows[r][c]]

(* The runs in which the writer can keep its file in step. *)
SteadySpec == Init /\ [][Next /\ FreshFile /\ NothingShrinks]_vars

------------------------------------------------------------------------------
(* The part of a table a writer has written: the rows up to its last one, and
   of that one the cells it had. *)
Written(t, last) ==
  [t EXCEPT !.rows =
     [r \in 1..(last[1] + 1) |->
        IF r = last[1] + 1 THEN SubSeq(t.rows[r], 1, last[2]) ELSE t.rows[r]]]

(* The variables have their types. *)
TypeOK ==
  /\ engine \in {"idle", "running", "finished", "destroyed"}
  /\ filename \in Files \cup {NoFile}
  /\ table.cols[1] = KeyColumn
  /\ \A r \in DOMAIN table.rows :
       table.rows[r] # <<>> /\ Len(table.rows[r]) <= Len(table.cols)
  /\ writer = NoWriter \/ (writer.put \in Nat /\ writer.name \in Files)
  /\ ran \in 0..MaxRuns

(* While the writer thinks it may append, the file holds exactly the part of
   the table it remembers to have written: no cell behind its back has moved. *)
FileIsWrittenPart ==
  (engine = "running" /\ writer # NoWriter /\ ~writer.full) =>
    disk[writer.name] =
      IF table.rows = <<>> THEN TableText(table)
      ELSE TableText(Written(table, writer.last))

(* "Write out the final state of the data table": when a run has finished, or
   the file was changed for another, the file holds the table as it then was,
   with or without the newline the writer adds when it closes. *)
FinalFileIsTable ==
  \A f \in Files :
    expected[f] # NoText => disk[f] \in {expected[f], Append(expected[f], Newline)}
==============================================================================
