--------------------------- MODULE DataTableWriter ---------------------------
(***************************************************************************)
(* DataTableWriter: keeps a file in step with a table it listens to.  It   *)
(* appends what is new behind what it wrote last while it can, and writes  *)
(* the whole table over the file from its start when something it had      *)
(* already written changes.  A writer is a record, a disk a function from  *)
(* file names to contents, and every operation maps a disk and a writer to *)
(* what they become.  A file's contents are a sequence of characters, of   *)
(* which a value takes as many as Width says.                              *)
(***************************************************************************)
EXTENDS Integers, DataTable

CONSTANTS
  Width,        \* characters in a value or a column name
  WriteDelay,   \* myWriteDelay: changed characters before a write
  SizeRange     \* 2^w for a size_t of w bits

Hash == <<"#", 1>>
Space == <<" ", 1>>
Newline == <<"newline", 1>>
Nul == <<"nul", 1>>

WordText(word) == [k \in 1..Width[word] |-> <<word, k>>]

(* join: the words of a line with the column delimiter between them. *)
JoinText(words) ==
  FlattenSeq([k \in DOMAIN words |->
                (IF k = 1 THEN <<>> ELSE <<Space>>) \o WordText(words[k])])
RowsText(rows) ==
  FlattenSeq([r \in DOMAIN rows |-> <<Newline>> \o JoinText(rows[r])])

(* What the file of a table should hold. *)
TableText(table) == <<Hash, Space>> \o JoinText(table.cols) \o RowsText(table.rows)

(* Characters put into a file at an offset: what is behind them stays, and a
   gap before them is filled with zero bytes. *)
PutAt(contents, offset, text) ==
  LET end == offset + Len(text)
  IN [k \in 1..(IF end > Len(contents) THEN end ELSE Len(contents)) |->
        IF offset < k /\ k <= end THEN text[k - offset]
        ELSE IF k <= Len(contents) THEN contents[k] ELSE Nul]

(* diff; values that differ are taken to differ in every character. *)
Diff(old, new) ==
  IF old = new THEN 0
  ELSE IF Width[old] > Width[new] THEN Width[old] ELSE Width[new]

Before(a, b) == a[1] < b[1] \/ (a[1] = b[1] /\ a[2] < b[2])

------------------------------------------------------------------------------
(* initialise: the file is opened for output, which empties it whether or not
   myAppend is set. *)
NewWriter(name) ==
  [name |-> name, put |-> 0, last |-> <<0, 0>>, full |-> TRUE, since |-> 0]
Opened(disk, name) == [disk EXCEPT ![name] = <<>>]

(* The destructor: a newline where the stream stands. *)
Closed(disk, writer) ==
  [disk EXCEPT ![writer.name] = PutAt(@, writer.put, <<Newline>>)]

LastRow(table) == (Len(table.rows) - 1) % SizeRange
LastSize(table, size) ==
  IF table.rows = <<>> THEN size ELSE Len(table.rows[Len(table.rows)])

(* writeFull: back to the start of the file, everything over what is there. *)
WriteFull(disk, writer, table) ==
  LET text == TableText(table)
  IN <<[disk EXCEPT ![writer.name] = PutAt(@, 0, text)],
       [writer EXCEPT !.put = Len(text),
                      !.last = <<LastRow(table), LastSize(table, @[2])>>,
                      !.full = FALSE, !.since = 0]>>

(* What is left of the last row written, then the rows after it. *)
TextFrom(writer, table) ==
  LET r == writer.last[1] + 1
      size == writer.last[2]
      row == table.rows[r]
  IN (IF size > 0 /\ size < Len(row)
      THEN <<Space>> \o JoinText(SubSeq(row, size + 1, Len(row)))
      ELSE <<>>)
     \o RowsText(SubSeq(table.rows, r + 1, Len(table.rows)))

(* writeFrom: appended where the stream stands. *)
WriteFrom(disk, writer, table) ==
  LET text == TextFrom(writer, table)
  IN <<[disk EXCEPT ![writer.name] = PutAt(@, writer.put, text)],
       [writer EXCEPT !.put = @ + Len(text),
                      !.last = <<LastRow(table), LastSize(table, @[2])>>,
                      !.full = FALSE, !.since = 0]>>

Write(disk, writer, table) ==
  IF writer.full THEN WriteFull(disk, writer, table)
  ELSE WriteFrom(disk, writer, table)

WriteIfDue(disk, writer, table) ==
  IF writer.since > WriteDelay THEN Write(disk, writer, table)
  ELSE <<disk, writer>>

(* onDataTableColumnChanged *)
ColumnChanged(disk, writer, table, name) ==
  WriteIfDue(disk, [writer EXCEPT !.since = @ + Width[name], !.full = TRUE], table)

(* Mutant of ValueChanged: what is already written is not told from the rest. *)
ValueChangedLater(disk, writer, table, coords, old, new) ==
  WriteIfDue(disk, [writer EXCEPT !.since = @ + Diff(old, new)], table)

(* onDataTableValueChanged *)
ValueChanged(disk, writer, table, coords, old, new) ==
  WriteIfDue(disk,
             [writer EXCEPT !.since = @ + Diff(old, new),
                            !.full = @ \/ Before(coords, writer.last)],
             table)
==============================================================================
