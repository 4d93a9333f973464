------------------------------ MODULE DataTable ------------------------------
(***************************************************************************)
(* DataTable: rows found by key, columns found by name, cells set by       *)
(* insert.  A table is a record of its column names and its rows; a row is *)
(* a sequence of values that starts with its key and may be shorter than   *)
(* the table is wide.  Coordinates count from zero, as in the code.        *)
(***************************************************************************)
EXTENDS Naturals, Sequences, SequencesExt

CONSTANTS
  KeyColumn,   \* KEY_COLUMN_NAME, the first column of every table
  NoValue      \* the empty string a cell holds before it is set

EmptyTable == [cols |-> <<KeyColumn>>, rows |-> <<>>]

HasRow(table, key) == \E r \in DOMAIN table.rows : table.rows[r][1] = key
HasCol(table, name) == \E c \in 2..Len(table.cols) : table.cols[c] = name

(* row: the index of the row of a key, added at the end if there is none. *)
WithRow(table, key) ==
  IF HasRow(table, key) THEN table
  ELSE [table EXCEPT !.rows = Append(@, <<key>>)]

(* col: the index of a column, added at the end if there is none. *)
WithCol(table, name) ==
  IF HasCol(table, name) THEN table
  ELSE [table EXCEPT !.cols = Append(@, name)]

(* coords, in a table that has the row and the column. *)
CoordsOf(table, key, name) ==
  <<(CHOOSE r \in DOMAIN table.rows : table.rows[r][1] = key) - 1,
    (CHOOSE c \in 2..Len(table.cols) : table.cols[c] = name) - 1>>

(* The value insertValue replaces. *)
OldValue(table, coords) ==
  LET row == table.rows[coords[1] + 1]
  IN IF coords[2] < Len(row) THEN row[coords[2] + 1] ELSE NoValue

(* insertValue: the row is made long enough and the value stored. *)
WithValue(table, coords, value) ==
  LET row == table.rows[coords[1] + 1]
      wide == [c \in 1..(IF Len(row) > coords[2] THEN Len(row) ELSE coords[2] + 1) |->
                 IF c = coords[2] + 1 THEN value
                 ELSE IF c <= Len(row) THEN row[c] ELSE NoValue]
  IN [table EXCEPT !.rows[coords[1] + 1] = wide]
==============================================================================
