----------------------------- MODULE ColumnarTable -----------------------------
(***************************************************************************)
(* The columnar table of layer 1 (columnar_table.cpp): seven vectors that  *)
(* are meant to have one length, the number of rows.  A column is its      *)
(* length.  A vector that cannot grow throws and stays as it was; the      *)
(* columns before it have the new row by then.                             *)
(***************************************************************************)
EXTENDS MmapReader

CONSTANT MaxRows   \* bound: the rows of a table

ASSUME TableAssumption == MaxRows \in Nat

VARIABLES
  columns,   \* columns[c]: the length of column c, in the order of push_back
  torn       \* ghost: a push_back has thrown since the table was cleared

tableVars == <<columns, torn>>

Columns == 1 .. 7

(* row_count() *)
RowCount == columns[1]

(* The columns when the last of n rows got no further than column k - 1. *)
Filled(n, k) == [c \in Columns |-> IF c < k THEN n ELSE n - 1]

(* A variant with a bug: the names of the regions are kept. *)
BugClearSix ==
  /\ columns' = [c \in Columns |-> IF c = 7 THEN columns[c] ELSE 0]
  /\ torn' = FALSE

ClearTable ==
  /\ columns' = [c \in Columns |-> 0]
  /\ torn' = FALSE

PushBack ==
  /\ RowCount < MaxRows
  /\ columns' = [c \in Columns |-> columns[c] + 1]
  /\ UNCHANGED torn

(* The allocation fails at column k. *)
PushBackThrows ==
  /\ RowCount < MaxRows
  /\ \E k \in Columns :
       /\ columns' = [c \in Columns |-> IF c < k THEN columns[c] + 1 ELSE columns[c]]
       /\ torn' = (torn \/ k > 1)

-----------------------------------------------------------------------------
(* load_from_mmap(), for a file with n well-formed lines.  Lines with fewer
   than seven fields are passed over; a field that is no number is a zero.  *)

HasBytes(x) == IsOpen(x) /\ x.size > 0

LoadFails(x) == ~HasBytes(x) /\ ClearTable

(* reserve() throws, or the push_back() of a line. *)
LoadThrows(x) ==
  /\ HasBytes(x)
  /\ \/ ClearTable
     \/ \E n \in 1 .. MaxRows, k \in Columns :
          columns' = Filled(n, k) /\ torn' = (k > 1)

LoadSucceeds(x, n) ==
  /\ HasBytes(x)
  /\ columns' = [c \in Columns |-> n]
  /\ torn' = FALSE

(* get_row(i) throws out_of_range. *)
GetRowThrows(i) == i >= RowCount

TableInit ==
  /\ columns = [c \in Columns |-> 0]
  /\ torn = FALSE

TableNext ==
  \/ ClearTable \/ PushBack \/ PushBackThrows
  \/ \E r \in Readers, n \in 0 .. MaxRows :
       /\ reader[r].impl
       /\ LoadFails(reader[r]) \/ LoadThrows(reader[r]) \/ LoadSucceeds(reader[r], n)

-----------------------------------------------------------------------------
(* get_row() and the operators bound a row by the length of the first column
   and then read the others: that is safe as long as no push_back has
   thrown.  Even then a later column is never longer than an earlier one,
   so the rows of the last column are whole.                                 *)
RowsWhole ==
  /\ \A c \in 1 .. 6 : columns[c + 1] <= columns[c]
  /\ ~torn => columns[7] = RowCount
===============================================================================
