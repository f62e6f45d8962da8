------------------------------ MODULE GroupAnswer ------------------------------
(***************************************************************************)
(* What a GROUP BY promises its caller, with the sequential engine         *)
(* (seq_group_by.cpp) as the reference: one row for each category that     *)
(* occurs in the input, in ascending order of the category, with the       *)
(* metrics of the rows of that category.  Sums are represented by what was *)
(* added, as in AggregateAnswer.                                           *)
(***************************************************************************)
EXTENDS Integers, Sequences, FiniteSets

CONSTANTS MaxRows

VARIABLES
  busy,      \* a call is running
  input,     \* the rows to group, in order
  table,     \* the columns: [category, price]
  answer     \* what the last call returned

groupVars == <<busy, input, table, answer>>

Rows == 0 .. (MaxRows - 1)

Positions(c) == {k \in DOMAIN input : table.category[input[k]] = c}

(* row is the result row the sequential engine computes for its category. *)
IsGroup(row) ==
  LET here == Positions(row.category)
      prices == {table.price[input[k]] : k \in here}
  IN  /\ here # {}
      /\ row.count = Cardinality(here)
      /\ row.sum = [r \in Rows |-> Cardinality({k \in here : input[k] = r})]
      /\ row.min \in prices /\ \A p \in prices : row.min <= p
      /\ row.max \in prices /\ \A p \in prices : row.max >= p

IsGrouping(rows) ==
  /\ \A i \in DOMAIN rows : IsGroup(rows[i])
  /\ \A i, j \in DOMAIN rows : i < j => rows[i].category < rows[j].category
  /\ {rows[i].category : i \in DOMAIN rows}
       = {table.category[input[k]] : k \in DOMAIN input}

Init ==
  /\ busy = FALSE
  /\ input = <<>>
  /\ answer = <<>>

Call ==
  /\ ~busy
  /\ busy' = TRUE
  /\ answer' = <<>>

Return ==
  /\ busy
  /\ busy' = FALSE
  /\ IsGrouping(answer')
  /\ UNCHANGED <<input, table>>

(* Every call returns. *)
Returns == busy ~> ~busy

Spec == Init /\ [][Call \/ Return]_groupVars /\ Returns
===============================================================================
