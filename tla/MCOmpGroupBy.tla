----------------------------- MODULE MCOmpGroupBy -----------------------------
(***************************************************************************)
(* OmpGroupBy for TLC: a table in which the rows of a category are spread  *)
(* over several morsels, and one in which every row is of one category.    *)
(***************************************************************************)
EXTENDS OmpGroupBy

MCTables == {
  [category |-> [r \in 0 .. 3 |-> IF r \in {0, 3} THEN 7 ELSE 5],
   price |-> [r \in 0 .. 3 |-> r + 1]],
  [category |-> [r \in 0 .. 3 |-> 7],
   price |-> [r \in 0 .. 3 |-> IF r = 2 THEN -1 ELSE 2]]}

MCSelections == {<<>>, <<2, 0>>, <<3, 0, 2>>}
===============================================================================
