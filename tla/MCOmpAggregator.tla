-------------------------- MODULE MCOmpAggregator --------------------------
(***************************************************************************)
(* OmpAggregator for TLC.  The selections include the empty one, unsorted  *)
(* ones as a parallel filter leaves them, and one of two chunks, which the *)
(* runtime may hand out in either order.  One column has its extrema at    *)
(* the ends, the other has a negative price and a tie.                     *)
(***************************************************************************)
EXTENDS OmpAggregator

MCPriceColumns == {
  [r \in 0 .. 2 |-> r + 1],
  [r \in 0 .. 2 |-> IF r = 1 THEN -1 ELSE 2]}

MCSelections == {<<>>, <<1, 0>>, <<2, 0, 1>>}
=============================================================================
