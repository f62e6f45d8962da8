--------------------------- MODULE MCSimdAggregator ---------------------------
(***************************************************************************)
(* SimdAggregator for TLC.  Ten rows are one AVX2 vector, or two NEON      *)
(* vectors, and a rest of two; 17 rows are two AVX2 vectors and one row.   *)
(* Each column has one row that is the only maximum and one that is the    *)
(* only minimum: every lane of a vector is each of these in some column.   *)
(* A selection repeats a row and is not sorted.                            *)
(***************************************************************************)
EXTENDS SimdAggregator

Column(high, low) ==
  [r \in Rows |-> CASE r = high -> 2 [] r = low -> 0 [] OTHER -> 1]

MCPriceColumns == {Column(h, (h + 3) % 9) : h \in 0 .. 8}

MCSelections == {<<>>, <<9, 3, 5, 7, 1, 2, 3, 8, 0>>}
===============================================================================
