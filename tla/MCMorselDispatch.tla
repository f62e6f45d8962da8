-------------------------- MODULE MCMorselDispatch --------------------------
(***************************************************************************)
(* MorselDispatch for TLC.  Sizes have 16 values and row identifiers 8, so *)
(* that both widths are within reach of the inputs.  The tables have no    *)
(* row, one row, an exact and an inexact number of morsels; size 0 asks    *)
(* for the default.                                                        *)
(***************************************************************************)
EXTENDS MorselDispatch

CONSTANTS t1, t2, t3

MCThreads == {t1, t2, t3}

MCTotals == {0, 1, 4, 5}

MCSizes == {0, 1, 3}

(* Inputs at the edge of the types: a morsel size near the largest
   std::size_t, as --morsel-size may ask for, and an ordinary one.          *)
WideSizes == {2, 15}
=============================================================================
