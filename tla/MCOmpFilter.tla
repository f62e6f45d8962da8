---------------------------- MODULE MCOmpFilter ----------------------------
(***************************************************************************)
(* OmpFilter for TLC.  The selections are what an earlier parallel filter  *)
(* of the same table can leave behind, row ids once each and not sorted,   *)
(* and one with a row twice, which filter_subset takes as well.            *)
(***************************************************************************)
EXTENDS OmpFilter

MCSelections == {<<>>, <<3, 1>>, <<4, 2, 0, 1, 3>>, <<2, 0, 2>>}
=============================================================================
