------------------------------- MODULE CoreTypes -------------------------------
(***************************************************************************)
(* The widths of the unsigned integers of common/types.hpp in which rows   *)
(* are numbered and counted.  They wrap.                                   *)
(***************************************************************************)
EXTENDS Integers

CONSTANTS
  SizeMod,   \* number of values of std::size_t (2^64 in the build)
  RowMod     \* number of values of row_id_t, an uint32_t (2^32)

(* A row identifier is no wider than a size. *)
ASSUME WidthAssumption ==
  /\ SizeMod \in Nat \ {0}
  /\ RowMod \in 1 .. SizeMod
===============================================================================
