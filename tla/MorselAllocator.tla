--------------------------- MODULE MorselAllocator ---------------------------
(***************************************************************************)
(* The morsel allocator of layer 1 (src/layer1_storage/morsel_allocator):  *)
(* partition() cuts the rows 0 .. total-1 of a table into morsels, and the *)
(* threads of a parallel region take the morsels one by one through an     *)
(* atomic cursor.                                                          *)
(*                                                                         *)
(* The module gives the allocator's state and its operations.  The threads *)
(* that call them are in the modules that extend this one: MorselDispatch, *)
(* OmpFilter, OmpAggregator and OmpGroupBy.                                *)
(***************************************************************************)
EXTENDS CoreTypes, Sequences

CONSTANT DefaultMorselSize   \* DEFAULT_MORSEL_SIZE

ASSUME MorselAssumption == DefaultMorselSize \in Nat \ {0}

VARIABLES
  totalRows,    \* total_rows_
  morselSize,   \* morsel_size_
  morsels,      \* morsels_; the vector's element idx is morsels[idx + 1]
  cursor        \* next_morsel_idx_

allocatorVars == <<totalRows, morselSize, morsels, cursor>>

-----------------------------------------------------------------------------
(* The arithmetic of partition(), in the types the code uses: sizes wrap at
   SizeMod, and a bound is narrowed to a row_id_t when it is stored.        *)

EffectiveSize(size) == IF size = 0 THEN DefaultMorselSize ELSE size

(* A variant with a bug: rounding down drops the last, partial morsel. *)
BugFloorCount(total, size) == total \div size

MorselCount(total, size) == ((total + size - 1) % SizeMod) \div size

StartRow(i, size) == ((i * size) % SizeMod) % RowMod

EndRow(i, total, size) ==
  LET stop == (StartRow(i, size) + size) % SizeMod
  IN  (IF stop < total THEN stop ELSE total) % RowMod

Cut(total, size) ==
  [k \in 1 .. MorselCount(total, size) |->
     [id |-> k - 1, start |-> StartRow(k - 1, size),
      end |-> EndRow(k - 1, total, size)]]

(* The rows the loop "for (r = start_row; r < end_row; ++r)" visits. *)
RowsOf(m) == m.start .. (m.end - 1)

-----------------------------------------------------------------------------
(* The operations. *)

Partition(total, size) ==
  /\ totalRows' = total
  /\ morselSize' = EffectiveSize(size)
  /\ morsels' = IF total = 0 THEN <<>> ELSE Cut(total, EffectiveSize(size))
  /\ cursor' = 0

(* A variant with a bug: the second pass goes on from the old cursor. *)
BugResetKeepsCursor ==
  UNCHANGED <<totalRows, morselSize, morsels, cursor>>

Reset ==
  /\ cursor' = 0
  /\ UNCHANGED <<totalRows, morselSize, morsels>>

(* A variant with a bug: the increment is lost, as when two threads
   load the same value of a cursor that is not updated atomically.          *)
BugLostIncrement ==
  /\ cursor' \in {cursor, (cursor + 1) % SizeMod}
  /\ UNCHANGED <<totalRows, morselSize, morsels>>

(* The atomic step of get_next_morsel(): its result is the cursor's old value. *)
FetchAdd ==
  /\ cursor' = (cursor + 1) % SizeMod
  /\ UNCHANGED <<totalRows, morselSize, morsels>>

(* A variant with a bug: the index one past the last morsel passes. *)
BugInclusiveTest(idx) == idx <= Len(morsels)

(* The test that get_next_morsel() makes on the index it fetched. *)
IsMorsel(idx) == idx < Len(morsels)

MorselAt(idx) == morsels[idx + 1]

(* A variant with a bug: the cursor past the end is not clamped. *)
BugUnclampedRemaining == Len(morsels) - cursor

RemainingMorsels ==
  IF cursor < Len(morsels) THEN Len(morsels) - cursor ELSE 0
=============================================================================
