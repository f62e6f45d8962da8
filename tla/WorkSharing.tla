----------------------------- MODULE WorkSharing -----------------------------
(***************************************************************************)
(* The two ways in which a parallel operator shares its rows among the     *)
(* threads of the region: morsels of the whole table from a                *)
(* MorselAllocator, or chunks of a selection vector from the OpenMP        *)
(* runtime, "omp for schedule(dynamic, 10000)".  The runtime's loop is     *)
(* external to the code; like the allocator it hands out chunks of the     *)
(* iterations, each once, and so it is represented by the same variables.  *)
(* Unlike the allocator it may do so in any order: the directive has no    *)
(* "monotonic" modifier, so a thread may be given a chunk that lies before *)
(* one it has already had.                                                 *)
(***************************************************************************)
EXTENDS MorselAllocator, Functions

CONSTANT ChunkSize   \* the chunk of the dynamic schedule

ASSUME ChunkAssumption == ChunkSize \in Nat \ {0}

(* The rows 0 .. n-1 in the order of the table. *)
WholeTable(n) == [k \in 1 .. n |-> k - 1]

(* The division of a dynamic loop of n iterations. *)
Chunks(n) ==
  [k \in 1 .. ((n + ChunkSize - 1) \div ChunkSize) |->
     [id |-> k - 1, start |-> (k - 1) * ChunkSize,
      end |-> IF k * ChunkSize < n THEN k * ChunkSize ELSE n]]

(* The order in which the chunks will be handed out is chosen when the loop
   begins; whoever comes next is given the next one.                        *)
ShareLoop(n) ==
  /\ totalRows' = n
  /\ morselSize' = ChunkSize
  /\ \E order \in Bijection(DOMAIN Chunks(n), DOMAIN Chunks(n)) :
       morsels' = [k \in DOMAIN Chunks(n) |-> Chunks(n)[order[k]]]
  /\ cursor' = 0

(* The positions of the input that make up a morsel or a chunk. *)
PositionsOf(m) == (m.start + 1) .. m.end

(* The positions that have been handed out. *)
PositionsSeen ==
  UNION {PositionsOf(MorselAt(i)) :
           i \in 0 .. (IF IsMorsel(cursor) THEN cursor ELSE Len(morsels)) - 1}
===============================================================================
