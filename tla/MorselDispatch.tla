--------------------------- MODULE MorselDispatch ---------------------------
(***************************************************************************)
(* The morsel allocator with the threads of parallel regions around it.    *)
(* Between regions the only running thread partitions a table, or resets   *)
(* the cursor for another pass over the same morsels; inside a region each *)
(* thread runs "while (auto morsel = allocator.get_next_morsel())", the    *)
(* loop of OmpScan::for_each and of every full-table operator, and waits   *)
(* at the end of the region for the others.                                *)
(***************************************************************************)
EXTENDS MorselAllocator, FiniteSets

CONSTANTS
  Threads,   \* the team of a parallel region
  Totals,    \* row counts a table may have
  Sizes      \* morsel sizes that may be asked for; 0 asks for the default

ASSUME DispatchAssumption ==
  /\ Totals \subseteq Nat
  /\ Sizes \subseteq Nat
  /\ IsFiniteSet(Threads)
  /\ Threads # {}

VARIABLES
  pc,      \* pc[t]: "fetch", "test" or "join"
  idx,     \* idx[t]: the index get_next_morsel fetched, "test" pending
  taken    \* taken[t]: the indices of the morsels returned to t in this phase

vars == <<totalRows, morselSize, morsels, cursor, pc, idx, taken>>

(* All threads are at the implicit barrier that ends the region. *)
Joined == \A t \in Threads : pc[t] = "join"

-----------------------------------------------------------------------------
Init ==
  /\ totalRows = 0
  /\ \E size \in Sizes : morselSize = EffectiveSize(size)
  /\ morsels = <<>>
  /\ cursor = 0
  /\ pc = [t \in Threads |-> "join"]
  /\ idx = [t \in Threads |-> 0]
  /\ taken = [t \in Threads |-> {}]

(* Entering a parallel region: every thread starts at the top of the loop. *)
Fork ==
  /\ pc' = [t \in Threads |-> "fetch"]
  /\ taken' = [t \in Threads |-> {}]
  /\ UNCHANGED idx

(* A new allocation of rows, then a region over it. *)
OpenTable(total, size) == Joined /\ Partition(total, size) /\ Fork

(* The same morsels again. *)
Rewind == Joined /\ Reset /\ Fork

Fetch(t) ==
  /\ pc[t] = "fetch"
  /\ idx' = [idx EXCEPT ![t] = cursor]
  /\ FetchAdd
  /\ pc' = [pc EXCEPT ![t] = "test"]
  /\ UNCHANGED taken

(* The rest of get_next_morsel and the body of the caller's loop. *)
Take(t) ==
  /\ pc[t] = "test"
  /\ IsMorsel(idx[t])
  /\ taken' = [taken EXCEPT ![t] = @ \union {idx[t]}]
  /\ pc' = [pc EXCEPT ![t] = "fetch"]
  /\ UNCHANGED <<allocatorVars, idx>>

(* A variant with a bug: a thread that is told nullopt asks again. *)
BugPollAgain(t) ==
  /\ pc[t] = "test"
  /\ ~IsMorsel(idx[t])
  /\ pc' = [pc EXCEPT ![t] = "fetch"]
  /\ UNCHANGED <<allocatorVars, idx, taken>>

(* get_next_morsel returned nullopt: t leaves the loop. *)
Leave(t) ==
  /\ pc[t] = "test"
  /\ ~IsMorsel(idx[t])
  /\ pc' = [pc EXCEPT ![t] = "join"]
  /\ UNCHANGED <<allocatorVars, idx, taken>>

Next ==
  \/ \E total \in Totals, size \in Sizes : OpenTable(total, size)
  \/ Rewind
  \/ \E t \in Threads : Fetch(t) \/ Take(t) \/ Leave(t)

(* A thread of the team keeps running; nothing obliges the program to open
   another region.                                                          *)
Fairness == \A t \in Threads : WF_vars(Fetch(t) \/ Take(t) \/ Leave(t))

Spec == Init /\ [][Next]_vars /\ Fairness

-----------------------------------------------------------------------------
(* What thread t was promised: the morsels it has taken and the one its
   fetch_add has secured.                                                   *)
Given(t) ==
  taken[t] \union {i \in {idx[t]} : pc[t] = "test" /\ IsMorsel(i)}

RowsGiven(t) == UNION {RowsOf(MorselAt(i)) : i \in Given(t)}

(* The rows behind the cursor, which no thread has been given yet. *)
RowsLeft == UNION {RowsOf(MorselAt(i)) : i \in cursor .. (Len(morsels) - 1)}

(* The types of the variables.  A bound is stored as a row_id_t. *)
TypeOK ==
  /\ totalRows \in Nat
  /\ morselSize \in Nat \ {0}
  /\ morsels \in Seq([id : Nat, start : 0 .. RowMod - 1, end : 0 .. RowMod - 1])
  /\ cursor \in 0 .. SizeMod - 1
  /\ pc \in [Threads -> {"fetch", "test", "join"}]
  /\ idx \in [Threads -> 0 .. SizeMod - 1]
  /\ taken \in [Threads -> SUBSET (0 .. Len(morsels) - 1)]

(* No row is handed out twice in a phase, to two threads or to one: the
   morsels given are disjoint ranges, and nobody is about to take a morsel
   it has had, whatever the interleaving of the fetch_adds and whatever the
   rounding of the last morsel.                                             *)
RowHandedOnce ==
  /\ \A t, u \in Threads : \A i \in Given(t), j \in Given(u) :
       (t # u \/ i # j) => RowsOf(MorselAt(i)) \cap RowsOf(MorselAt(j)) = {}
  /\ \A t \in Threads : pc[t] = "test" => idx[t] \notin taken[t]

(* When the region has ended, the threads together have seen every row of
   the table and nothing that is not a row of it.  morsel_allocator.hpp:19
   says of partition(): "Partition a given total row count into morsels".   *)
RegionDrainsTable ==
  Joined => UNION {RowsGiven(t) : t \in Threads} = 0 .. (totalRows - 1)

(* Every thread overshoots the end of the morsels at most once before it
   leaves, so the cursor, which get_next_morsel increments even when nothing
   is left, stays within a team of the last morsel and cannot wrap.         *)
CursorOvershoot == cursor <= Len(morsels) + Cardinality(Threads)

(* remaining_morsels() is the number of morsels no thread was promised, also
   while other threads are in the middle of get_next_morsel().              *)
RemainingIsUntaken ==
  RemainingMorsels =
    Len(morsels) - Cardinality(UNION {Given(t) : t \in Threads})

(* The inputs whose arithmetic stays inside the types: the rounding
   expression total + size - 1 does not wrap, and every row has an id.      *)
InputsInRange ==
  \A total \in Totals, size \in Sizes :
    /\ total + EffectiveSize(size) - 1 < SizeMod
    /\ total < RowMod

(* A std::size_t can count the rows and a team of threads as well. *)
TeamFits == RowMod + Cardinality(Threads) <= SizeMod

(* The dispatch implements the pool of rows, its liveness included: a region
   over any table comes to its end, and then the pool is empty.             *)
Pool == INSTANCE WorkPool WITH
  MaxRows <- RowMod - 1,
  pool <- RowsLeft,
  mine <- [t \in Threads |-> RowsGiven(t)],
  open <- ~Joined

ImplementsPool == Pool!Spec
=============================================================================
