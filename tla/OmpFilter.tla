------------------------------ MODULE OmpFilter ------------------------------
(***************************************************************************)
(* The parallel filter of layer 3 (omp_filter.cpp).  The five operators    *)
(* have one shape and differ in the predicate and in who shares the work:  *)
(* filter, filter_quantity_gt, filter_category_eq and                      *)
(* filter_quantity_and_category take morsels from a MorselAllocator over   *)
(* the whole table, filter_subset takes chunks of a selection from an      *)
(* "omp for schedule(dynamic)".  The predicate is the set of rows that     *)
(* satisfy it.                                                             *)
(***************************************************************************)
EXTENDS WorkSharing, OmpTeam, SelectionVector, Functions

CONSTANTS
  MaxRows,      \* bound: rows of a table
  Selections    \* the selection vectors filter_subset may be given

ASSUME FilterAssumption ==
  /\ MaxRows \in 0 .. RowMod - 1
  \* A size counts a morsel or a team beyond the rows of any table.
  /\ MaxRows + DefaultMorselSize <= SizeMod /\ MaxRows + MaxThreads < SizeMod
  /\ \A s \in Selections : s \in Seq(0 .. (MaxRows - 1)) /\ Len(s) <= MaxRows

VARIABLES
  busy,       \* an operator has been called and has not returned
  whole,      \* it works on the whole table, not on a selection
  input,      \* the rows it looks at, in order
  matches,    \* the rows that satisfy the predicate
  final,      \* final_res
  nextSlot    \* the slot the concatenation loop appends next

queryVars == <<busy, whole, input, matches, final, nextSlot>>
vars == <<allocatorVars, teamVars, queryVars>>

Rows == 0 .. (MaxRows - 1)

-----------------------------------------------------------------------------
Init ==
  /\ totalRows = 0 /\ morselSize = DefaultMorselSize
  /\ morsels = <<>> /\ cursor = 0
  /\ numThreads = 1 /\ pc = [t \in {0} |-> "done"]
  /\ singleTaken = FALSE /\ local = [t \in {0} |-> <<>>] /\ slots = NoSlots
  /\ busy = FALSE /\ whole = TRUE
  /\ input = <<>> /\ matches = {} /\ final = <<>> /\ nextSlot = 0

Begin(n) ==
  /\ ~busy
  /\ busy' = TRUE
  /\ matches' \in SUBSET Rows
  /\ final' = <<>>
  /\ nextSlot' = 0
  /\ Fork(n, <<>>)

(* filter(predicate) and its specialised forms. *)
CallFilter(n, rows) ==
  /\ Begin(n)
  /\ whole' = TRUE
  /\ input' = WholeTable(rows)
  /\ Partition(rows, DefaultMorselSize)

(* filter_subset(input_selection, predicate): the loop is the runtime's. *)
CallSubset(n, selection) ==
  /\ Begin(n)
  /\ whole' = FALSE
  /\ input' = selection
  /\ ShareLoop(Len(selection))

(* A variant with a bug: each morsel replaces what the thread has found. *)
BugOverwrite(t, m) ==
  local' = [local EXCEPT ![t] = PushMatches(<<>>, input, m.start + 1, m.end, matches)]

(* A variant with a bug: a morsel's matches go in front of the earlier ones. *)
BugPrepend(t, m) ==
  local' = [local EXCEPT ![t] = PushMatches(<<>>, input, m.start + 1, m.end, matches) \o @]

(* The loop over the rows of a morsel: local_res.push_back(r) on a match. *)
ScanMorsel(t, m) ==
  local' = [local EXCEPT ![t] = PushMatches(@, input, m.start + 1, m.end, matches)]

(* One turn of the work loop.  Only the fetch_add touches shared state that
   changes; the scan reads the table and writes the thread's own vector.    *)
Work(t) ==
  /\ At(t, "work")
  /\ IsMorsel(cursor)
  /\ ScanMorsel(t, MorselAt(cursor))
  /\ FetchAdd
  /\ UNCHANGED <<numThreads, pc, singleTaken, slots, queryVars>>

(* Nothing is left.  The dynamic loop ends at a barrier of its own. *)
LeaveLoop(t) ==
  /\ At(t, "work")
  /\ ~IsMorsel(cursor)
  /\ FetchAdd
  /\ GoTo(t, IF whole THEN "publish" ELSE "forEnd")
  /\ UNCHANGED <<numThreads, singleTaken, local, slots, queryVars>>

TeamStep(t) ==
  /\ \/ WinSingle(t)
     \/ SkipSingle(t)
     \/ Resize(t, <<>>)
     \/ PassBarrier(t)
     \/ PassForEnd(t)
     \/ Publish(t, <<>>)
  /\ UNCHANGED <<allocatorVars, queryVars>>

(* A variant with a bug: the last slot is left out. *)
BugSkipLast ==
  /\ busy /\ Joined
  /\ nextSlot < numThreads
  /\ final' = IF nextSlot = numThreads - 1 THEN final ELSE final \o slots[nextSlot]
  /\ nextSlot' = nextSlot + 1
  /\ UNCHANGED <<allocatorVars, teamVars, busy, whole, input, matches>>

(* One turn of the loop that concatenates the slots in thread order. *)
AppendSlot ==
  /\ busy /\ Joined
  /\ nextSlot < numThreads
  /\ final' = final \o slots[nextSlot]
  /\ nextSlot' = nextSlot + 1
  /\ UNCHANGED <<allocatorVars, teamVars, busy, whole, input, matches>>

Return ==
  /\ busy /\ Joined
  /\ nextSlot = numThreads
  /\ busy' = FALSE
  /\ Release
  /\ UNCHANGED <<allocatorVars, whole, input, matches, final, nextSlot>>

Next ==
  \/ \E n \in 1 .. MaxThreads, rows \in 0 .. MaxRows : CallFilter(n, rows)
  \/ \E n \in 1 .. MaxThreads, s \in Selections : CallSubset(n, s)
  \/ \E t \in 0 .. (MaxThreads - 1) : TeamStep(t) \/ Work(t) \/ LeaveLoop(t)
  \/ AppendSlot
  \/ Return

(* The threads of a region keep running, and so does the caller's thread
   after the join; nothing obliges the program to call a filter.            *)
Fairness ==
  /\ \A t \in 0 .. (MaxThreads - 1) :
       WF_vars(TeamStep(t) \/ Work(t) \/ LeaveLoop(t))
  /\ WF_vars(AppendSlot \/ Return)

Spec == Init /\ [][Next]_vars /\ Fairness

-----------------------------------------------------------------------------
(* The types of the variables. *)
TypeOK ==
  /\ totalRows \in Nat /\ morselSize \in Nat \ {0}
  /\ morsels \in Seq([id : Nat, start : Nat, end : Nat])
  /\ cursor \in 0 .. SizeMod - 1
  /\ numThreads \in 1 .. MaxThreads
  /\ pc \in [Team -> {"single", "resize", "barrier", "work", "forEnd",
                       "publish", "done"}]
  /\ singleTaken \in BOOLEAN /\ busy \in BOOLEAN /\ whole \in BOOLEAN
  /\ local \in [Team -> Seq(Rows)]
  /\ slots = NoSlots \/ slots \in [Team -> Seq(Rows)]
  /\ input \in Seq(Rows) /\ matches \subseteq Rows /\ final \in Seq(Rows)
  /\ nextSlot \in 0 .. numThreads

(* No thread writes to thread_results before it has a slot there.  The code
   relies on the barrier that "omp single" implies; without it a fast thread
   would write past the end of an empty vector.                             *)
PublishInBounds == \A t \in Team : pc[t] = "publish" => t \in DOMAIN slots

(* The slots that are still to be appended to the result. *)
Pending == {t \in DOMAIN slots : t >= nextSlot}

(* How many times a row is held: by the threads, in pending slots, and in
   the result.                                                              *)
Held(r) ==
  SumFunctionOnSet([t \in Team |-> Occurrences(local[t], r)], Team)
    + SumFunctionOnSet([t \in DOMAIN slots |-> Occurrences(slots[t], r)], Pending)
    + Occurrences(final, r)

(* At every moment of a call, each matching row is held as often as the work
   handed out has it, and no other row is held: nothing is lost or doubled
   between the scan, the move into the slot and the concatenation.          *)
MatchesHeldOnce ==
  busy => \A r \in Rows :
    Held(r) = IF r \in matches THEN Cardinality({k \in PositionsSeen : input[k] = r}) ELSE 0

(* Each thread's slice of the answer of a whole-table filter has ascending
   rows, although the answer has not: the morsels that a thread takes from
   the shared cursor have growing indices.  Of a selection nothing of the
   kind holds, since the runtime's chunks come in any order.                *)
Ascends(s) == \A k, l \in DOMAIN s : k < l => s[k] < s[l]

SlicesInOrder ==
  busy /\ whole =>
    /\ \A t \in Team : Ascends(local[t])
    /\ \A t \in DOMAIN slots : Ascends(slots[t])

F == INSTANCE FilterAnswer WITH answer <- IF busy THEN <<>> ELSE final

(* The parallel filter returns what the sequential one returns, up to the
   order of the rows, and it returns: for every team size, every
   interleaving, the whole table and any selection.                         *)
ImplementsSequentialFilter == F!Spec
=============================================================================
