------------------------------ MODULE OmpGroupBy ------------------------------
(***************************************************************************)
(* The parallel GROUP BY of layer 3 (omp_group_by.cpp).  Each thread of    *)
(* the team groups the rows it is given in a map of its own, moves the map *)
(* into its slot of thread_maps, and after the join the caller's thread    *)
(* merges the maps one after the other and sorts the groups.               *)
(***************************************************************************)
EXTENDS WorkSharing, OmpTeam, SequencesExt

CONSTANTS
  MaxRows,       \* bound: rows of a table
  Selections,    \* the selection vectors a GROUP BY may be given
  Categories,    \* the category identifiers that occur
  Tables,        \* the tables: [category, price], each a column
  Infinity       \* numeric_limits<double>::infinity()

ASSUME GroupByAssumption ==
  /\ MaxRows \in 0 .. RowMod - 1
  \* A size counts a morsel or a team beyond the rows of any table.
  /\ MaxRows + DefaultMorselSize <= SizeMod /\ MaxRows + MaxThreads < SizeMod
  /\ \A s \in Selections : s \in Seq(0 .. (MaxRows - 1)) /\ Len(s) <= MaxRows
  /\ Categories \subseteq Int
  /\ Infinity \in Nat
  /\ \A tb \in Tables :
       /\ tb.category \in [0 .. (MaxRows - 1) -> Categories]
       /\ tb.price \in [0 .. (MaxRows - 1) -> (-Infinity + 1) .. (Infinity - 1)]

VARIABLES
  busy,        \* an operator has been called and has not returned
  whole,       \* over the whole table, not over a selection
  input,       \* the rows, in order
  table,       \* the columns it reads
  finalMap,    \* final_map
  nextSlot,    \* the slot the merge loop takes next
  result       \* the sorted rows, once the call has returned

queryVars == <<busy, whole, input, table, finalMap, nextSlot, result>>
vars == <<allocatorVars, teamVars, queryVars>>

Rows == 0 .. (MaxRows - 1)

-----------------------------------------------------------------------------
(* GroupMetrics.  The two sums of the code, of quantities and of prices,
   add up the same rows: sum says which.                                    *)
NewMetrics ==
  [count |-> 0, sum |-> [r \in Rows |-> 0], min |-> Infinity, max |-> -Infinity]

Lesser(a, b) == IF a < b THEN a ELSE b
Greater(a, b) == IF a > b THEN a ELSE b

(* A variant with a bug: the count is doubled for each row. *)
BugUpdatedCount(m, r) ==
  [count |-> m.count + m.count + 1,
   sum |-> [m.sum EXCEPT ![r] = @ + 1],
   min |-> Lesser(m.min, table.price[r]),
   max |-> Greater(m.max, table.price[r])]

(* GroupMetrics::update *)
Updated(m, r) ==
  [count |-> m.count + 1,
   sum |-> [m.sum EXCEPT ![r] = @ + 1],
   min |-> Lesser(m.min, table.price[r]),
   max |-> Greater(m.max, table.price[r])]

(* A variant with a bug: the extrema of the second map are forgotten. *)
BugMergedKeepsExtrema(m, n) ==
  [count |-> m.count + n.count,
   sum |-> [r \in Rows |-> m.sum[r] + n.sum[r]],
   min |-> IF m.count = 0 THEN n.min ELSE m.min,
   max |-> IF m.count = 0 THEN n.max ELSE m.max]

(* The body of the merge loop. *)
Merged(m, n) ==
  [count |-> m.count + n.count,
   sum |-> [r \in Rows |-> m.sum[r] + n.sum[r]],
   min |-> Lesser(m.min, n.min),
   max |-> Greater(m.max, n.max)]

NoMap == [c \in {} |-> NewMetrics]

(* operator[] of the maps: a key that is absent maps to new metrics. *)
Lookup(map, c) == IF c \in DOMAIN map THEN map[c] ELSE NewMetrics

(* local_map[cats[r]].update(qty[r], prices[r]) *)
GroupRow(map, r) ==
  LET c == table.category[r]
  IN  [d \in DOMAIN map \union {c} |->
         IF d = c THEN Updated(Lookup(map, c), r) ELSE map[d]]

(* The loop over the rows at positions first to last, from a map that has
   groups already.                                                          *)
GroupRows(map, first, last) ==
  LET groups[k \in (first - 1) .. last] ==
        IF k = first - 1 THEN map ELSE GroupRow(groups[k - 1], input[k])
  IN  groups[last]

(* A variant with a bug: a group of the slot replaces the merged one. *)
BugReplace(map, slot) ==
  [c \in DOMAIN map \union DOMAIN slot |->
     IF c \in DOMAIN slot THEN slot[c] ELSE map[c]]

(* One turn of the outer merge loop, over all the groups of a slot. *)
MergeMaps(map, slot) ==
  [c \in DOMAIN map \union DOMAIN slot |->
     IF c \in DOMAIN slot THEN Merged(Lookup(map, c), slot[c]) ELSE map[c]]

(* The elements of a finite set of integers in ascending order, as std::sort
   leaves them.                                                             *)
Ascending(S) ==
  CHOOSE order \in [1 .. Cardinality(S) -> S] :
    /\ Range(order) = S
    /\ \A i, j \in DOMAIN order : i < j => order[i] < order[j]

(* The result row of a group. *)
GroupResult(map, c) ==
  [category |-> c, count |-> map[c].count, sum |-> map[c].sum,
   min |-> map[c].min, max |-> map[c].max]

(* A variant with a bug: the comparison of the sort is reversed. *)
BugUnsortedRows(map) ==
  [i \in 1 .. Cardinality(DOMAIN map) |-> GroupResult(map, Reverse(Ascending(DOMAIN map))[i])]

(* group_by_category_sorted: the groups by ascending category. *)
SortedRows(map) ==
  [i \in 1 .. Cardinality(DOMAIN map) |-> GroupResult(map, Ascending(DOMAIN map)[i])]

-----------------------------------------------------------------------------
Init ==
  /\ totalRows = 0 /\ morselSize = DefaultMorselSize
  /\ morsels = <<>> /\ cursor = 0
  /\ numThreads = 1 /\ pc = [t \in {0} |-> "done"]
  /\ singleTaken = FALSE /\ local = [t \in {0} |-> NoMap] /\ slots = NoSlots
  /\ busy = FALSE /\ whole = TRUE /\ input = <<>> /\ table \in Tables
  /\ finalMap = NoMap /\ nextSlot = 0 /\ result = <<>>

Begin(n) ==
  /\ ~busy
  /\ busy' = TRUE
  /\ result' = <<>>
  /\ finalMap' = NoMap
  /\ nextSlot' = 0
  /\ Fork(n, NoMap)
  /\ UNCHANGED table

CallTable(n, rows) ==
  /\ Begin(n)
  /\ whole' = TRUE
  /\ input' = WholeTable(rows)
  /\ Partition(rows, DefaultMorselSize)

CallSelection(n, selection) ==
  /\ Begin(n)
  /\ whole' = FALSE
  /\ input' = selection
  /\ ShareLoop(Len(selection))

(* One turn of the work loop: a morsel is fetched and its rows are grouped
   in the thread's own map.                                                 *)
Work(t) ==
  /\ At(t, "work")
  /\ IsMorsel(cursor)
  /\ local' = [local EXCEPT ![t] =
       GroupRows(@, MorselAt(cursor).start + 1, MorselAt(cursor).end)]
  /\ FetchAdd
  /\ UNCHANGED <<numThreads, pc, singleTaken, slots, queryVars>>

LeaveLoop(t) ==
  /\ At(t, "work")
  /\ ~IsMorsel(cursor)
  /\ FetchAdd
  /\ GoTo(t, IF whole THEN "publish" ELSE "forEnd")
  /\ UNCHANGED <<numThreads, singleTaken, local, slots, queryVars>>

TeamStep(t) ==
  /\ \/ WinSingle(t)
     \/ SkipSingle(t)
     \/ Resize(t, NoMap)
     \/ PassBarrier(t)
     \/ PassForEnd(t)
     \/ Publish(t, NoMap)
  /\ UNCHANGED <<allocatorVars, queryVars>>

MergeSlot ==
  /\ busy /\ Joined
  /\ nextSlot < numThreads
  /\ finalMap' = MergeMaps(finalMap, slots[nextSlot])
  /\ nextSlot' = nextSlot + 1
  /\ UNCHANGED <<allocatorVars, teamVars, busy, whole, input, table, result>>

Return ==
  /\ busy /\ Joined
  /\ nextSlot = numThreads
  /\ busy' = FALSE
  /\ result' = SortedRows(finalMap)
  /\ finalMap' = NoMap
  /\ Release
  /\ UNCHANGED <<allocatorVars, whole, input, table, nextSlot>>

Next ==
  \/ \E n \in 1 .. MaxThreads, rows \in 0 .. MaxRows : CallTable(n, rows)
  \/ \E n \in 1 .. MaxThreads, s \in Selections : CallSelection(n, s)
  \/ \E t \in 0 .. (MaxThreads - 1) : TeamStep(t) \/ Work(t) \/ LeaveLoop(t)
  \/ MergeSlot
  \/ Return

(* As in OmpFilter: the threads of a region and the caller keep running. *)
Fairness ==
  /\ \A t \in 0 .. (MaxThreads - 1) :
       WF_vars(TeamStep(t) \/ Work(t) \/ LeaveLoop(t))
  /\ WF_vars(MergeSlot \/ Return)

Spec == Init /\ [][Next]_vars /\ Fairness

-----------------------------------------------------------------------------
Metrics == [count : 0 .. MaxRows, sum : [Rows -> 0 .. MaxRows],
            min : -Infinity .. Infinity, max : -Infinity .. Infinity]

IsMap(map) ==
  /\ DOMAIN map \subseteq Categories
  /\ \A c \in DOMAIN map : map[c] \in Metrics

(* The types of the variables. *)
TypeOK ==
  /\ totalRows \in Nat /\ morselSize \in Nat \ {0}
  /\ morsels \in Seq([id : Nat, start : Nat, end : Nat])
  /\ cursor \in 0 .. SizeMod - 1
  /\ numThreads \in 1 .. MaxThreads
  /\ pc \in [Team -> {"single", "resize", "barrier", "work", "forEnd",
                       "publish", "done"}]
  /\ singleTaken \in BOOLEAN /\ busy \in BOOLEAN /\ whole \in BOOLEAN
  /\ DOMAIN local = Team /\ \A t \in Team : IsMap(local[t])
  /\ DOMAIN slots \in {{}, Team} /\ \A t \in DOMAIN slots : IsMap(slots[t])
  /\ input \in Seq(Rows) /\ table \in Tables
  /\ IsMap(finalMap)
  /\ nextSlot \in 0 .. numThreads

(* The slots that are still to be merged. *)
Pending == {t \in DOMAIN slots : t >= nextSlot}

(* The maps that hold groups and have not been merged into another. *)
LiveMaps ==
  {local[t] : t \in Team} \union {slots[t] : t \in Pending} \union {finalMap}

(* How often row r has been counted in category c: in a map, and over all
   the live ones.                                                           *)
CountedIn(map, r, c) == Lookup(map, c).sum[r]

TimesCounted(r, c) ==
  SumFunctionOnSet([t \in Team |-> CountedIn(local[t], r, c)], Team)
    + SumFunctionOnSet([t \in DOMAIN slots |-> CountedIn(slots[t], r, c)], Pending)
    + CountedIn(finalMap, r, c)

(* At every moment of a call each row handed out is counted in the group of
   its own category as often as it occurs in the input, and in no other
   group: nothing is lost or doubled on the way from a thread's map through
   its slot into the final map.                                             *)
RowsGroupedOnce ==
  busy => \A r \in Rows, c \in Categories :
    TimesCounted(r, c) =
      IF c = table.category[r]
      THEN Cardinality({k \in PositionsSeen : input[k] = r})
      ELSE 0

(* A group never disagrees with itself, in whatever map it is and however
   its slot was merged: its count is the number of additions to its sum, it
   is not empty, and its extrema are those of the rows it has counted.       *)
GroupsConsistent ==
  \A map \in LiveMaps : \A c \in DOMAIN map :
    LET prices == {table.price[r] : r \in {q \in Rows : map[c].sum[q] > 0}}
    IN  /\ map[c].count > 0
        /\ map[c].count = SumFunctionOnSet(map[c].sum, Rows)
        /\ map[c].min = Min(prices) /\ map[c].max = Max(prices)

G == INSTANCE GroupAnswer WITH answer <- result

(* The parallel GROUP BY returns the rows the sequential one returns, in
   the same order, and it returns.                                          *)
ImplementsSequentialGroupBy == G!Spec
=============================================================================
