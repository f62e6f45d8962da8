---------------------------- MODULE OmpAggregator ----------------------------
(***************************************************************************)
(* The parallel aggregations of layer 3 (omp_aggregator.cpp), scalar       *)
(* forms.  Each thread of the region accumulates the rows it is given into *)
(* local variables, and then merges them into accumulators that all the    *)
(* threads share, one after the other: count, sum, minimum, maximum.       *)
(* aggregate_price merges all four; sum_price and sum_net_sales only a     *)
(* floating-point sum, sum_quantity only an integral one.                  *)
(***************************************************************************)
EXTENDS WorkSharing, AtomicAccumulator, FiniteSetsExt

CONSTANTS
  MaxThreads,   \* the largest team the runtime may give a region
  MaxRows,      \* bound: rows of a table
  Selections,   \* the selection vectors an aggregation may be given
  PriceColumns, \* the price columns a table may have
  Infinity      \* numeric_limits<double>::infinity()

ASSUME AggregatorAssumption ==
  /\ MaxThreads \in Nat \ {0}
  /\ MaxRows \in 0 .. RowMod - 1
  \* A size counts a morsel or a team beyond the rows of any table.
  /\ MaxRows + DefaultMorselSize <= SizeMod /\ MaxRows + MaxThreads < SizeMod
  \* A filter returns a row of the table at most once.
  /\ \A s \in Selections : s \in Seq(0 .. (MaxRows - 1)) /\ Len(s) <= MaxRows
  /\ Infinity \in Nat
  /\ \A column \in PriceColumns :
       column \in [0 .. (MaxRows - 1) -> (-Infinity + 1) .. (Infinity - 1)]

VARIABLES
  numThreads,   \* omp_get_num_threads()
  pc,           \* pc[t]: where thread t is in the region
  local,        \* local[t]: local_count, local_sum, local_min, local_max
  busy,         \* an aggregation has been called and has not returned
  kind,         \* "price", "sum" or "intSum"
  whole,        \* over the whole table, not over a selection
  input,        \* the rows, in order
  price,        \* the price column
  result        \* res, once the call has returned

queryVars == <<busy, kind, whole, input, price, result>>
vars == <<allocatorVars, accumulatorVars, numThreads, pc, local, queryVars>>

Rows == 0 .. (MaxRows - 1)
Team == 0 .. (numThreads - 1)

(* A sum, by what was added: row r was added sum[r] times. *)
Zero == [r \in Rows |-> 0]
Plus(s, u) == [r \in Rows |-> s[r] + u[r]]

(* The initial values of the accumulators, and of the locals. *)
Fresh == [count |-> 0, sum |-> Zero, min |-> Infinity, max |-> -Infinity]

Nothing == [count |-> 0, sum |-> Zero, min |-> 0, max |-> 0]

Loops == {"sum", "min", "max"}

-----------------------------------------------------------------------------
Init ==
  /\ totalRows = 0 /\ morselSize = DefaultMorselSize
  /\ morsels = <<>> /\ cursor = 0
  /\ acc = Fresh /\ cur = [t \in {0} |-> None]
  /\ numThreads = 1 /\ pc = [t \in {0} |-> "done"] /\ local = [t \in {0} |-> Fresh]
  /\ busy = FALSE /\ kind = "sum" /\ whole = TRUE
  /\ input = <<>> /\ price = Zero /\ result = Nothing

Begin(n) ==
  /\ ~busy
  /\ busy' = TRUE
  /\ kind' \in {"price", "sum", "intSum"}
  /\ price' \in PriceColumns
  /\ result' = Nothing
  /\ acc' = Fresh
  /\ numThreads' = n
  /\ pc' = [t \in 0 .. (n - 1) |-> "work"]
  /\ local' = [t \in 0 .. (n - 1) |-> Fresh]
  /\ cur' = [t \in 0 .. (n - 1) |-> None]

CallTable(n, rows) ==
  /\ Begin(n)
  /\ whole' = TRUE
  /\ input' = WholeTable(rows)
  /\ Partition(rows, DefaultMorselSize)

CallSelection(n, selection) ==
  /\ Begin(n)
  /\ whole' = FALSE
  /\ input' = selection
  /\ ShareLoop(Len(selection))

At(t, label) == t \in Team /\ pc[t] = label

GoTo(t, label) == pc' = [pc EXCEPT ![t] = label]

(* The locals after the loop body has run for the positions of m. *)
Accumulated(l, m) ==
  LET here == PositionsOf(m)
      prices == {price[input[k]] : k \in here}
  IN  [count |-> l.count + Cardinality(here),
       sum |-> [r \in Rows |-> l.sum[r] + Cardinality({k \in here : input[k] = r})],
       min |-> CHOOSE p \in prices \union {l.min} :
                 \A q \in prices \union {l.min} : p <= q,
       max |-> CHOOSE p \in prices \union {l.max} :
                 \A q \in prices \union {l.max} : p >= q]

(* One turn of the work loop.  Only the fetch_add touches shared state that
   changes; the rest reads the table and writes the thread's own variables. *)
Work(t) ==
  /\ At(t, "work")
  /\ IsMorsel(cursor)
  /\ local' = [local EXCEPT ![t] = Accumulated(@, MorselAt(cursor))]
  /\ FetchAdd
  /\ UNCHANGED <<accumulatorVars, numThreads, pc, queryVars>>

(* The first accumulator a thread merges into. *)
FirstMerge == IF kind = "price" THEN "count" ELSE kind

LeaveLoop(t) ==
  /\ At(t, "work")
  /\ ~IsMorsel(cursor)
  /\ FetchAdd
  /\ GoTo(t, IF whole THEN FirstMerge ELSE "forEnd")
  /\ UNCHANGED <<accumulatorVars, numThreads, local, queryVars>>

(* The implicit barrier at the end of the "omp for". *)
PassForEnd(t) ==
  /\ At(t, "forEnd")
  /\ \A u \in Team : pc[u] # "work"
  /\ GoTo(t, FirstMerge)
  /\ UNCHANGED <<allocatorVars, accumulatorVars, numThreads, local, queryVars>>

(* A variant with a bug: the count is off by one for each thread. *)
BugCountOne(t) ==
  /\ At(t, "count")
  /\ AddIntegral("count", acc.count + local[t].count + 1)
  /\ GoTo(t, "sum")
  /\ UNCHANGED <<allocatorVars, numThreads, local, queryVars>>

(* total_count.add(local_count): a fetch_add. *)
AddCount(t) ==
  /\ At(t, "count")
  /\ AddIntegral("count", acc.count + local[t].count)
  /\ GoTo(t, "sum")
  /\ UNCHANGED <<allocatorVars, numThreads, local, queryVars>>

(* sum_quantity: global_sum.add(local_sum), a fetch_add as well. *)
AddQuantity(t) ==
  /\ At(t, "intSum")
  /\ AddIntegral("sum", Plus(acc.sum, local[t].sum))
  /\ GoTo(t, "done")
  /\ UNCHANGED <<allocatorVars, numThreads, local, queryVars>>

(* Where the statement after the merge into a is. *)
After(a) ==
  CASE a = "sum" -> IF kind = "price" THEN "min" ELSE "done"
    [] a = "min" -> "max"
    [] a = "max" -> "done"

(* The condition the loop tests before it tries its compare-and-swap. *)
GoesOn(t, a) ==
  CASE a = "sum" -> TRUE
    [] a = "min" -> local[t].min < cur[t]
    [] a = "max" -> local[t].max > cur[t]

(* The value the compare-and-swap would store. *)
Desired(t, a) == IF a = "sum" THEN Plus(cur[t], local[t].sum) ELSE local[t][a]

(* load(): the loop of add, update_min or update_max on a begins. *)
LoadCurrent(t, a) ==
  /\ At(t, a)
  /\ Load(t, a)
  /\ UNCHANGED <<allocatorVars, numThreads, pc, local, queryVars>>

Exchange(t, a) ==
  /\ At(t, a)
  /\ cur[t] # None /\ GoesOn(t, a)
  /\ CasSucceeds(t, a, Desired(t, a))
  /\ GoTo(t, After(a))
  /\ UNCHANGED <<allocatorVars, numThreads, local, queryVars>>

(* A variant with a bug: an "if" for the "while", a failure is not retried. *)
BugGiveUp(t, a) ==
  /\ At(t, a)
  /\ cur[t] # None /\ acc[a] # cur[t]
  /\ StopLoop(t)
  /\ GoTo(t, After(a))
  /\ UNCHANGED <<allocatorVars, numThreads, local, queryVars>>

Retry(t, a) ==
  /\ At(t, a)
  /\ cur[t] # None /\ GoesOn(t, a)
  /\ CasFails(t, a)
  /\ UNCHANGED <<allocatorVars, numThreads, pc, local, queryVars>>

NoImprovement(t, a) ==
  /\ At(t, a)
  /\ cur[t] # None
  /\ ~GoesOn(t, a)
  /\ StopLoop(t)
  /\ GoTo(t, After(a))
  /\ UNCHANGED <<allocatorVars, numThreads, local, queryVars>>

Step(t) ==
  \/ Work(t) \/ LeaveLoop(t) \/ PassForEnd(t)
  \/ AddCount(t) \/ AddQuantity(t)
  \/ \E a \in Loops :
       LoadCurrent(t, a) \/ Exchange(t, a) \/ Retry(t, a) \/ NoImprovement(t, a)

(* A variant with a bug: the result is read before the region has joined. *)
BugEarlyReturn ==
  /\ busy
  /\ \E t \in Team : pc[t] = "done"
  /\ busy' = FALSE
  /\ result' = acc
  /\ UNCHANGED <<allocatorVars, accumulatorVars, numThreads, pc, local,
                 kind, whole, input, price>>

(* After the join the accumulators are loaded into the result; they and the
   threads' locals go out of scope.                                         *)
Return ==
  /\ busy
  /\ \A t \in Team : pc[t] = "done"
  /\ busy' = FALSE
  /\ result' = acc
  /\ acc' = Fresh
  /\ local' = [t \in Team |-> Fresh]
  /\ UNCHANGED <<allocatorVars, cur, numThreads, pc, kind, whole, input, price>>

Next ==
  \/ \E n \in 1 .. MaxThreads, rows \in 0 .. MaxRows : CallTable(n, rows)
  \/ \E n \in 1 .. MaxThreads, s \in Selections : CallSelection(n, s)
  \/ \E t \in 0 .. (MaxThreads - 1) : Step(t)
  \/ Return

(* The threads of a region keep running, and so does the caller's thread
   after the join; nothing obliges the program to call an aggregation.      *)
Fairness ==
  /\ \A t \in 0 .. (MaxThreads - 1) : WF_vars(Step(t))
  /\ WF_vars(Return)

Spec == Init /\ [][Next]_vars /\ Fairness

-----------------------------------------------------------------------------
Sums == [Rows -> 0 .. MaxRows]
Extrema == -Infinity .. Infinity
Partial == [count : 0 .. MaxRows, sum : Sums, min : Extrema, max : Extrema]

(* The types of the variables. *)
TypeOK ==
  /\ totalRows \in Nat /\ morselSize \in Nat \ {0}
  /\ morsels \in Seq([id : Nat, start : Nat, end : Nat])
  /\ cursor \in 0 .. SizeMod - 1
  /\ numThreads \in 1 .. MaxThreads
  /\ pc \in [Team -> {"work", "forEnd", "count", "intSum", "done"} \union Loops]
  /\ local \in [Team -> Partial]
  /\ acc \in Partial
  /\ DOMAIN cur = Team
  /\ \A t \in Team : cur[t] # None =>
        /\ pc[t] \in Loops
        /\ cur[t] \in IF pc[t] = "sum" THEN Sums ELSE Extrema
  /\ busy \in BOOLEAN /\ kind \in {"price", "sum", "intSum"} /\ whole \in BOOLEAN
  /\ input \in Seq(Rows)

NotMerged == {t \in Team : pc[t] \in {"work", "forEnd", "count", "sum", "intSum"}}

(* At every moment of a call each row handed out is in the shared sum or in
   the local sum of one thread that has not added it yet, exactly as often
   as it occurs in the input: no update of the accumulator is lost to a
   concurrent one, however the compare-and-swaps interleave.                *)
SumConserved ==
  busy => \A r \in Rows :
    acc.sum[r] + SumFunctionOnSet([t \in Team |-> local[t].sum[r]], NotMerged)
      = Cardinality({k \in PositionsSeen : input[k] = r})

(* The shared minimum and maximum are at every moment those of the threads
   that have finished their update: no update is overwritten by a worse one
   and a thread that gives up without storing has nothing to add.           *)
ExtremaTrack ==
  busy /\ kind = "price" =>
    /\ acc.min = Min({Infinity} \union
                     {local[t].min : t \in {u \in Team : pc[u] \in {"max", "done"}}})
    /\ acc.max = Max({-Infinity} \union
                     {local[t].max : t \in {u \in Team : pc[u] = "done"}})

A == INSTANCE AggregateAnswer WITH answer <- result

(* The parallel aggregation returns what the sequential one returns: the
   same count, the same additions, and on a non-empty input the same minimum
   and maximum; and it returns.                                             *)
ImplementsSequentialAggregate == A!Spec
=============================================================================
