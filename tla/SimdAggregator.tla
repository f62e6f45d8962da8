---------------------------- MODULE SimdAggregator ----------------------------
(***************************************************************************)
(* The vectorized aggregations of layer 3 (omp_aggregator.cpp,             *)
(* aggregate_price_simd and sum_net_sales_simd).  The rows are divided     *)
(* into blocks of one vector; a thread adds its blocks lane by lane into   *)
(* vectors of its own and the rows of the incomplete last block into       *)
(* scalars, reduces the vectors to scalars after the loop, and merges      *)
(* these into the shared accumulators.                                     *)
(*                                                                         *)
(* A merge is one step here; that the compare-and-swap loops behind it     *)
(* lose nothing is what OmpAggregator shows.  A sum is represented by how  *)
(* often each row went into it, as in AggregateAnswer.                     *)
(***************************************************************************)
EXTENDS Integers, Sequences, FiniteSets, FiniteSetsExt

CONSTANTS
  Archs,        \* the architectures the engine is built for
  MaxThreads,   \* the largest team the runtime may give a region
  MaxRows,      \* bound: rows of a table
  Totals,       \* the row counts of the tables
  Selections,   \* the selection vectors an aggregation may be given
  PriceColumns, \* the price columns a table may have
  Infinity      \* numeric_limits<float>::infinity()

ASSUME SimdAssumption ==
  /\ Archs \subseteq {"AVX2", "NEON"}
  /\ MaxThreads \in Nat \ {0}
  /\ MaxRows \in Nat /\ Totals \subseteq 0 .. MaxRows
  \* A filter returns a row of the table at most once.
  /\ \A s \in Selections : s \in Seq(0 .. (MaxRows - 1)) /\ Len(s) <= MaxRows
  /\ Infinity \in Nat
  /\ \A column \in PriceColumns :
       column \in [0 .. (MaxRows - 1) -> (-Infinity + 1) .. (Infinity - 1)]

VARIABLES
  arch,         \* which of the #ifdef branches was compiled
  numThreads,   \* omp_get_num_threads()
  pc,           \* pc[t]: where thread t is in the region
  next,         \* next[t]: the block of t's next turn of the loop
  cut,          \* the static schedule: t's blocks are cut[t] .. cut[t+1]-1
  local,        \* local[t]: local_count, local_sum, local_min, local_max
  vec,          \* vec[t]: v_sum, v_min, v_max, each by lane
  acc,          \* the shared accumulators
  busy,         \* an aggregation has been called and has not returned
  kind,         \* "price", or "sum" for sum_net_sales_simd
  input,        \* the rows, in order
  price,        \* the price column
  result        \* res, once the call has returned

threadVars == <<numThreads, pc, next, cut, local, vec, acc>>
queryVars == <<busy, kind, input, price, result>>
vars == <<arch, threadVars, queryVars>>

Rows == 0 .. (MaxRows - 1)
Team == 0 .. (numThreads - 1)

Width == IF arch = "AVX2" THEN 8 ELSE 4
Lanes == 0 .. (Width - 1)

Zero == [r \in Rows |-> 0]
One(r) == [Zero EXCEPT ![r] = 1]
Plus(s, u) == [r \in Rows |-> s[r] + u[r]]

(* The accumulator, the vector or the scalar "field" with y added to x. *)
Combined(field, x, y) ==
  CASE field = "count" -> x + y
    [] field = "sum" -> Plus(x, y)
    [] field = "min" -> IF y < x THEN y ELSE x
    [] field = "max" -> IF y > x THEN y ELSE x

Fresh == [count |-> 0, sum |-> Zero, min |-> Infinity, max |-> -Infinity]

FreshVec ==
  [sum |-> [l \in Lanes |-> Zero], min |-> [l \in Lanes |-> Infinity],
   max |-> [l \in Lanes |-> -Infinity]]

Nothing == [count |-> 0, sum |-> Zero, min |-> 0, max |-> 0]

-----------------------------------------------------------------------------
(* The horizontal reductions.  On AVX2 the upper four lanes are combined
   with the lower four, and these with their odd neighbours: lane 0 then
   stands for lanes 0, 1, 4 and 5 of v, and lane 2 for the others.          *)
Halved(field, v) ==
  LET low == [l \in 0 .. 3 |-> Combined(field, v[l], v[l + 4])]
      dup == [l \in 0 .. 3 |-> low[2 * (l \div 2) + 1]]      \* movehdup
  IN  [l \in 0 .. 3 |-> Combined(field, low[l], dup[l])]

OnNeon(field, v) ==
  Combined(field, Combined(field, v[0], v[1]), Combined(field, v[2], v[3]))

(* Lane 2 is combined into lane 0 and lane 0 is returned. *)
Reduced(field, v) ==
  IF arch = "AVX2"
  THEN Combined(field, Halved(field, v)[0], Halved(field, v)[2])
  ELSE OnNeon(field, v)

(* A variant with a bug: the upper half is not added. *)
BugLowerHalf(v) == IF arch = "AVX2" THEN Halved("sum", v)[0] ELSE OnNeon("sum", v)

HSum(v) == Reduced("sum", v)

(* A variant with a bug: the last instruction of the reduction is missing. *)
BugNoLastMin(v) ==
  IF arch = "AVX2" THEN Halved("min", v)[0] ELSE OnNeon("min", v)

HMin(v) == Reduced("min", v)

(* hmax_ps on AVX2 returns lane 0 without combining lane 2 into it. *)
HMax(v) == IF arch = "AVX2" THEN Halved("max", v)[0] ELSE OnNeon("max", v)

-----------------------------------------------------------------------------
(* A variant with a bug: the rows after the last whole vector are left out. *)
BugNoRemainder(n) == n \div Width

(* The turns of the loop over n rows. *)
BlockCount(n) == (n + Width - 1) \div Width

Init ==
  /\ arch \in Archs
  /\ numThreads = 1 /\ pc = [t \in {0} |-> "done"]
  /\ next = [t \in {0} |-> 0] /\ cut = [t \in 0 .. 1 |-> 0]
  /\ local = [t \in {0} |-> Fresh] /\ vec = [t \in {0} |-> FreshVec] /\ acc = Fresh
  /\ busy = FALSE /\ kind = "sum" /\ input = <<>> /\ price = Zero
  /\ result = Nothing

(* The static schedule gives each thread one run of blocks, in the order of
   the threads; how long the runs are is up to the runtime.                 *)
Schedules(n, blocks) ==
  {c \in [0 .. n -> 0 .. blocks] :
     c[0] = 0 /\ c[n] = blocks /\ \A t \in 0 .. (n - 1) : c[t] <= c[t + 1]}

Call(n, rows) ==
  /\ ~busy
  /\ busy' = TRUE
  /\ kind' \in {"price", "sum"}
  /\ price' \in PriceColumns
  /\ input' = rows
  /\ result' = Nothing
  /\ acc' = Fresh
  /\ numThreads' = n
  /\ pc' = [t \in 0 .. (n - 1) |-> "work"]
  /\ local' = [t \in 0 .. (n - 1) |-> Fresh]
  /\ vec' = [t \in 0 .. (n - 1) |-> FreshVec]
  /\ cut' \in Schedules(n, BlockCount(Len(rows)))
  /\ next' = [t \in 0 .. (n - 1) |-> cut'[t]]
  /\ UNCHANGED arch

CallTable(n, total) == Call(n, [k \in 1 .. total |-> k - 1])

CallSelection(n, selection) == Call(n, selection)

At(t, label) == t \in Team /\ pc[t] = label

GoTo(t, label) == pc' = [pc EXCEPT ![t] = label]

(* i + 8 <= total_rows for the block that begins at i = 8b *)
IsWhole(b) == (b + 1) * Width <= Len(input)

(* The row in lane l of block b: loaded, or gathered through the selection. *)
RowOf(b, l) == input[b * Width + l + 1]

(* A turn of the loop on a whole block. *)
VectorTurn(t) ==
  /\ At(t, "work")
  /\ next[t] < cut[t + 1] /\ IsWhole(next[t])
  /\ LET row(l) == RowOf(next[t], l)
     IN  vec' = [vec EXCEPT ![t] =
                  [sum |-> [l \in Lanes |-> Plus(@.sum[l], One(row(l)))],
                   min |-> [l \in Lanes |-> Combined("min", @.min[l], price[row(l)])],
                   max |-> [l \in Lanes |-> Combined("max", @.max[l], price[row(l)])]]]
  /\ local' = [local EXCEPT ![t].count = @ + Width]
  /\ next' = [next EXCEPT ![t] = @ + 1]
  /\ UNCHANGED <<arch, numThreads, pc, cut, acc, queryVars>>

(* The positions of the rows after the last whole block. *)
RestOf(b) == (b * Width + 1) .. Len(input)

(* The scalars l after the loop over the rest has run. *)
WithRest(l, rest) ==
  LET prices == {price[input[k]] : k \in rest}
  IN  [count |-> l.count + Cardinality(rest),
       sum |-> [r \in Rows |-> l.sum[r] + Cardinality({k \in rest : input[k] = r})],
       min |-> Min(prices \union {l.min}),
       max |-> Max(prices \union {l.max})]

(* A variant with a bug: the rest is counted as a whole vector. *)
BugCountVector(t) ==
  /\ At(t, "work")
  /\ next[t] < cut[t + 1] /\ ~IsWhole(next[t])
  /\ local' = [local EXCEPT ![t] =
                [WithRest(@, RestOf(next[t])) EXCEPT !.count = local[t].count + Width]]
  /\ next' = [next EXCEPT ![t] = @ + 1]
  /\ UNCHANGED <<arch, numThreads, pc, cut, vec, acc, queryVars>>

(* The turn on the incomplete block. *)
ScalarTurn(t) ==
  /\ At(t, "work")
  /\ next[t] < cut[t + 1] /\ ~IsWhole(next[t])
  /\ local' = [local EXCEPT ![t] = WithRest(@, RestOf(next[t]))]
  /\ next' = [next EXCEPT ![t] = @ + 1]
  /\ UNCHANGED <<arch, numThreads, pc, cut, vec, acc, queryVars>>

LeaveLoop(t) ==
  /\ At(t, "work")
  /\ next[t] = cut[t + 1]
  /\ GoTo(t, "forEnd")
  /\ UNCHANGED <<arch, numThreads, next, cut, local, vec, acc, queryVars>>

(* After the barrier at the end of the "omp for" the vectors are reduced
   into the scalars; sum_net_sales_simd has only the sum, and nobody looks
   at its other two.                                                        *)
ReduceVectors(t) ==
  /\ At(t, "forEnd")
  /\ \A u \in Team : pc[u] # "work"
  /\ local' = [local EXCEPT ![t] =
                [count |-> @.count,
                 sum |-> Plus(@.sum, HSum(vec[t].sum)),
                 min |-> Combined("min", @.min, HMin(vec[t].min)),
                 max |-> Combined("max", @.max, HMax(vec[t].max))]]
  /\ vec' = [vec EXCEPT ![t] = FreshVec]
  /\ GoTo(t, IF kind = "price" THEN "count" ELSE "sum")
  /\ UNCHANGED <<arch, numThreads, next, cut, acc, queryVars>>

After(a) ==
  CASE a = "count" -> "sum"
    [] a = "sum" -> IF kind = "price" THEN "min" ELSE "done"
    [] a = "min" -> "max"
    [] a = "max" -> "done"

Merge(t, a) ==
  /\ At(t, a)
  /\ acc' = [acc EXCEPT ![a] = Combined(a, @, local[t][a])]
  /\ GoTo(t, After(a))
  /\ UNCHANGED <<arch, numThreads, next, cut, local, vec, queryVars>>

Step(t) ==
  \/ VectorTurn(t) \/ ScalarTurn(t) \/ LeaveLoop(t) \/ ReduceVectors(t)
  \/ \E a \in {"count", "sum", "min", "max"} : Merge(t, a)

(* After the join the accumulators are loaded into the result; they and the
   threads' locals go out of scope.                                         *)
Return ==
  /\ busy
  /\ \A t \in Team : pc[t] = "done"
  /\ busy' = FALSE
  /\ result' = acc
  /\ acc' = Fresh
  /\ local' = [t \in Team |-> Fresh]
  /\ UNCHANGED <<arch, numThreads, pc, next, cut, vec, kind, input, price>>

Next ==
  \/ \E n \in 1 .. MaxThreads, total \in Totals : CallTable(n, total)
  \/ \E n \in 1 .. MaxThreads, s \in Selections : CallSelection(n, s)
  \/ \E t \in 0 .. (MaxThreads - 1) : Step(t)
  \/ Return

(* As in OmpAggregator: a call that has begun keeps running. *)
Fairness ==
  /\ \A t \in 0 .. (MaxThreads - 1) : WF_vars(Step(t))
  /\ WF_vars(Return)

Spec == Init /\ [][Next]_vars /\ Fairness

-----------------------------------------------------------------------------
Sums == [Rows -> 0 .. MaxRows]
Extrema == -Infinity .. Infinity
Partial == [count : 0 .. MaxRows, sum : Sums, min : Extrema, max : Extrema]
Vectors ==
  [sum : [Lanes -> Sums], min : [Lanes -> Extrema], max : [Lanes -> Extrema]]

(* The types of the variables; each thread's turn is within its run. *)
TypeOK ==
  /\ arch \in Archs
  /\ numThreads \in 1 .. MaxThreads
  /\ pc \in [Team -> {"work", "forEnd", "count", "sum", "min", "max", "done"}]
  /\ cut \in Schedules(numThreads, BlockCount(Len(input)))
  /\ next \in [Team -> Nat] /\ \A t \in Team : next[t] \in cut[t] .. cut[t + 1]
  /\ local \in [Team -> Partial] /\ vec \in [Team -> Vectors]
  /\ acc \in Partial
  /\ busy \in BOOLEAN /\ kind \in {"price", "sum"} /\ input \in Seq(Rows)

(* The positions of the input whose turn has been taken. *)
PositionsSeen ==
  {k \in DOMAIN input :
     \E t \in Team : (k - 1) \div Width \in cut[t] .. (next[t] - 1)}

(* How often row r is in what thread t has not merged. *)
Held(t, r) ==
  local[t].sum[r] + SumFunctionOnSet([l \in Lanes |-> vec[t].sum[l][r]], Lanes)

(* Every row of every turn is, as often as it was met, in exactly one place:
   a lane, a thread's scalar or the shared sum.  The reductions neither drop
   a lane nor add one twice, and no rest is added with a vector as well.    *)
SumConserved ==
  busy => \A r \in Rows :
    acc.sum[r] + SumFunctionOnSet([t \in Team |-> Held(t, r)],
                   {t \in Team : pc[t] \in {"work", "forEnd", "count", "sum"}})
      = Cardinality({k \in PositionsSeen : input[k] = r})

(* The minimum of the rows met so far is among the shared minimum and what
   the threads hold: no lane is lost on the way to the accumulator.         *)
MinimumTracked ==
  busy /\ kind = "price" =>
    Min({acc.min} \union {local[t].min : t \in Team}
          \union UNION {{vec[t].min[l] : l \in Lanes} : t \in Team})
      = Min({Infinity} \union {price[input[k]] : k \in PositionsSeen})

A == INSTANCE AggregateAnswer WITH answer <- result

(* The vectorized aggregations return the sequential sum, count and minimum,
   on NEON the maximum as well, and every call returns.                     *)
ImplementsSequentialSimd ==
  /\ [][busy /\ ~busy' =>
          /\ A!SumAgrees
          /\ kind = "price" =>
               /\ A!CountAgrees
               /\ input # <<>> => A!MinAgrees /\ (arch = "NEON" => A!MaxAgrees)]_vars
  /\ A!Returns

(* The maximum is the sequential one.  The header says of aggregate_price,
   for which aggregate_price_simd stands: "Comprehensive single-pass Price
   aggregation: COUNT, SUM, AVG, MIN, MAX", omp_aggregator.hpp:30.          *)
MaximumIsLargest ==
  [][busy /\ ~busy' /\ kind = "price" /\ input # <<>> => A!MaxAgrees]_vars
===============================================================================
