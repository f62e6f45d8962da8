-------------------------- MODULE OmpAggregatorProofs --------------------------
(***************************************************************************)
(* Safety of the scalar parallel aggregations, and that they implement the *)
(* sequential ones step by step, for every team, table, selection, column  *)
(* of prices, size of the morsels and width of the types that satisfy the  *)
(* assumptions of OmpAggregator.                                           *)
(***************************************************************************)
EXTENDS OmpAggregator, CommonLemmas

(***************************************************************************)
(* The inductive invariant.  The types are not inductive by themselves: a  *)
(* sum stays below its bound because it is a part of what has been handed  *)
(* out, so they rest on SumConserved and on its twin for the counts, and   *)
(* these on the morsels dividing the input and the cursor not wrapping.    *)
(* ExtremaTrack survives a thread that gives up without storing only       *)
(* because the value it has loaded, however stale, is no better than the   *)
(* shared one (StaleIsWorse).                                              *)
(***************************************************************************)
Gone == {t \in Team : pc[t] # "work"}

WorkShared ==
  /\ totalRows = Len(input) /\ totalRows <= MaxRows
  /\ Divided(totalRows, morsels)
  /\ cursor <= Len(morsels) + Cardinality(Gone)
  /\ \A t \in Team : pc[t] # "work" => ~IsMorsel(cursor)

Labels ==
  /\ busy => price \in PriceColumns
  /\ ~busy => \A t \in Team : pc[t] = "done"
  /\ \A t \in Team : pc[t] \in {"count", "min", "max"} => kind = "price"
  /\ \A t \in Team : pc[t] = "intSum" => kind # "price"

StaleIsWorse ==
  \A t \in Team : cur[t] # None =>
    /\ pc[t] = "min" => acc.min <= cur[t]
    /\ pc[t] = "max" => acc.max >= cur[t]

(* SumConserved, for the counts. *)
NotCounted ==
  {t \in Team : kind = "price" => pc[t] \in {"work", "forEnd", "count"}}

CountConserved ==
  busy =>
    acc.count + SumFunctionOnSet([t \in Team |-> local[t].count], NotCounted)
      = Cardinality(PositionsSeen)

(* ExtremaTrack, without the choice in Min and Max. *)
MinOffered == {Infinity} \union {local[t].min : t \in {u \in Team : pc[u] \in {"max", "done"}}}
MaxOffered == {-Infinity} \union {local[t].max : t \in {u \in Team : pc[u] = "done"}}

ExtremaMerged ==
  busy /\ kind = "price" =>
    IsLeast(acc.min, MinOffered) /\ IsGreatest(acc.max, MaxOffered)

(* The local extrema are those of the prices handed out. *)
PricesMet ==
  busy =>
    /\ \A t \in Team :
         /\ local[t].min = Infinity \/ \E k \in PositionsSeen : local[t].min = price[input[k]]
         /\ local[t].max = -Infinity \/ \E k \in PositionsSeen : local[t].max = price[input[k]]
    /\ \A k \in PositionsSeen :
         /\ \E t \in Team : local[t].min <= price[input[k]]
         /\ \E t \in Team : local[t].max >= price[input[k]]

IInv ==
  /\ TypeOK /\ WorkShared /\ Labels /\ StaleIsWorse
  /\ SumConserved /\ CountConserved /\ ExtremaMerged /\ PricesMet

-----------------------------------------------------------------------------
(* partition() tiles the table. *)
LEMMA TableTiled ==
  ASSUME NEW n \in 0 .. MaxRows
  PROVE  Tiled(n, EffectiveSize(DefaultMorselSize),
               IF n = 0 THEN <<>> ELSE Cut(n, EffectiveSize(DefaultMorselSize)))
  <1>1. /\ EffectiveSize(DefaultMorselSize) = DefaultMorselSize
        /\ DefaultMorselSize \in Nat \ {0} /\ n \in Nat /\ n < RowMod
        /\ n + DefaultMorselSize - 1 < SizeMod
    BY MorselAssumption, AggregatorAssumption, WidthAssumption DEF EffectiveSize
  <1>2. Tiled(n, DefaultMorselSize, Cut(n, DefaultMorselSize))
    BY ONLY <1>1, WidthAssumption, CutTiled, Zenon
       DEF Cut, MorselCount, StartRow, EndRow, NarrowStart, NarrowEnd
  <1> QED BY <1>1, <1>2, EmptyTiled

(* The dynamic loop divides the selection, in whatever order the chunks come. *)
LEMMA LoopDivided ==
  ASSUME NEW n \in Nat, ShareLoop(n)
  PROVE  /\ Divided(n, morsels') /\ totalRows' = n /\ cursor' = 0
         /\ morselSize' \in Nat \ {0}
  <1> DEFINE c == Chunks(n)
  <1>1. Tiled(n, ChunkSize, c) /\ ChunkSize \in Nat \ {0}
    BY ONLY n \in Nat, ChunkAssumption, ChunksTiled, Zenon DEF Chunks
  <1> HIDE DEF c
  <1>2. Divided(n, c)
    BY ONLY n \in Nat, <1>1, TiledDivided
  <1>3. DOMAIN c = 1 .. Len(c)
    BY <1>2, DividedTyped
  <1>4. PICK order \in Bijection(1 .. Len(c), 1 .. Len(c)) :
          morsels' = [k \in 1 .. Len(c) |-> c[order[k]]]
    BY <1>3 DEF ShareLoop, c
  <1>5. Divided(n, morsels')
    BY <1>2, <1>4, ReorderedDivided
  <1> QED BY <1>1, <1>5 DEF ShareLoop

LEMMA SeenIsBehind == PositionsSeen = Behind(morsels, cursor)
  BY DEF PositionsSeen, IsMorsel, MorselAt, PositionsOf, Behind, Positions

(* What has been handed out are positions of the input. *)
LEMMA SeenBounded ==
  ASSUME TypeOK, WorkShared
  PROVE  /\ PositionsSeen \subseteq DOMAIN input
         /\ IsFiniteSet(PositionsSeen)
         /\ Cardinality(PositionsSeen) \in Nat
         /\ Cardinality(PositionsSeen) <= MaxRows
         /\ \A k \in DOMAIN input : input[k] \in Rows
  <1>1. /\ Len(input) \in Nat /\ DOMAIN input = 1 .. Len(input) /\ cursor \in Nat
        /\ \A k \in DOMAIN input : input[k] \in Rows
    BY DEF TypeOK
  <1>2. /\ Divided(Len(input), morsels)
        /\ Len(input) <= MaxRows /\ MaxRows \in Nat
    BY AggregatorAssumption DEF TypeOK, WorkShared
  <1> DEFINE n == Len(input)
             c == Cardinality(Behind(morsels, cursor))
  <1>3. /\ Behind(morsels, cursor) \subseteq 1 .. n
        /\ IsFiniteSet(Behind(morsels, cursor)) /\ c \in Nat /\ c <= n
    BY <1>1, <1>2, BehindBounds
  <1>4. n \in Nat /\ n <= MaxRows /\ MaxRows \in Nat
    BY <1>1, <1>2
  <1> HIDE DEF n, c
  <1>5. c <= MaxRows
    BY <1>3, <1>4
  <1> QED BY <1>1, <1>3, <1>5, SeenIsBehind DEF n, c

LEMMA FreshTyped ==
  Fresh \in Partial /\ Zero \in Sums /\ MaxRows \in Nat /\ Infinity \in Extrema /\ -Infinity \in Extrema
  <1>1. MaxRows \in Nat /\ Infinity \in Nat
    BY AggregatorAssumption
  <1>2. Zero \in Sums
    BY <1>1 DEF Zero, Sums
  <1>3. Infinity \in Extrema /\ -Infinity \in Extrema
    BY <1>1 DEF Extrema
  <1> QED BY <1>1, <1>2, <1>3 DEF Fresh, Partial

LEMMA InitIInv == Init => IInv
  <1> SUFFICES ASSUME Init PROVE IInv
    OBVIOUS
  <1>1. Team = {0} /\ MaxRows \in Nat
    BY AggregatorAssumption DEF Init, Team
  <1>2. TypeOK
    <2>1. /\ morsels \in Seq([id : Nat, start : Nat, end : Nat]) /\ input \in Seq(Rows)
          /\ cursor \in 0 .. SizeMod - 1 /\ morselSize \in Nat \ {0} /\ totalRows \in Nat
      BY WidthAssumption, MorselAssumption DEF Init
    <2>2. local \in [Team -> Partial] /\ acc \in Partial
      BY <1>1, FreshTyped DEF Init
    <2>3. numThreads \in 1 .. MaxThreads
      BY AggregatorAssumption DEF Init
    <2>4. /\ pc \in [Team -> {"work", "forEnd", "count", "intSum", "done"} \union Loops]
          /\ DOMAIN cur = Team /\ \A t \in Team : cur[t] = None
      BY <1>1 DEF Init
    <2> QED BY <2>1, <2>2, <2>3, <2>4 DEF Init, TypeOK
  <1>3. WorkShared
    <2>1. Gone \in SUBSET (0 .. (1 - 1)) /\ Cardinality(Gone) \in Nat
      BY <1>1, TeamPart DEF Gone
    <2>2. Divided(0, <<>>)
      BY EmptyTiled, TiledDivided
    <2> QED BY <1>1, <2>1, <2>2 DEF Init, WorkShared, IsMorsel
  <1>4. Labels /\ StaleIsWorse
    BY <1>1 DEF Init, Labels, StaleIsWorse
  <1> QED BY <1>2, <1>3, <1>4
          DEF Init, IInv, SumConserved, CountConserved, ExtremaMerged, PricesMet

(* A call begins with nothing handed out and the accumulators fresh. *)
LEMMA BeginIInv ==
  ASSUME TypeOK, NEW n \in 1 .. MaxThreads, Begin(n), cursor' = 0,
         input' \in Seq(Rows), Len(input') <= MaxRows, totalRows' = Len(input'),
         morselSize' \in Nat \ {0}, Divided(totalRows', morsels'),
         whole' \in BOOLEAN
  PROVE  IInv'
  <1>1. /\ n \in Nat /\ Team' = 0 .. (n - 1) /\ numThreads' = n
        /\ DOMAIN cur' = Team' /\ DOMAIN local' = Team'
        /\ \A t \in Team' : local'[t] = Fresh /\ cur'[t] = None /\ pc'[t] = "work"
        /\ acc' = Fresh /\ MaxThreads \in Nat
    BY AggregatorAssumption DEF Begin, Team
  <1>2. /\ Len(input') \in Nat /\ Len(morsels') \in Nat
        /\ morsels' \in Seq([id : Nat, start : 0 .. totalRows', end : 0 .. totalRows'])
    BY DEF Divided
  <1>3. TypeOK'
    <2>1. morsels' \in Seq([id : Nat, start : Nat, end : Nat])
      BY <1>2, TiledNat
    <2>2. local' \in [Team' -> Partial] /\ acc' \in Partial
      BY <1>1, FreshTyped DEF Begin
    <2>3. pc' \in [Team' -> {"work", "forEnd", "count", "intSum", "done"} \union Loops]
      BY <1>1 DEF Begin
    <2> QED BY <1>1, <1>2, <2>1, <2>2, <2>3, WidthAssumption DEF Begin, TypeOK
  <1>4. WorkShared'
    <2>1. Gone' = {} /\ Cardinality(Gone') = 0
      BY <1>1, FS_EmptySet DEF Gone
    <2> QED BY <1>1, <1>2, <2>1 DEF WorkShared
  <1>5. Labels' /\ StaleIsWorse'
    BY <1>1 DEF Begin, Labels, StaleIsWorse
  <1>6. PositionsSeen' = {}
    <2>1. Behind(morsels', cursor') = {}
      BY <1>2, BehindStart
    <2>2. PositionsSeen' = Behind(morsels', cursor')
      BY DEF PositionsSeen, IsMorsel, MorselAt, PositionsOf, Behind, Positions
    <2> QED BY <2>1, <2>2
  <1>7. SumConserved'
    <2> SUFFICES ASSUME NEW r \in Rows
                 PROVE  acc'.sum[r] + SumFunctionOnSet([t \in Team' |-> local'[t].sum[r]], NotMerged')
                          = Cardinality({k \in PositionsSeen' : input'[k] = r})
      BY DEF SumConserved, Rows
    <2>1. IsFiniteSet(NotMerged')
      BY <1>1, TeamPart DEF NotMerged
    <2>2. \A t \in NotMerged' : [u \in Team' |-> local'[u].sum[r]][t] = 0
      BY <1>1 DEF NotMerged, Fresh, Zero
    <2>3. SumFunctionOnSet([t \in Team' |-> local'[t].sum[r]], NotMerged') = 0
      BY <2>1, <2>2, SumZero
    <2>4. acc'.sum[r] = 0
      BY <1>1 DEF Fresh, Zero
    <2>5. Cardinality({k \in PositionsSeen' : input'[k] = r}) = 0
      BY <1>6, FS_EmptySet
    <2> QED BY <2>3, <2>4, <2>5
  <1>8. CountConserved'
    <2>1. IsFiniteSet(NotCounted')
      BY <1>1, TeamPart DEF NotCounted
    <2>2. \A t \in NotCounted' : [u \in Team' |-> local'[u].count][t] = 0
      BY <1>1 DEF NotCounted, Fresh
    <2>3. SumFunctionOnSet([t \in Team' |-> local'[t].count], NotCounted') = 0
      BY <2>1, <2>2, SumZero
    <2>4. acc'.count = 0 /\ Cardinality(PositionsSeen') = 0
      BY <1>1, <1>6, FS_EmptySet DEF Fresh
    <2> QED BY <2>3, <2>4 DEF CountConserved
  <1>9. ExtremaMerged'
    <2>1. MinOffered' = {Infinity} /\ MaxOffered' = {-Infinity}
      BY <1>1 DEF MinOffered, MaxOffered
    <2> QED BY <1>1, <2>1, AggregatorAssumption DEF ExtremaMerged, IsLeast, IsGreatest, Fresh
  <1>10. PricesMet'
    BY <1>1, <1>6 DEF PricesMet, Fresh
  <1> QED BY <1>3, <1>4, <1>5, <1>7, <1>8, <1>9, <1>10 DEF IInv

LEMMA CallIInv ==
  ASSUME TypeOK, NEW n \in 1 .. MaxThreads,
         \/ \E rows \in 0 .. MaxRows : CallTable(n, rows)
         \/ \E sel \in Selections : CallSelection(n, sel)
  PROVE  IInv'
  <1>1. ASSUME NEW rows \in 0 .. MaxRows, CallTable(n, rows) PROVE IInv'
    <2>1. rows \in Nat /\ MaxRows \in Nat
      BY AggregatorAssumption
    <2>2. WholeTable(rows) \in [1 .. rows -> Rows]
      BY <2>1 DEF WholeTable, Rows
    <2>3. WholeTable(rows) \in Seq(Rows) /\ Len(WholeTable(rows)) = rows
      BY ONLY <2>1, <2>2, TupleIsSeq, Zenon
    <2>4. EffectiveSize(DefaultMorselSize) \in Nat \ {0}
      BY MorselAssumption DEF EffectiveSize
    <2>5. Divided(totalRows', morsels') /\ totalRows' = rows /\ cursor' = 0
          /\ morselSize' \in Nat \ {0}
      BY <1>1, <2>1, <2>4, TableTiled, TiledDivided DEF CallTable, Partition
    <2> QED BY <1>1, <2>1, <2>3, <2>5, BeginIInv DEF CallTable
  <1>2. ASSUME NEW sel \in Selections, CallSelection(n, sel) PROVE IInv'
    <2>1. sel \in Seq(Rows) /\ Len(sel) <= MaxRows
      BY AggregatorAssumption DEF Rows
    <2>2. Divided(totalRows', morsels') /\ totalRows' = Len(sel) /\ cursor' = 0
          /\ morselSize' \in Nat \ {0}
      BY <1>2, <2>1, LoopDivided DEF CallSelection
    <2> QED BY <1>2, <2>1, <2>2, BeginIInv DEF CallSelection
  <1> QED BY <1>1, <1>2

-----------------------------------------------------------------------------
(* The cursor does not wrap: besides the morsels it counts the threads that
   have found none left.                                                    *)
LEMMA CursorMoves ==
  ASSUME TypeOK, WorkShared, NEW t \in Team, pc[t] = "work", FetchAdd
  PROVE  cursor' = cursor + 1 /\ cursor' \in 0 .. SizeMod - 1
  <1> DEFINE len == Len(morsels)
  <1>1. /\ numThreads \in Nat /\ numThreads <= MaxThreads /\ MaxThreads \in Nat
        /\ cursor \in Nat /\ MaxRows \in Nat /\ MaxRows + MaxThreads < SizeMod
        /\ SizeMod \in Nat \ {0}
    BY AggregatorAssumption, WidthAssumption DEF TypeOK
  <1>2. len \in Nat /\ len <= MaxRows /\ cursor <= len + Cardinality(Gone)
    BY <1>1 DEF WorkShared, Divided, TypeOK
  <1>3. Gone \in SUBSET (0 .. (numThreads - 1)) /\ t \in 0 .. (numThreads - 1) /\ t \notin Gone
    BY DEF Gone, Team
  <1> HIDE DEF len
  <1>4. len + numThreads < SizeMod
    BY <1>1, <1>2
  <1>5. (cursor + 1) % SizeMod = cursor + 1 /\ cursor + 1 < SizeMod
    BY ONLY <1>1, <1>2, <1>3, <1>4, RoomForOneMore, Zenon
  <1> QED BY <1>1, <1>5 DEF FetchAdd

(* The locals after the loop body has run on a morsel. *)
LEMMA AccumulatedIs ==
  ASSUME NEW l \in Partial, NEW m, NEW q, q = Accumulated(l, m),
         IsFiniteSet(PositionsOf(m)), \A k \in PositionsOf(m) : input[k] \in Rows,
         price \in PriceColumns
  PROVE  /\ q = [count |-> q.count, sum |-> q.sum, min |-> q.min, max |-> q.max]
         /\ q.count = l.count + Cardinality(PositionsOf(m))
         /\ q.sum = [r \in Rows |-> l.sum[r] + Cardinality({k \in PositionsOf(m) : input[k] = r})]
         /\ IsLeast(q.min, {price[input[k]] : k \in PositionsOf(m)} \union {l.min})
         /\ IsGreatest(q.max, {price[input[k]] : k \in PositionsOf(m)} \union {l.max})
         /\ q.min \in Extrema /\ q.max \in Extrema
  <1> DEFINE here == PositionsOf(m)
             prices == {price[input[k]] : k \in here}
             lows == prices \union {l.min}
             highs == prices \union {l.max}
  <1>1. prices \subseteq Extrema /\ Extrema \subseteq Int
    <2>1. Infinity \in Nat /\ price \in [Rows -> (-Infinity + 1) .. (Infinity - 1)]
      BY AggregatorAssumption DEF Rows
    <2> QED BY <2>1 DEF Extrema
  <1>2. l.min \in Extrema /\ l.max \in Extrema
    BY DEF Partial
  <1>3. IsFiniteSet(prices)
    <2> DEFINE f == [k \in here |-> price[input[k]]]
    <2>1. IsFiniteSet({f[k] : k \in here})
      BY ImageFinite
    <2>2. {f[k] : k \in here} = prices
      OBVIOUS
    <2> QED BY <2>1, <2>2
  <1>4. /\ q.count = l.count + Cardinality(here)
        /\ q.sum = [r \in Rows |-> l.sum[r] + Cardinality({k \in here : input[k] = r})]
        /\ q.min = CHOOSE p \in lows : \A x \in lows : p <= x
        /\ q.max = CHOOSE p \in highs : \A x \in highs : p >= x
        /\ q = [count |-> q.count, sum |-> q.sum, min |-> q.min, max |-> q.max]
    BY DEF Accumulated
  <1> HIDE DEF prices
  <1>5. IsFiniteSet(lows) /\ IsFiniteSet(highs)
    BY <1>3, FS_AddElement
  <1>6. (\E p : IsLeast(p, lows)) /\ (\E p : IsGreatest(p, highs))
    BY <1>1, <1>2, <1>5, LeastExists, GreatestExists
  <1>7. IsLeast(q.min, lows) /\ IsGreatest(q.max, highs)
    BY <1>4, <1>6 DEF IsLeast, IsGreatest
  <1>8. q.min \in Extrema /\ q.max \in Extrema
    BY <1>1, <1>2, <1>7 DEF IsLeast, IsGreatest
  <1> QED BY <1>4, <1>7, <1>8 DEF prices

(* The parts of a sum or count are numbers. *)
LEMMA NumbersHeld ==
  ASSUME TypeOK
  PROVE  /\ numThreads \in Nat /\ IsFiniteSet(Team)
         /\ IsFiniteSet(NotMerged) /\ IsFiniteSet(NotCounted)
         /\ acc.count \in Nat /\ \A t \in Team : local[t].count \in Nat
         /\ \A r \in Rows : acc.sum[r] \in Nat /\ \A t \in Team : local[t].sum[r] \in Nat
         /\ \A t \in Team : local[t] \in Partial
  <1>1. numThreads \in Nat /\ MaxRows \in Nat
    BY AggregatorAssumption DEF TypeOK
  <1>2. Team \in SUBSET (0 .. (numThreads - 1)) /\ NotMerged \in SUBSET (0 .. (numThreads - 1))
        /\ NotCounted \in SUBSET (0 .. (numThreads - 1))
    BY DEF Team, NotMerged, NotCounted
  <1>3. IsFiniteSet(Team) /\ IsFiniteSet(NotMerged) /\ IsFiniteSet(NotCounted)
    BY <1>1, <1>2, TeamPart
  <1>4. acc \in Partial /\ \A t \in Team : local[t] \in Partial
    BY DEF TypeOK
  <1>5. \A l \in Partial : l.count \in Nat /\ l.sum \in Sums
    BY <1>1 DEF Partial
  <1>6. \A u \in Sums : \A r \in Rows : u[r] \in Nat
    BY <1>1 DEF Sums
  <1> QED BY <1>1, <1>3, <1>4, <1>5, <1>6

(* A thread accumulates a morsel nobody has been given before. *)
LEMMA WorkIInv ==
  ASSUME IInv, NEW t \in Team, Work(t)
  PROVE  IInv'
  <1> DEFINE m == morsels[cursor + 1]
             here == Positions(m)
             add == Cardinality(here)
             Add(r) == Cardinality({k \in here : input[k] = r})
             q == Accumulated(local[t], m)
  <1>1. /\ TypeOK /\ WorkShared /\ Labels /\ StaleIsWorse
        /\ SumConserved /\ CountConserved /\ ExtremaMerged /\ PricesMet
    BY DEF IInv
  <1>2. pc[t] = "work" /\ cursor < Len(morsels) /\ busy /\ price \in PriceColumns
    BY <1>1 DEF Work, At, IsMorsel, Labels
  <1>3. cursor' = cursor + 1 /\ cursor' \in 0 .. SizeMod - 1
    BY <1>1, <1>2, CursorMoves DEF Work
  <1>4. /\ UNCHANGED <<totalRows, morselSize, morsels, acc, cur, numThreads, pc>>
        /\ UNCHANGED <<busy, kind, whole, input, price, result>>
        /\ Team' = Team /\ NotMerged' = NotMerged /\ NotCounted' = NotCounted /\ Gone' = Gone
    BY DEF Work, FetchAdd, accumulatorVars, queryVars, Team, NotMerged, NotCounted, Gone
  <1>5. /\ local' = [local EXCEPT ![t] = q] /\ DOMAIN local = Team
        /\ local'[t] = q /\ \A u \in Team : u # t => local'[u] = local[u]
    BY <1>1 DEF Work, MorselAt, TypeOK
  <1>6. /\ PositionsSeen' = PositionsSeen \union here
        /\ PositionsSeen \cap here = {} /\ here \subseteq DOMAIN input /\ IsFiniteSet(here)
    <2>1. /\ cursor \in Nat /\ Len(input) \in Nat /\ DOMAIN input = 1 .. Len(input)
          /\ Divided(Len(input), morsels)
      BY <1>1 DEF TypeOK, WorkShared
    <2>2. /\ Behind(morsels, cursor + 1) = Behind(morsels, cursor) \union here
          /\ Behind(morsels, cursor) \cap here = {} /\ here \subseteq 1 .. Len(input)
      BY <1>2, <2>1, BehindNext
    <2>3. PositionsSeen' = Behind(morsels, cursor + 1)
      BY <1>3, <1>4 DEF PositionsSeen, IsMorsel, MorselAt, PositionsOf, Behind, Positions
    <2>4. IsFiniteSet(1 .. Len(input))
      BY <2>1, FS_Interval
    <2> HIDE DEF here
    <2> QED BY <2>1, <2>2, <2>3, <2>4, SeenIsBehind, FS_Subset
  <1>7. /\ PositionsSeen \subseteq DOMAIN input /\ IsFiniteSet(PositionsSeen)
        /\ \A k \in DOMAIN input : input[k] \in Rows
    BY <1>1, SeenBounded
  <1>8. /\ q = [count |-> q.count, sum |-> q.sum, min |-> q.min, max |-> q.max]
        /\ q.count = local[t].count + add
        /\ q.sum = [r \in Rows |-> local[t].sum[r] + Add(r)]
        /\ IsLeast(q.min, {price[input[k]] : k \in here} \union {local[t].min})
        /\ IsGreatest(q.max, {price[input[k]] : k \in here} \union {local[t].max})
        /\ q.min \in Extrema /\ q.max \in Extrema
    <2>1. PositionsOf(m) = here /\ local[t] \in Partial
      BY <1>1, NumbersHeld DEF PositionsOf, Positions
    <2>2. \A k \in here : input[k] \in Rows
      BY <1>6, <1>7
    <2> HIDE DEF here, m
    <2>3. IsFiniteSet(PositionsOf(m)) /\ \A k \in PositionsOf(m) : input[k] \in Rows
      BY <1>6, <2>1, <2>2
    <2> HIDE DEF q
    <2>4. /\ q = [count |-> q.count, sum |-> q.sum, min |-> q.min, max |-> q.max]
          /\ q.count = local[t].count + Cardinality(PositionsOf(m))
          /\ q.sum = [r \in Rows |-> local[t].sum[r] +
                                     Cardinality({k \in PositionsOf(m) : input[k] = r})]
          /\ IsLeast(q.min, {price[input[k]] : k \in PositionsOf(m)} \union {local[t].min})
          /\ IsGreatest(q.max, {price[input[k]] : k \in PositionsOf(m)} \union {local[t].max})
          /\ q.min \in Extrema /\ q.max \in Extrema
      BY <1>2, <2>1, <2>3, AccumulatedIs, Zenon DEF q
    <2> QED BY <2>1, <2>4
  <1>9. add \in Nat /\ \A r \in Rows : Add(r) \in Nat
    <2>1. \A r \in Rows : IsFiniteSet({k \in here : input[k] = r})
      BY <1>6, FS_Subset
    <2> QED BY <1>6, <2>1, FS_CardinalityType
  <1>10. /\ numThreads \in Nat /\ IsFiniteSet(NotMerged) /\ IsFiniteSet(NotCounted)
         /\ acc.count \in Nat /\ \A u \in Team : local[u].count \in Nat
         /\ \A r \in Rows : acc.sum[r] \in Nat /\ \A u \in Team : local[u].sum[r] \in Nat
    BY <1>1, NumbersHeld
  <1>11. t \in NotMerged /\ t \in NotCounted /\ NotMerged \subseteq Team /\ NotCounted \subseteq Team
    BY <1>2 DEF NotMerged, NotCounted
  <1>12. IsFiniteSet(PositionsSeen') /\ PositionsSeen' \subseteq DOMAIN input
    BY <1>6, <1>7, FS_Union
  <1> HIDE DEF m, here, add, Add, q
  <1>13. ASSUME NEW r \in Rows
         PROVE  acc.sum[r] + SumFunctionOnSet([u \in Team |-> local'[u].sum[r]], NotMerged)
                  = Cardinality({k \in PositionsSeen' : input[k] = r})
    <2> DEFINE f == [u \in Team |-> local[u].sum[r]]
               g == [u \in Team |-> local'[u].sum[r]]
               F == SumFunctionOnSet(f, NotMerged)
               G == SumFunctionOnSet(g, NotMerged)
               seen == Cardinality({k \in PositionsSeen : input[k] = r})
               met == Cardinality({k \in PositionsSeen' : input[k] = r})
    <2>1. /\ f[t] = local[t].sum[r] /\ g[t] = local[t].sum[r] + Add(r)
          /\ local[t].sum[r] \in Nat /\ Add(r) \in Nat
      BY <1>5, <1>8, <1>9, <1>10
    <2>2. /\ \A u \in NotMerged : f[u] \in Int /\ g[u] \in Int
          /\ \A u \in NotMerged : u # t => f[u] = g[u]
      BY <1>5, <1>10, <1>11, <2>1
    <2>3. acc.sum[r] + F = seen
      BY <1>1, <1>2 DEF SumConserved
    <2>4. met = seen + Add(r)
      <3>1. Cardinality({k \in PositionsSeen \union here : input[k] = r}) = seen + Add(r)
        <4> HIDE DEF seen, met
        <4>1. Occurs(PositionsSeen \union here, input, r) =
                Occurs(PositionsSeen, input, r) + Occurs(here, input, r)
          BY <1>6, <1>7, OccurrencesAdd
        <4> QED BY <4>1 DEF Occurs, Add, seen
      <3> QED BY <1>6, <3>1
    <2> HIDE DEF f, g
    <2>5. G = F + g[t] - f[t]
      BY <1>10, <1>11, <2>2, SumChange
    <2>6. F \in Int /\ acc.sum[r] \in Nat
      BY <1>10, <2>2, SumInt
    <2> HIDE DEF F, G, seen, met
    <2>7. acc.sum[r] + G = met
      BY <2>1, <2>3, <2>4, <2>5, <2>6
    <2> QED BY <2>7 DEF F, G, f, g, met
  <1>14. acc.count + SumFunctionOnSet([u \in Team |-> local'[u].count], NotCounted)
           = Cardinality(PositionsSeen')
    <2> DEFINE f == [u \in Team |-> local[u].count]
               g == [u \in Team |-> local'[u].count]
               F == SumFunctionOnSet(f, NotCounted)
               G == SumFunctionOnSet(g, NotCounted)
               seen == Cardinality(PositionsSeen)
               met == Cardinality(PositionsSeen')
    <2>1. /\ f[t] = local[t].count /\ g[t] = local[t].count + add
          /\ local[t].count \in Nat /\ add \in Nat
      BY <1>5, <1>8, <1>9, <1>10
    <2>2. /\ \A u \in NotCounted : f[u] \in Int /\ g[u] \in Int
          /\ \A u \in NotCounted : u # t => f[u] = g[u]
      BY <1>5, <1>10, <1>11, <2>1
    <2>3. acc.count + F = seen
      BY <1>1, <1>2 DEF CountConserved
    <2>4. met = seen + add
      <3>1. met = seen + add - Cardinality(PositionsSeen \cap here)
        BY <1>6, <1>7, FS_Union DEF add
      <3>2. Cardinality(PositionsSeen \cap here) = 0 /\ seen \in Nat /\ add \in Nat
        BY <1>6, <1>7, <1>9, FS_EmptySet, FS_CardinalityType
      <3> QED BY <3>1, <3>2
    <2> HIDE DEF f, g
    <2>5. G = F + g[t] - f[t]
      BY <1>10, <1>11, <2>2, SumChange
    <2>6. F \in Int /\ acc.count \in Nat
      BY <1>10, <2>2, SumInt
    <2> HIDE DEF F, G, seen, met
    <2>7. acc.count + G = met
      BY <2>1, <2>3, <2>4, <2>5, <2>6
    <2> QED BY <2>7 DEF F, G, f, g, met
  <1>15. SumConserved' /\ CountConserved'
    BY <1>4, <1>13, <1>14 DEF SumConserved, CountConserved
  <1>16. WorkShared'
    <2>1. cursor' <= Len(morsels) /\ Len(morsels) \in Nat
      BY <1>1, <1>2, <1>3 DEF TypeOK, WorkShared, Divided
    <2>2. IsFiniteSet(Gone) /\ Cardinality(Gone) \in Nat
      BY <1>10, TeamPart DEF Gone, Team
    <2>3. \A u \in Team : pc[u] = "work"
      BY <1>1, <1>2 DEF WorkShared, IsMorsel
    <2> DEFINE l == Len(morsels)
               g == Cardinality(Gone)
    <2>4. l \in Nat /\ g \in Nat /\ cursor' <= l
      BY <2>1, <2>2
    <2> HIDE DEF l, g
    <2>5. cursor' \in Nat /\ cursor' <= l + g
      BY <1>3, <2>4
    <2> QED BY <1>1, <1>4, <2>3, <2>5 DEF WorkShared, l, g
  <1>17. TypeOK'
    <2> DEFINE c == Cardinality(PositionsSeen')
    <2>1. c \in Nat /\ c <= MaxRows /\ MaxRows \in Nat
      <3>1. /\ DOMAIN input = 1 .. Len(input) /\ Len(input) \in Nat
            /\ Len(input) <= MaxRows /\ MaxRows \in Nat
        BY <1>1, AggregatorAssumption DEF TypeOK, WorkShared
      <3>2. IsFiniteSet(1 .. Len(input)) /\ Cardinality(1 .. Len(input)) = Len(input)
        <4> DEFINE n == Len(input)
        <4>1. n \in Nat
          BY <3>1
        <4> HIDE DEF n
        <4>2. IsFiniteSet(1 .. n) /\ Cardinality(1 .. n) = n
          BY <4>1, FS_Interval
        <4> QED BY <4>2 DEF n
      <3>3. PositionsSeen' \in SUBSET (1 .. Len(input))
        BY <1>12, <3>1
      <3>4. c <= Cardinality(1 .. Len(input))
        BY ONLY <3>2, <3>3, FS_Subset, Zenon
      <3>5. c \in Nat
        BY <1>12, FS_CardinalityType
      <3> HIDE DEF c
      <3> QED BY <3>1, <3>2, <3>4, <3>5
    <2>2. q.count <= c
      <3> DEFINE f == [u \in Team |-> local'[u].count]
      <3>1. \A u \in NotCounted : f[u] \in Nat
        BY <1>5, <1>8, <1>9, <1>10, <1>11
      <3>2. f[t] = q.count
        BY <1>5
      <3> HIDE DEF f
      <3>3. f[t] <= c
        BY <1>10, <1>11, <1>14, <3>1, PartBounded DEF f
      <3> QED BY <3>2, <3>3
    <2>3. ASSUME NEW r \in Rows PROVE q.sum[r] \in 0 .. MaxRows
      <3> DEFINE f == [u \in Team |-> local'[u].sum[r]]
                 part == {k \in PositionsSeen' : input[k] = r}
                 d == Cardinality(part)
      <3>1. \A u \in NotMerged : f[u] \in Nat
        BY <1>5, <1>8, <1>9, <1>10, <1>11
      <3>2. f[t] = q.sum[r]
        BY <1>5
      <3>3. part \subseteq PositionsSeen'
        OBVIOUS
      <3> HIDE DEF part
      <3>4. d \in Nat /\ d <= c
        BY <1>12, <3>3, FS_Subset, FS_CardinalityType
      <3> HIDE DEF f
      <3>5. f[t] <= d
        BY <1>10, <1>11, <1>13, <3>1, PartBounded DEF f, part
      <3>6. f[t] \in Nat
        BY <1>11, <3>1
      <3> HIDE DEF c, d
      <3> QED BY <2>1, <3>2, <3>4, <3>5, <3>6
    <2>4. q \in Partial
      <3>1. q.count \in 0 .. MaxRows
        <4>1. q.count \in Nat
          BY <1>8, <1>9, <1>10
        <4> HIDE DEF c
        <4> QED BY <2>1, <2>2, <4>1
      <3>2. q.sum \in Sums
        BY <1>8, <2>3 DEF Sums
      <3> QED BY <1>8, <3>1, <3>2 DEF Partial
    <2>5. local' \in [Team -> Partial]
      BY <1>1, <1>5, <2>4 DEF TypeOK
    <2> QED BY <1>1, <1>3, <1>4, <2>5 DEF TypeOK
  <1>18. ExtremaMerged'
    <2>1. MinOffered' = MinOffered /\ MaxOffered' = MaxOffered
      BY <1>2, <1>4, <1>5 DEF MinOffered, MaxOffered
    <2> QED BY <1>1, <1>4, <2>1 DEF ExtremaMerged
  <1>19. PricesMet'
    <2>1. /\ q.min = local[t].min \/ \E k \in here : q.min = price[input[k]]
          /\ q.max = local[t].max \/ \E k \in here : q.max = price[input[k]]
          /\ q.min <= local[t].min /\ \A k \in here : q.min <= price[input[k]]
          /\ q.max >= local[t].max /\ \A k \in here : q.max >= price[input[k]]
      BY <1>8 DEF IsLeast, IsGreatest
    <2>2. ASSUME NEW u \in Team
          PROVE  /\ \/ local'[u].min = Infinity
                    \/ \E k \in PositionsSeen' : local'[u].min = price[input[k]]
                 /\ \/ local'[u].max = -Infinity
                    \/ \E k \in PositionsSeen' : local'[u].max = price[input[k]]
      <3>1. CASE u = t
        BY <1>1, <1>2, <1>5, <1>6, <2>1, <3>1 DEF PricesMet
      <3>2. CASE u # t
        BY <1>1, <1>2, <1>5, <1>6, <3>2 DEF PricesMet
      <3> QED BY <3>1, <3>2
    <2>3. ASSUME NEW k \in PositionsSeen'
          PROVE  /\ \E u \in Team : local'[u].min <= price[input[k]]
                 /\ \E u \in Team : local'[u].max >= price[input[k]]
      <3>1. CASE k \in here
        BY <1>5, <2>1, <3>1
      <3>2. CASE k \in PositionsSeen
        <4>1. PICK u \in Team, v \in Team :
                local[u].min <= price[input[k]] /\ local[v].max >= price[input[k]]
          BY <1>1, <1>2, <3>2 DEF PricesMet
        <4>2. /\ q.min \in Int /\ q.max \in Int /\ price[input[k]] \in Int
              /\ local[t].min \in Int /\ local[t].max \in Int
          <5>1. Infinity \in Nat /\ price \in [Rows -> (-Infinity + 1) .. (Infinity - 1)]
            BY <1>2, AggregatorAssumption DEF Rows
          <5>2. input[k] \in Rows
            BY <1>7, <3>2
          <5>3. local[t] \in Partial
            BY <1>1, NumbersHeld
          <5> QED BY <1>8, <5>1, <5>2, <5>3 DEF Partial, Extrema
        <4>3. q.min <= price[input[k]] \/ u # t
          BY <2>1, <4>1, <4>2
        <4>4. q.max >= price[input[k]] \/ v # t
          BY <2>1, <4>1, <4>2
        <4> QED BY <1>5, <4>1, <4>3, <4>4
      <3> QED BY <1>6, <3>1, <3>2
    <2> QED BY <1>4, <2>2, <2>3 DEF PricesMet
  <1>20. Labels' /\ StaleIsWorse'
    BY <1>1, <1>4 DEF Labels, StaleIsWorse
  <1> QED BY <1>15, <1>16, <1>17, <1>18, <1>19, <1>20 DEF IInv

-----------------------------------------------------------------------------
(* The other steps of a thread: it goes from one statement to the next, or
   stays, and neither the locals nor what is handed out changes.            *)
Move(t, l) ==
  /\ pc' = [pc EXCEPT ![t] = l]
  /\ UNCHANGED <<numThreads, local, queryVars>>
  /\ PositionsSeen' = PositionsSeen

Unmerged == {"work", "forEnd", "count", "sum", "intSum"}

Uncounted == {"work", "forEnd", "count"}

LEMMA MoveFrame ==
  ASSUME TypeOK, NEW t \in Team, NEW l, Move(t, l)
  PROVE  /\ Team' = Team /\ UNCHANGED <<busy, kind, whole, input, price, local, numThreads>>
         /\ pc'[t] = l /\ \A u \in Team : u # t => pc'[u] = pc[u]
         /\ pc' = [pc EXCEPT ![t] = l] /\ DOMAIN pc = Team
  BY DEF Move, TypeOK, Team, queryVars

LEMMA SumKept ==
  ASSUME IInv, NEW t \in Team, NEW l, Move(t, l),
         acc'.sum = acc.sum, pc[t] \in Unmerged <=> l \in Unmerged
  PROVE  SumConserved'
  <1>1. Team' = Team /\ UNCHANGED <<busy, input, local>> /\ PositionsSeen' = PositionsSeen
    BY MoveFrame DEF IInv, Move
  <1>2. NotMerged' = NotMerged
    BY MoveFrame DEF IInv, NotMerged, Unmerged
  <1> QED BY <1>1, <1>2 DEF IInv, SumConserved

(* The local sum of t has gone over into the shared one. *)
LEMMA SumMerged ==
  ASSUME IInv, NEW t \in Team, NEW l, Move(t, l),
         acc'.sum = Plus(acc.sum, local[t].sum), pc[t] \in Unmerged, l \notin Unmerged
  PROVE  SumConserved'
  <1>1. Team' = Team /\ UNCHANGED <<busy, input, local>> /\ PositionsSeen' = PositionsSeen
    BY MoveFrame DEF IInv, Move
  <1>2. NotMerged' = NotMerged \ {t} /\ t \in NotMerged /\ NotMerged \subseteq Team
    BY MoveFrame DEF IInv, NotMerged, Unmerged
  <1>3. /\ IsFiniteSet(NotMerged)
        /\ \A r \in Rows : acc.sum[r] \in Nat /\ \A u \in Team : local[u].sum[r] \in Nat
    BY NumbersHeld DEF IInv
  <1>4. ASSUME busy, NEW r \in Rows
        PROVE  acc'.sum[r] + SumFunctionOnSet([u \in Team |-> local[u].sum[r]], NotMerged \ {t})
                 = Cardinality({k \in PositionsSeen : input[k] = r})
    <2> DEFINE f == [u \in Team |-> local[u].sum[r]]
               F == SumFunctionOnSet(f, NotMerged)
               G == SumFunctionOnSet(f, NotMerged \ {t})
               met == Cardinality({k \in PositionsSeen : input[k] = r})
    <2>1. acc.sum[r] + F = met
      BY <1>4 DEF IInv, SumConserved
    <2>2. f[t] = local[t].sum[r] /\ \A u \in NotMerged : f[u] \in Int
      BY <1>2, <1>3
    <2>3. acc'.sum[r] = acc.sum[r] + local[t].sum[r]
      BY DEF Plus
    <2> HIDE DEF f
    <2>4. F = f[t] + G
      BY <1>2, <1>3, <2>2, SumTakeOut
    <2>5. G \in Int
      <3>1. IsFiniteSet(NotMerged \ {t})
        BY <1>3, FS_RemoveElement
      <3> QED BY <2>2, <3>1, SumInt
    <2>6. acc.sum[r] \in Nat /\ local[t].sum[r] \in Nat
      BY <1>3
    <2> HIDE DEF F, G, met
    <2>7. acc'.sum[r] + G = met
      BY <2>1, <2>2, <2>3, <2>4, <2>5, <2>6
    <2> QED BY <2>7 DEF G, f, met
  <1> QED BY <1>1, <1>2, <1>4 DEF SumConserved

LEMMA CountKept ==
  ASSUME IInv, NEW t \in Team, NEW l, Move(t, l),
         acc'.count = acc.count, kind = "price" => (pc[t] \in Uncounted <=> l \in Uncounted)
  PROVE  CountConserved'
  <1>1. Team' = Team /\ UNCHANGED <<busy, input, local>> /\ PositionsSeen' = PositionsSeen
    BY MoveFrame DEF IInv, Move
  <1>2. NotCounted' = NotCounted
    BY MoveFrame DEF IInv, NotCounted, Uncounted
  <1> QED BY <1>1, <1>2 DEF IInv, CountConserved

LEMMA CountMerged ==
  ASSUME IInv, NEW t \in Team, NEW l, Move(t, l), kind = "price",
         acc'.count = acc.count + local[t].count, pc[t] \in Uncounted, l \notin Uncounted
  PROVE  CountConserved'
  <1>1. Team' = Team /\ UNCHANGED <<busy, input, local>> /\ PositionsSeen' = PositionsSeen
    BY MoveFrame DEF IInv, Move
  <1>2. NotCounted' = NotCounted \ {t} /\ t \in NotCounted /\ NotCounted \subseteq Team
    BY MoveFrame DEF IInv, NotCounted, Uncounted
  <1>3. /\ IsFiniteSet(NotCounted) /\ acc.count \in Nat
        /\ \A u \in Team : local[u].count \in Nat
    BY NumbersHeld DEF IInv
  <1> DEFINE f == [u \in Team |-> local[u].count]
             F == SumFunctionOnSet(f, NotCounted)
             G == SumFunctionOnSet(f, NotCounted \ {t})
             met == Cardinality(PositionsSeen)
  <1>4. f[t] = local[t].count /\ \A u \in NotCounted : f[u] \in Int
    BY <1>2, <1>3
  <1>5. busy => acc.count + F = met
    BY DEF IInv, CountConserved
  <1> HIDE DEF f
  <1>6. F = f[t] + G
    BY <1>2, <1>3, <1>4, SumTakeOut
  <1>7. G \in Int
    <2>1. IsFiniteSet(NotCounted \ {t})
      BY <1>3, FS_RemoveElement
    <2> QED BY <1>4, <2>1, SumInt
  <1> HIDE DEF F, G, met
  <1>8. busy => acc'.count + G = met
    BY <1>3, <1>4, <1>5, <1>6, <1>7
  <1> QED BY <1>1, <1>2, <1>8 DEF CountConserved, G, f, met

LEMMA ExtremaKept ==
  ASSUME IInv, NEW t \in Team, NEW l, Move(t, l),
         acc'.min = acc.min, acc'.max = acc.max,
         kind = "price" => /\ pc[t] \in {"max", "done"} <=> l \in {"max", "done"}
                           /\ pc[t] = "done" <=> l = "done"
  PROVE  ExtremaMerged'
  <1>1. Team' = Team /\ UNCHANGED <<busy, kind, local>>
    BY MoveFrame DEF IInv
  <1>2. kind = "price" => MinOffered' = MinOffered /\ MaxOffered' = MaxOffered
    BY MoveFrame DEF IInv, MinOffered, MaxOffered
  <1> QED BY <1>1, <1>2 DEF IInv, ExtremaMerged

LEMMA MoveMet ==
  ASSUME IInv, NEW t \in Team, NEW l, Move(t, l)
  PROVE  PricesMet'
  <1>1. Team' = Team /\ UNCHANGED <<busy, input, price, local>> /\ PositionsSeen' = PositionsSeen
    BY MoveFrame DEF IInv, Move
  <1> QED BY <1>1 DEF IInv, PricesMet

LEMMA MoveShared ==
  ASSUME IInv, NEW t \in Team, NEW l, pc[t] # "work", l # "work",
         pc' = [pc EXCEPT ![t] = l],
         UNCHANGED <<allocatorVars, numThreads, local, queryVars>>
  PROVE  Move(t, l) /\ WorkShared'
  <1>1. PositionsSeen' = PositionsSeen
    BY DEF allocatorVars, PositionsSeen, IsMorsel, MorselAt
  <1>2. Move(t, l)
    BY <1>1 DEF Move
  <1>3. Gone' = Gone /\ Team' = Team
    BY <1>2, MoveFrame DEF IInv, Gone
  <1>4. UNCHANGED <<totalRows, morselSize, morsels, cursor, input>>
    BY DEF allocatorVars, queryVars
  <1>5. \A u \in Team : pc'[u] # "work" => pc[u] # "work"
    BY <1>2, MoveFrame DEF IInv
  <1> QED BY <1>2, <1>3, <1>4, <1>5 DEF IInv, WorkShared, IsMorsel

(* A sum of parts of the input is below the bound of its type. *)
LEMMA SumInRange ==
  ASSUME IInv, NEW t \in Team, NEW l, Move(t, l), busy, SumConserved',
         acc'.sum = Plus(acc.sum, local[t].sum)
  PROVE  acc'.sum \in Sums
  <1>1. Team' = Team /\ UNCHANGED <<busy, input, local>> /\ PositionsSeen' = PositionsSeen
    BY MoveFrame DEF IInv, Move
  <1>2. \A r \in Rows : acc.sum[r] \in Nat /\ \A u \in Team : local[u].sum[r] \in Nat
    BY NumbersHeld DEF IInv
  <1>3. NotMerged' \subseteq Team /\ IsFiniteSet(NotMerged')
    <2>1. NotMerged' \subseteq Team /\ IsFiniteSet(Team)
      BY <1>1, NumbersHeld DEF IInv, NotMerged
    <2> QED BY <2>1, FS_Subset
  <1>4. ASSUME NEW r \in Rows PROVE acc'.sum[r] \in 0 .. MaxRows
    <2> DEFINE f == [u \in Team |-> local[u].sum[r]]
               part == {k \in PositionsSeen : input[k] = r}
               d == Cardinality(part)
    <2>1. acc'.sum[r] \in Nat /\ \A u \in NotMerged' : f[u] \in Nat
      BY <1>2, <1>3 DEF Plus
    <2>2. acc'.sum[r] + SumFunctionOnSet(f, NotMerged') = d
      BY <1>1 DEF SumConserved
    <2>3. /\ part \subseteq PositionsSeen /\ IsFiniteSet(PositionsSeen)
          /\ Cardinality(PositionsSeen) <= MaxRows
      BY SeenBounded DEF IInv
    <2>4. MaxRows \in Nat /\ Cardinality(PositionsSeen) \in Nat
      BY SeenBounded, AggregatorAssumption DEF IInv
    <2> HIDE DEF part, f
    <2>5. d <= Cardinality(PositionsSeen) /\ d \in Nat
      BY <2>3, FS_Subset, FS_CardinalityType
    <2> HIDE DEF d
    <2>6. acc'.sum[r] <= d
      BY <1>3, <2>1, <2>2, PartBounded
    <2> QED BY <2>1, <2>3, <2>4, <2>5, <2>6
  <1> QED BY <1>4 DEF Sums, Plus

LEMMA CountInRange ==
  ASSUME IInv, NEW t \in Team, NEW l, Move(t, l), busy, CountConserved',
         acc'.count = acc.count + local[t].count
  PROVE  acc'.count \in 0 .. MaxRows
  <1>1. Team' = Team /\ UNCHANGED <<busy, input, local>> /\ PositionsSeen' = PositionsSeen
    BY MoveFrame DEF IInv, Move
  <1>2. NotCounted' \subseteq Team /\ IsFiniteSet(NotCounted')
    <2>1. NotCounted' \subseteq Team /\ IsFiniteSet(Team)
      BY <1>1, NumbersHeld DEF IInv, NotCounted
    <2> QED BY <2>1, FS_Subset
  <1> DEFINE f == [u \in Team |-> local[u].count]
             d == Cardinality(PositionsSeen)
  <1>3. acc'.count \in Nat /\ \A u \in NotCounted' : f[u] \in Nat
    BY <1>2, NumbersHeld DEF IInv
  <1>4. acc'.count + SumFunctionOnSet(f, NotCounted') = d
    BY <1>1 DEF CountConserved
  <1>5. d <= MaxRows /\ d \in Nat /\ MaxRows \in Nat
    BY SeenBounded, AggregatorAssumption DEF IInv
  <1> HIDE DEF f, d
  <1>6. acc'.count <= d
    BY <1>2, <1>3, <1>4, PartBounded
  <1> QED BY <1>3, <1>5, <1>6

LEMMA MoveTyped ==
  ASSUME IInv, NEW t \in Team, NEW l, Move(t, l),
         l \in {"work", "forEnd", "count", "intSum", "done"} \union Loops,
         UNCHANGED <<totalRows, morselSize, morsels>>, cursor' \in 0 .. SizeMod - 1,
         acc' \in Partial, DOMAIN cur' = Team,
         \A u \in Team : u # t => cur'[u] = cur[u],
         cur'[t] # None => l \in Loops /\ cur'[t] \in (IF l = "sum" THEN Sums ELSE Extrema)
  PROVE  TypeOK'
  <1>1. /\ Team' = Team /\ UNCHANGED <<busy, kind, whole, input, price, local, numThreads>>
        /\ pc'[t] = l /\ \A u \in Team : u # t => pc'[u] = pc[u]
        /\ pc' \in [Team -> {"work", "forEnd", "count", "intSum", "done"} \union Loops]
    <2>1. /\ Team' = Team /\ UNCHANGED <<busy, kind, whole, input, price, local, numThreads>>
          /\ pc'[t] = l /\ \A u \in Team : u # t => pc'[u] = pc[u]
          /\ pc' = [pc EXCEPT ![t] = l]
      BY MoveFrame DEF IInv
    <2>2. pc \in [Team -> {"work", "forEnd", "count", "intSum", "done"} \union Loops]
      BY DEF IInv, TypeOK
    <2> QED BY <2>1, <2>2
  <1>2. \A u \in Team : cur'[u] # None =>
          /\ pc'[u] \in Loops
          /\ cur'[u] \in IF pc'[u] = "sum" THEN Sums ELSE Extrema
    BY <1>1 DEF IInv, TypeOK
  <1> QED BY <1>1, <1>2 DEF IInv, TypeOK

LEMMA MoveLabels ==
  ASSUME IInv, NEW t \in Team, NEW l, Move(t, l), busy,
         l \in {"count", "min", "max"} => kind = "price",
         l = "intSum" => kind # "price"
  PROVE  Labels'
  <1>1. /\ Team' = Team /\ UNCHANGED <<busy, kind, price>>
        /\ pc'[t] = l /\ \A u \in Team : u # t => pc'[u] = pc[u]
    BY MoveFrame DEF IInv
  <1> QED BY <1>1 DEF IInv, Labels

(* What a thread has loaded stays no better as the shared value improves. *)
LEMMA MoveStale ==
  ASSUME IInv, NEW t \in Team, NEW l, Move(t, l), acc \in Partial, acc' \in Partial,
         acc'.min <= acc.min, acc'.max >= acc.max,
         \A u \in Team : u # t => cur'[u] = cur[u],
         cur'[t] # None => /\ l = "min" => acc'.min <= cur'[t]
                           /\ l = "max" => acc'.max >= cur'[t]
  PROVE  StaleIsWorse'
  <1>1. /\ Team' = Team /\ pc'[t] = l /\ \A u \in Team : u # t => pc'[u] = pc[u]
    BY MoveFrame DEF IInv
  <1>2. \A e \in Extrema : e \in Int
    BY AggregatorAssumption DEF Extrema
  <1>3. acc.min \in Int /\ acc.max \in Int /\ acc'.min \in Int /\ acc'.max \in Int
    BY <1>2 DEF Partial
  <1>4. ASSUME NEW u \in Team, u # t, cur'[u] # None
        PROVE  /\ pc'[u] = "min" => acc'.min <= cur'[u]
               /\ pc'[u] = "max" => acc'.max >= cur'[u]
    <2>1. pc'[u] = pc[u] /\ cur'[u] = cur[u] /\ cur[u] # None
      BY <1>1, <1>4
    <2>2. pc[u] \in {"min", "max"} => cur[u] \in Int
      BY <1>2, <2>1 DEF IInv, TypeOK
    <2>3. (pc[u] = "min" => acc.min <= cur[u]) /\ (pc[u] = "max" => acc.max >= cur[u])
      BY <2>1 DEF IInv, StaleIsWorse
    <2> QED BY <1>3, <2>1, <2>2, <2>3
  <1> QED BY <1>1, <1>4 DEF StaleIsWorse

(* A statement that a thread can be at is one of a call that runs. *)
LEMMA BusyAt ==
  ASSUME IInv, NEW t \in Team, pc[t] # "done"
  PROVE  busy /\ acc \in Partial /\ local[t] \in Partial /\ DOMAIN cur = Team
  BY DEF IInv, Labels, TypeOK

LEMMA LeaveIInv ==
  ASSUME IInv, NEW t \in Team, LeaveLoop(t)
  PROVE  IInv'
  <1> DEFINE l == IF whole THEN FirstMerge ELSE "forEnd"
  <1>1. /\ pc[t] = "work" /\ ~(cursor < Len(morsels))
        /\ UNCHANGED <<totalRows, morselSize, morsels, acc, cur, numThreads, local>>
        /\ UNCHANGED queryVars /\ pc' = [pc EXCEPT ![t] = l]
    BY DEF LeaveLoop, At, IsMorsel, GoTo, FetchAdd, accumulatorVars
  <1>2. cursor' = cursor + 1 /\ cursor' \in 0 .. SizeMod - 1
    BY <1>1, CursorMoves DEF IInv, LeaveLoop
  <1>3. cursor \in Nat /\ Len(morsels) \in Nat
    BY DEF IInv, TypeOK
  <1>4. ~(cursor' < Len(morsels))
    BY <1>1, <1>2, <1>3
  <1>5. PositionsSeen' = PositionsSeen
    BY <1>1, <1>4 DEF PositionsSeen, IsMorsel, MorselAt
  <1>6. l \in {"forEnd", "count", "sum", "intSum"} /\ (l = "count" => kind = "price")
        /\ (l = "intSum" => kind # "price") /\ (kind = "price" => l \in {"forEnd", "count"})
    BY DEF FirstMerge, IInv, TypeOK
  <1> HIDE DEF l
  <1>7. Move(t, l)
    BY <1>1, <1>5 DEF Move
  <1>8. /\ busy /\ acc \in Partial /\ DOMAIN cur = Team /\ cur[t] = None
        /\ acc.min \in Int /\ acc.max \in Int
    <2>1. \A e \in Extrema : e \in Int
      BY AggregatorAssumption DEF Extrema
    <2> QED BY <1>1, <2>1, BusyAt DEF IInv, TypeOK, Loops, Partial
  <1>9. SumConserved'
    BY <1>1, <1>6, <1>7, SumKept DEF Unmerged
  <1>10. CountConserved'
    BY <1>1, <1>6, <1>7, CountKept DEF Uncounted
  <1>11. ExtremaMerged'
    BY <1>1, <1>6, <1>7, ExtremaKept
  <1>12. PricesMet'
    BY <1>7, MoveMet
  <1>13. TypeOK'
    BY <1>1, <1>2, <1>6, <1>7, <1>8, MoveTyped DEF Loops
  <1>14. Labels'
    BY <1>6, <1>7, <1>8, MoveLabels
  <1>15. StaleIsWorse'
    BY <1>1, <1>7, <1>8, MoveStale
  <1>16. WorkShared'
    <2>1. /\ Team' = Team /\ pc'[t] = l /\ \A u \in Team : u # t => pc'[u] = pc[u]
      BY <1>7, MoveFrame DEF IInv
    <2>2. Gone' = Gone \union {t} /\ t \notin Gone
      BY <1>1, <1>6, <2>1 DEF Gone
    <2>3. IsFiniteSet(Gone) /\ Cardinality(Gone) \in Nat
      <3>1. Gone \subseteq Team
        BY DEF Gone
      <3> QED BY <3>1, NumbersHeld, FS_Subset, FS_CardinalityType DEF IInv
    <2>4. Cardinality(Gone') = Cardinality(Gone) + 1
      BY <2>2, <2>3, FS_AddElement
    <2> DEFINE g == Cardinality(Gone)
               h == Cardinality(Gone')
               n == Len(morsels)
    <2>5. cursor <= n + g /\ n \in Nat /\ g \in Nat /\ h = g + 1
      BY <1>3, <2>3, <2>4 DEF IInv, WorkShared
    <2> HIDE DEF g, h, n
    <2>6. cursor' <= n + h
      BY <1>2, <1>3, <2>5
    <2>7. UNCHANGED input
      BY <1>1 DEF queryVars
    <2> QED BY <1>1, <1>4, <2>6, <2>7 DEF IInv, WorkShared, IsMorsel, n, h
  <1> QED BY <1>9, <1>10, <1>11, <1>12, <1>13, <1>14, <1>15, <1>16 DEF IInv

LEMMA PassIInv ==
  ASSUME IInv, NEW t \in Team, PassForEnd(t)
  PROVE  IInv'
  <1> DEFINE l == FirstMerge
  <1>1. /\ pc[t] = "forEnd" /\ UNCHANGED <<allocatorVars, acc, cur, numThreads, local, queryVars>>
        /\ pc' = [pc EXCEPT ![t] = l]
    BY DEF PassForEnd, At, GoTo, accumulatorVars
  <1>2. l \in {"count", "sum", "intSum"} /\ (l = "count" => kind = "price")
        /\ (l = "intSum" => kind # "price") /\ (kind = "price" => l = "count")
    BY DEF FirstMerge, IInv, TypeOK
  <1> HIDE DEF l
  <1>3. Move(t, l) /\ WorkShared'
    BY <1>1, <1>2, MoveShared
  <1>4. /\ busy /\ acc \in Partial /\ DOMAIN cur = Team /\ cur[t] = None
        /\ acc.min \in Int /\ acc.max \in Int
    <2>1. \A e \in Extrema : e \in Int
      BY AggregatorAssumption DEF Extrema
    <2> QED BY <1>1, <2>1, BusyAt DEF IInv, TypeOK, Loops, Partial
  <1>5. SumConserved'
    BY <1>1, <1>2, <1>3, SumKept DEF Unmerged
  <1>6. CountConserved'
    BY <1>1, <1>2, <1>3, CountKept DEF Uncounted
  <1>7. ExtremaMerged'
    BY <1>1, <1>2, <1>3, ExtremaKept
  <1>8. TypeOK'
    <2>1. UNCHANGED <<totalRows, morselSize, morsels>> /\ cursor' \in 0 .. SizeMod - 1
      BY <1>1 DEF allocatorVars, IInv, TypeOK
    <2> QED BY <1>1, <1>2, <1>3, <1>4, <2>1, MoveTyped DEF Loops
  <1>9. Labels' /\ StaleIsWorse' /\ PricesMet'
    BY <1>1, <1>2, <1>3, <1>4, MoveLabels, MoveStale, MoveMet
  <1> QED BY <1>3, <1>5, <1>6, <1>7, <1>8, <1>9 DEF IInv

(* What the steps that merge have in common: they leave the allocator, the
   locals and the query alone.                                              *)
LEMMA MergeFrame ==
  ASSUME IInv, NEW t \in Team, NEW l, pc[t] \notin {"work", "done"}, l # "work",
         pc' = [pc EXCEPT ![t] = l],
         UNCHANGED <<allocatorVars, numThreads, local, queryVars>>
  PROVE  /\ Move(t, l) /\ WorkShared' /\ PricesMet' /\ busy
         /\ UNCHANGED <<totalRows, morselSize, morsels>> /\ cursor' \in 0 .. SizeMod - 1
         /\ acc \in Partial /\ local[t] \in Partial /\ DOMAIN cur = Team
         /\ acc.min \in Int /\ acc.max \in Int /\ local[t].min \in Int /\ local[t].max \in Int
         /\ pc[t] \notin Loops => cur[t] = None
  <1>1. Move(t, l) /\ WorkShared'
    BY MoveShared
  <1>2. PricesMet'
    BY <1>1, MoveMet
  <1>3. UNCHANGED <<totalRows, morselSize, morsels>> /\ cursor' \in 0 .. SizeMod - 1
    BY DEF allocatorVars, IInv, TypeOK
  <1>4. \A e \in Extrema : e \in Int
    BY AggregatorAssumption DEF Extrema
  <1>5. busy /\ acc \in Partial /\ local[t] \in Partial /\ DOMAIN cur = Team
    BY BusyAt
  <1>6. /\ acc.min \in Int /\ acc.max \in Int /\ local[t].min \in Int /\ local[t].max \in Int
    BY <1>4, <1>5 DEF Partial
  <1>7. pc[t] \notin Loops => cur[t] = None
    BY DEF IInv, TypeOK
  <1> QED BY <1>1, <1>2, <1>3, <1>5, <1>6, <1>7

LEMMA AddCountIInv ==
  ASSUME IInv, NEW t \in Team, AddCount(t)
  PROVE  IInv'
  <1> DEFINE l == "sum"
  <1>1. /\ pc[t] = "count" /\ UNCHANGED <<allocatorVars, cur, numThreads, local, queryVars>>
        /\ pc' = [pc EXCEPT ![t] = l]
        /\ acc' = [acc EXCEPT !["count"] = acc.count + local[t].count]
    BY DEF AddCount, At, GoTo, AddIntegral
  <1>2. /\ Move(t, l) /\ WorkShared' /\ PricesMet' /\ busy
        /\ UNCHANGED <<totalRows, morselSize, morsels>> /\ cursor' \in 0 .. SizeMod - 1
        /\ acc \in Partial /\ DOMAIN cur = Team /\ cur[t] = None
        /\ acc.min \in Int /\ acc.max \in Int
    BY <1>1, MergeFrame DEF Loops
  <1>3. /\ acc'.count = acc.count + local[t].count
        /\ acc'.sum = acc.sum /\ acc'.min = acc.min /\ acc'.max = acc.max
    BY <1>1, <1>2 DEF Partial
  <1>4. kind = "price"
    BY <1>1 DEF IInv, Labels
  <1>5. CountConserved'
    BY <1>1, <1>2, <1>3, <1>4, CountMerged DEF Uncounted
  <1>6. acc' \in Partial
    <2>1. acc'.count \in 0 .. MaxRows
      BY <1>2, <1>3, <1>5, CountInRange
    <2> QED BY <1>1, <1>2, <1>3, <2>1 DEF Partial
  <1>7. SumConserved'
    BY <1>1, <1>2, <1>3, SumKept DEF Unmerged
  <1>8. ExtremaMerged'
    BY <1>1, <1>2, <1>3, ExtremaKept
  <1>9. TypeOK'
    BY <1>1, <1>2, <1>6, MoveTyped DEF Loops
  <1>10. Labels'
    BY <1>2, MoveLabels
  <1>11. StaleIsWorse'
    <2>1. acc'.min <= acc.min /\ acc'.max >= acc.max /\ cur' = cur /\ cur'[t] = None
      BY <1>1, <1>2, <1>3
    <2> HIDE DEF l
    <2> QED BY <1>2, <1>6, <2>1, MoveStale
  <1> QED BY <1>2, <1>5, <1>7, <1>8, <1>9, <1>10, <1>11 DEF IInv

LEMMA AddQuantityIInv ==
  ASSUME IInv, NEW t \in Team, AddQuantity(t)
  PROVE  IInv'
  <1> DEFINE l == "done"
  <1>1. /\ pc[t] = "intSum" /\ UNCHANGED <<allocatorVars, cur, numThreads, local, queryVars>>
        /\ pc' = [pc EXCEPT ![t] = l]
        /\ acc' = [acc EXCEPT !["sum"] = Plus(acc.sum, local[t].sum)]
    BY DEF AddQuantity, At, GoTo, AddIntegral
  <1>2. /\ Move(t, l) /\ WorkShared' /\ PricesMet' /\ busy
        /\ UNCHANGED <<totalRows, morselSize, morsels>> /\ cursor' \in 0 .. SizeMod - 1
        /\ acc \in Partial /\ DOMAIN cur = Team /\ cur[t] = None
        /\ acc.min \in Int /\ acc.max \in Int
    BY <1>1, MergeFrame DEF Loops
  <1>3. /\ acc'.sum = Plus(acc.sum, local[t].sum)
        /\ acc'.count = acc.count /\ acc'.min = acc.min /\ acc'.max = acc.max
    BY <1>1, <1>2 DEF Partial
  <1>4. kind # "price"
    BY <1>1 DEF IInv, Labels
  <1>5. SumConserved'
    BY <1>1, <1>2, <1>3, SumMerged DEF Unmerged
  <1>6. acc' \in Partial
    <2>1. acc'.sum \in Sums
      BY <1>2, <1>3, <1>5, SumInRange
    <2> QED BY <1>1, <1>2, <1>3, <2>1 DEF Partial
  <1>7. CountConserved'
    BY <1>2, <1>3, <1>4, CountKept
  <1>8. ExtremaMerged'
    BY <1>2, <1>3, <1>4, ExtremaKept
  <1>9. TypeOK'
    BY <1>1, <1>2, <1>6, MoveTyped DEF Loops
  <1>10. Labels'
    BY <1>2, MoveLabels
  <1>11. StaleIsWorse'
    <2>1. acc'.min <= acc.min /\ acc'.max >= acc.max /\ cur' = cur /\ cur'[t] = None
      BY <1>1, <1>2, <1>3
    <2> HIDE DEF l
    <2> QED BY <1>2, <1>6, <2>1, MoveStale
  <1> QED BY <1>2, <1>5, <1>7, <1>8, <1>9, <1>10, <1>11 DEF IInv

(* load() and the reload of a compare-and-swap that fails. *)
LEMMA LoadIInv ==
  ASSUME IInv, NEW t \in Team, NEW a \in Loops, LoadCurrent(t, a) \/ Retry(t, a)
  PROVE  IInv'
  <1>1. /\ pc[t] = a /\ UNCHANGED <<allocatorVars, acc, numThreads, local, queryVars>>
        /\ pc' = [pc EXCEPT ![t] = a] /\ cur' = [cur EXCEPT ![t] = acc[a]]
    BY DEF LoadCurrent, Retry, At, Load, CasFails, IInv, TypeOK
  <1>2. a \in {"sum", "min", "max"}
    BY DEF Loops
  <1>3. /\ Move(t, a) /\ WorkShared' /\ PricesMet' /\ busy
        /\ UNCHANGED <<totalRows, morselSize, morsels>> /\ cursor' \in 0 .. SizeMod - 1
        /\ acc \in Partial /\ DOMAIN cur = Team
        /\ acc.min \in Int /\ acc.max \in Int
    BY <1>1, <1>2, MergeFrame
  <1>4. /\ cur'[t] = acc[a] /\ DOMAIN cur' = Team
        /\ \A u \in Team : u # t => cur'[u] = cur[u]
    BY <1>1, <1>3
  <1>5. acc[a] \in IF a = "sum" THEN Sums ELSE Extrema
    BY <1>2, <1>3 DEF Partial
  <1>6. SumConserved' /\ CountConserved' /\ ExtremaMerged'
    BY <1>1, <1>3, SumKept, CountKept, ExtremaKept
  <1>7. TypeOK'
    BY <1>1, <1>3, <1>4, <1>5, MoveTyped
  <1>8. Labels'
    BY <1>1, <1>2, <1>3, MoveLabels DEF IInv, Labels
  <1>9. StaleIsWorse'
    BY <1>1, <1>3, <1>4, MoveStale
  <1> QED BY <1>3, <1>6, <1>7, <1>8, <1>9 DEF IInv

LEMMA ExchangeSumIInv ==
  ASSUME IInv, NEW t \in Team, Exchange(t, "sum")
  PROVE  IInv'
  <1> DEFINE l == IF kind = "price" THEN "min" ELSE "done"
  <1>1. /\ pc[t] = "sum" /\ UNCHANGED <<allocatorVars, numThreads, local, queryVars>>
        /\ pc' = [pc EXCEPT ![t] = l] /\ acc.sum = cur[t]
        /\ cur' = [cur EXCEPT ![t] = None]
        /\ acc' = [acc EXCEPT !["sum"] = Plus(cur[t], local[t].sum)]
    BY DEF Exchange, At, GoTo, After, CasSucceeds, Desired
  <1>2. /\ l \in {"min", "done"} /\ l \notin {"work", "forEnd", "count", "sum", "intSum", "max"}
        /\ (l = "min") = (kind = "price")
    OBVIOUS
  <1> HIDE DEF l
  <1>3. /\ Move(t, l) /\ WorkShared' /\ PricesMet' /\ busy
        /\ UNCHANGED <<totalRows, morselSize, morsels>> /\ cursor' \in 0 .. SizeMod - 1
        /\ acc \in Partial /\ DOMAIN cur = Team
        /\ acc.min \in Int /\ acc.max \in Int
    BY <1>1, <1>2, MergeFrame
  <1>4. /\ acc'.sum = Plus(acc.sum, local[t].sum)
        /\ acc'.count = acc.count /\ acc'.min = acc.min /\ acc'.max = acc.max
        /\ cur'[t] = None /\ DOMAIN cur' = Team /\ \A u \in Team : u # t => cur'[u] = cur[u]
    BY <1>1, <1>3 DEF Partial
  <1>5. SumConserved'
    BY <1>1, <1>2, <1>3, <1>4, SumMerged DEF Unmerged
  <1>6. acc' \in Partial
    <2>1. acc'.sum \in Sums
      BY <1>3, <1>4, <1>5, SumInRange
    <2> QED BY <1>1, <1>3, <1>4, <2>1 DEF Partial
  <1>7. CountConserved'
    BY <1>1, <1>2, <1>3, <1>4, CountKept DEF Uncounted
  <1>8. ExtremaMerged'
    BY <1>1, <1>2, <1>3, <1>4, ExtremaKept
  <1>9. TypeOK'
    BY <1>2, <1>3, <1>4, <1>6, MoveTyped DEF Loops
  <1>10. Labels'
    BY <1>2, <1>3, MoveLabels
  <1>11. StaleIsWorse'
    <2>1. acc'.min <= acc.min /\ acc'.max >= acc.max
      BY <1>3, <1>4
    <2> QED BY <1>3, <1>4, <1>6, <2>1, MoveStale
  <1> QED BY <1>3, <1>5, <1>7, <1>8, <1>9, <1>10, <1>11 DEF IInv

(* The value of t is the least offered so far. *)
LEMMA ExchangeMinIInv ==
  ASSUME IInv, NEW t \in Team, Exchange(t, "min")
  PROVE  IInv'
  <1> DEFINE l == "max"
  <1>1. /\ pc[t] = "min" /\ UNCHANGED <<allocatorVars, numThreads, local, queryVars>>
        /\ pc' = [pc EXCEPT ![t] = l] /\ acc.min = cur[t] /\ local[t].min < cur[t]
        /\ cur' = [cur EXCEPT ![t] = None]
        /\ acc' = [acc EXCEPT !["min"] = local[t].min]
    BY DEF Exchange, At, GoTo, After, CasSucceeds, Desired, GoesOn
  <1>2. /\ Move(t, l) /\ WorkShared' /\ PricesMet' /\ busy
        /\ UNCHANGED <<totalRows, morselSize, morsels>> /\ cursor' \in 0 .. SizeMod - 1
        /\ acc \in Partial /\ local[t] \in Partial /\ DOMAIN cur = Team
        /\ acc.min \in Int /\ acc.max \in Int /\ local[t].min \in Int
    BY <1>1, MergeFrame
  <1>3. /\ acc'.sum = acc.sum /\ acc'.count = acc.count
        /\ acc'.min = local[t].min /\ acc'.max = acc.max
        /\ cur'[t] = None /\ DOMAIN cur' = Team /\ \A u \in Team : u # t => cur'[u] = cur[u]
    BY <1>1, <1>2 DEF Partial
  <1>4. acc' \in Partial
    BY <1>1, <1>2 DEF Partial
  <1>5. kind = "price"
    BY <1>1 DEF IInv, Labels
  <1>6. SumConserved'
    BY <1>1, <1>2, <1>3, SumKept DEF Unmerged
  <1>7. CountConserved'
    BY <1>1, <1>2, <1>3, CountKept DEF Uncounted
  <1>8. ExtremaMerged'
    <2>1. Team' = Team /\ UNCHANGED <<busy, kind, local>>
          /\ pc'[t] = l /\ \A u \in Team : u # t => pc'[u] = pc[u]
      BY <1>2, MoveFrame DEF IInv
    <2>2. MinOffered' = MinOffered \union {local[t].min} /\ MaxOffered' = MaxOffered
      BY <1>1, <2>1 DEF MinOffered, MaxOffered
    <2>3. IsLeast(acc.min, MinOffered) /\ IsGreatest(acc.max, MaxOffered)
      BY <1>2, <1>5 DEF IInv, ExtremaMerged
    <2>4. \A x \in MinOffered : x \in Int
      <3>1. Infinity \in Int /\ \A e \in Extrema : e \in Int
        BY AggregatorAssumption DEF Extrema
      <3>2. \A u \in Team : local[u].min \in Int
        BY <3>1, NumbersHeld DEF IInv, Partial
      <3> QED BY <3>1, <3>2 DEF MinOffered
    <2>5. IsLeast(local[t].min, MinOffered \union {local[t].min})
      BY <1>1, <1>2, <2>3, <2>4 DEF IsLeast
    <2> QED BY <1>3, <2>2, <2>3, <2>5 DEF ExtremaMerged
  <1>9. TypeOK'
    BY <1>2, <1>3, <1>4, MoveTyped DEF Loops
  <1>10. Labels'
    BY <1>2, <1>5, MoveLabels
  <1>11. StaleIsWorse'
    <2>1. acc'.min <= acc.min /\ acc'.max >= acc.max
      BY <1>1, <1>2, <1>3
    <2> HIDE DEF l
    <2> QED BY <1>2, <1>3, <1>4, <2>1, MoveStale
  <1> QED BY <1>2, <1>6, <1>7, <1>8, <1>9, <1>10, <1>11 DEF IInv

LEMMA ExchangeMaxIInv ==
  ASSUME IInv, NEW t \in Team, Exchange(t, "max")
  PROVE  IInv'
  <1> DEFINE l == "done"
  <1>1. /\ pc[t] = "max" /\ UNCHANGED <<allocatorVars, numThreads, local, queryVars>>
        /\ pc' = [pc EXCEPT ![t] = l] /\ acc.max = cur[t] /\ local[t].max > cur[t]
        /\ cur' = [cur EXCEPT ![t] = None]
        /\ acc' = [acc EXCEPT !["max"] = local[t].max]
    BY DEF Exchange, At, GoTo, After, CasSucceeds, Desired, GoesOn
  <1>2. /\ Move(t, l) /\ WorkShared' /\ PricesMet' /\ busy
        /\ UNCHANGED <<totalRows, morselSize, morsels>> /\ cursor' \in 0 .. SizeMod - 1
        /\ acc \in Partial /\ local[t] \in Partial /\ DOMAIN cur = Team
        /\ acc.min \in Int /\ acc.max \in Int /\ local[t].max \in Int
    BY <1>1, MergeFrame
  <1>3. /\ acc'.sum = acc.sum /\ acc'.count = acc.count
        /\ acc'.max = local[t].max /\ acc'.min = acc.min
        /\ cur'[t] = None /\ DOMAIN cur' = Team /\ \A u \in Team : u # t => cur'[u] = cur[u]
    BY <1>1, <1>2 DEF Partial
  <1>4. acc' \in Partial
    BY <1>1, <1>2 DEF Partial
  <1>5. kind = "price"
    BY <1>1 DEF IInv, Labels
  <1>6. SumConserved'
    BY <1>1, <1>2, <1>3, SumKept DEF Unmerged
  <1>7. CountConserved'
    BY <1>1, <1>2, <1>3, CountKept DEF Uncounted
  <1>8. ExtremaMerged'
    <2>1. Team' = Team /\ UNCHANGED <<busy, kind, local>>
          /\ pc'[t] = l /\ \A u \in Team : u # t => pc'[u] = pc[u]
      BY <1>2, MoveFrame DEF IInv
    <2>2. MaxOffered' = MaxOffered \union {local[t].max} /\ MinOffered' = MinOffered
      BY <1>1, <2>1 DEF MinOffered, MaxOffered
    <2>3. IsLeast(acc.min, MinOffered) /\ IsGreatest(acc.max, MaxOffered)
      BY <1>2, <1>5 DEF IInv, ExtremaMerged
    <2>4. \A x \in MaxOffered : x \in Int
      <3>1. -Infinity \in Int /\ \A e \in Extrema : e \in Int
        BY AggregatorAssumption DEF Extrema
      <3>2. \A u \in Team : local[u].max \in Int
        BY <3>1, NumbersHeld DEF IInv, Partial
      <3> QED BY <3>1, <3>2 DEF MaxOffered
    <2>5. IsGreatest(local[t].max, MaxOffered \union {local[t].max})
      BY <1>1, <1>2, <2>3, <2>4 DEF IsGreatest
    <2> QED BY <1>3, <2>2, <2>3, <2>5 DEF ExtremaMerged
  <1>9. TypeOK'
    BY <1>2, <1>3, <1>4, MoveTyped DEF Loops
  <1>10. Labels'
    BY <1>2, <1>5, MoveLabels
  <1>11. StaleIsWorse'
    <2>1. acc'.min <= acc.min /\ acc'.max >= acc.max
      BY <1>1, <1>2, <1>3
    <2> HIDE DEF l
    <2> QED BY <1>2, <1>3, <1>4, <2>1, MoveStale
  <1> QED BY <1>2, <1>6, <1>7, <1>8, <1>9, <1>10, <1>11 DEF IInv

(* The thread gives up because its value is no better than what it loaded,
   and so no better than the shared value.                                  *)
LEMMA NoImprovementIInv ==
  ASSUME IInv, NEW t \in Team, NEW a \in Loops, NoImprovement(t, a)
  PROVE  IInv'
  <1> DEFINE l == After(a)
  <1>1. /\ pc[t] = a /\ cur[t] # None /\ ~GoesOn(t, a)
        /\ UNCHANGED <<allocatorVars, acc, numThreads, local, queryVars>>
        /\ pc' = [pc EXCEPT ![t] = l] /\ cur' = [cur EXCEPT ![t] = None]
    BY DEF NoImprovement, At, GoTo, StopLoop
  <1>2. /\ a \in {"min", "max"}
        /\ a = "min" => l = "max" /\ ~(local[t].min < cur[t])
        /\ a = "max" => l = "done" /\ ~(local[t].max > cur[t])
    <2>1. CASE a = "sum"
      BY <1>1, <2>1, Zenon DEF GoesOn
    <2>2. CASE a = "min"
      <3>1. l = "max"
        BY <2>2, Zenon DEF After
      <3>2. ~(local[t].min < cur[t])
        BY <1>1, <2>2, Zenon DEF GoesOn
      <3> HIDE DEF l
      <3> QED BY <2>2, <3>1, <3>2
    <2>3. CASE a = "max"
      <3>1. l = "done"
        BY <2>3, Zenon DEF After
      <3>2. ~(local[t].max > cur[t])
        BY <1>1, <2>3, Zenon DEF GoesOn
      <3> HIDE DEF l
      <3> QED BY <2>3, <3>1, <3>2
    <2> HIDE DEF l
    <2> QED BY <2>1, <2>2, <2>3 DEF Loops
  <1> HIDE DEF l
  <1>3. /\ Move(t, l) /\ WorkShared' /\ PricesMet' /\ busy
        /\ UNCHANGED <<totalRows, morselSize, morsels>> /\ cursor' \in 0 .. SizeMod - 1
        /\ acc \in Partial /\ DOMAIN cur = Team
        /\ acc.min \in Int /\ acc.max \in Int /\ local[t].min \in Int /\ local[t].max \in Int
    BY <1>1, <1>2, MergeFrame
  <1>4. cur'[t] = None /\ DOMAIN cur' = Team /\ \A u \in Team : u # t => cur'[u] = cur[u]
    BY <1>1, <1>3
  <1>5. kind = "price"
    BY <1>1, <1>2 DEF IInv, Labels
  <1>6. SumConserved'
    BY <1>1, <1>2, <1>3, SumKept DEF Unmerged
  <1>7. CountConserved'
    BY <1>1, <1>2, <1>3, CountKept DEF Uncounted
  <1>8. ExtremaMerged'
    <2>1. Team' = Team /\ UNCHANGED <<busy, kind, local>>
          /\ pc'[t] = l /\ \A u \in Team : u # t => pc'[u] = pc[u]
      BY <1>3, MoveFrame DEF IInv
    <2>2. IsLeast(acc.min, MinOffered) /\ IsGreatest(acc.max, MaxOffered)
      BY <1>3, <1>5 DEF IInv, ExtremaMerged
    <2>3. cur[t] \in Int
      <3>1. \A e \in Extrema : e \in Int
        BY AggregatorAssumption DEF Extrema
      <3> QED BY <1>1, <1>2, <3>1 DEF IInv, TypeOK
    <2>4. CASE a = "min"
      <3>1. MinOffered' = MinOffered \union {local[t].min} /\ MaxOffered' = MaxOffered
        BY <1>1, <1>2, <2>1, <2>4 DEF MinOffered, MaxOffered
      <3>2. acc.min <= cur[t]
        BY <1>1, <2>4 DEF IInv, StaleIsWorse
      <3>3. acc.min <= local[t].min
        BY <1>2, <1>3, <2>3, <2>4, <3>2
      <3>4. IsLeast(acc.min, MinOffered \union {local[t].min})
        BY <2>2, <3>3 DEF IsLeast
      <3> QED BY <1>1, <2>2, <3>1, <3>4 DEF ExtremaMerged
    <2>5. CASE a = "max"
      <3>1. MaxOffered' = MaxOffered \union {local[t].max} /\ MinOffered' = MinOffered
        BY <1>1, <1>2, <2>1, <2>5 DEF MinOffered, MaxOffered
      <3>2. acc.max >= cur[t]
        BY <1>1, <2>5 DEF IInv, StaleIsWorse
      <3>3. acc.max >= local[t].max
        BY <1>2, <1>3, <2>3, <2>5, <3>2
      <3>4. IsGreatest(acc.max, MaxOffered \union {local[t].max})
        BY <2>2, <3>3 DEF IsGreatest
      <3> QED BY <1>1, <2>2, <3>1, <3>4 DEF ExtremaMerged
    <2> QED BY <1>2, <2>4, <2>5
  <1>9. TypeOK'
    BY <1>1, <1>2, <1>3, <1>4, MoveTyped DEF Loops
  <1>10. Labels'
    BY <1>2, <1>3, <1>5, MoveLabels
  <1>11. StaleIsWorse'
    <2>1. acc' \in Partial /\ acc'.min <= acc.min /\ acc'.max >= acc.max
      BY <1>1, <1>3
    <2> QED BY <1>3, <1>4, <2>1, MoveStale
  <1> QED BY <1>3, <1>6, <1>7, <1>8, <1>9, <1>10, <1>11 DEF IInv

LEMMA StepIInv ==
  ASSUME IInv, NEW t, Step(t)
  PROVE  IInv'
  <1>1. t \in Team
    BY DEF Step, Work, LeaveLoop, PassForEnd, AddCount, AddQuantity, LoadCurrent,
           Exchange, Retry, NoImprovement, At
  <1>2. CASE Work(t) \/ LeaveLoop(t) \/ PassForEnd(t)
    BY <1>1, <1>2, WorkIInv, LeaveIInv, PassIInv
  <1>3. CASE AddCount(t) \/ AddQuantity(t)
    BY <1>1, <1>3, AddCountIInv, AddQuantityIInv
  <1>4. ASSUME NEW a \in Loops, Exchange(t, a) PROVE IInv'
    <2>1. a \in {"sum", "min", "max"}
      BY DEF Loops
    <2> QED BY <1>1, <1>4, <2>1, ExchangeSumIInv, ExchangeMinIInv, ExchangeMaxIInv
  <1>5. ASSUME NEW a \in Loops, LoadCurrent(t, a) \/ Retry(t, a) \/ NoImprovement(t, a)
        PROVE  IInv'
    BY <1>1, <1>5, LoadIInv, NoImprovementIInv
  <1> QED BY <1>2, <1>3, <1>4, <1>5 DEF Step

LEMMA ReturnIInv ==
  ASSUME IInv, Return
  PROVE  IInv'
  <1>1. /\ ~busy' /\ acc' = Fresh /\ local' = [t \in Team |-> Fresh]
        /\ UNCHANGED <<totalRows, morselSize, morsels, cursor, cur, numThreads, pc, kind, whole,
                       input, price>>
        /\ \A t \in Team : pc[t] = "done"
        /\ Team' = Team
    BY DEF Return, allocatorVars, Team
  <1>2. \A t \in Team : cur[t] = None
    BY <1>1 DEF IInv, TypeOK, Loops
  <1>3. TypeOK'
    <2>1. local' \in [Team -> Partial] /\ acc' \in Partial
      BY <1>1, FreshTyped
    <2>2. TypeOK /\ busy' \in BOOLEAN
      BY DEF IInv, Return
    <2>3. \A t \in Team' : cur'[t] = None
      BY <1>1, <1>2
    <2> QED BY <1>1, <2>1, <2>2, <2>3 DEF TypeOK
  <1>4. WorkShared'
    <2>1. Gone' = Gone
      BY <1>1 DEF Gone
    <2>2. WorkShared
      BY DEF IInv
    <2> QED BY <1>1, <2>1, <2>2 DEF WorkShared, IsMorsel
  <1>5. Labels' /\ StaleIsWorse'
    BY <1>1, <1>2 DEF Labels, StaleIsWorse
  <1>6. SumConserved' /\ CountConserved' /\ ExtremaMerged' /\ PricesMet'
    BY <1>1 DEF SumConserved, CountConserved, ExtremaMerged, PricesMet
  <1> QED BY <1>3, <1>4, <1>5, <1>6 DEF IInv

LEMMA StutterIInv ==
  ASSUME IInv, UNCHANGED vars
  PROVE  IInv'
  <1>1. /\ UNCHANGED <<totalRows, morselSize, morsels, cursor, acc, cur, numThreads, pc, local>>
        /\ UNCHANGED <<busy, kind, whole, input, price>> /\ Team' = Team
    BY DEF vars, allocatorVars, accumulatorVars, queryVars, Team
  <1>2. PositionsSeen' = PositionsSeen
    BY <1>1 DEF PositionsSeen, IsMorsel, MorselAt
  <1>3. /\ Gone' = Gone /\ NotMerged' = NotMerged /\ NotCounted' = NotCounted
        /\ MinOffered' = MinOffered /\ MaxOffered' = MaxOffered
    BY <1>1 DEF Gone, NotMerged, NotCounted, MinOffered, MaxOffered
  <1>4. TypeOK'
    BY <1>1 DEF IInv, TypeOK
  <1>5. WorkShared'
    BY <1>1, <1>3 DEF IInv, WorkShared, IsMorsel
  <1>6. Labels' /\ StaleIsWorse'
    BY <1>1 DEF IInv, Labels, StaleIsWorse
  <1>7. SumConserved' /\ CountConserved'
    BY <1>1, <1>2, <1>3 DEF IInv, SumConserved, CountConserved
  <1>8. ExtremaMerged' /\ PricesMet'
    BY <1>1, <1>2, <1>3 DEF IInv, ExtremaMerged, PricesMet
  <1> QED BY <1>4, <1>5, <1>6, <1>7, <1>8 DEF IInv

(* The invariant holds in every state of every execution. *)
THEOREM AggregatorInvariance == Spec => []IInv
  <1>1. IInv /\ [Next]_vars => IInv'
    <2> SUFFICES ASSUME IInv, [Next]_vars PROVE IInv'
      OBVIOUS
    <2>1. CASE \/ \E n \in 1 .. MaxThreads, rows \in 0 .. MaxRows : CallTable(n, rows)
               \/ \E n \in 1 .. MaxThreads, s \in Selections : CallSelection(n, s)
      <3>1. PICK n \in 1 .. MaxThreads :
              \/ \E rows \in 0 .. MaxRows : CallTable(n, rows)
              \/ \E s \in Selections : CallSelection(n, s)
        BY <2>1
      <3> QED BY <3>1, CallIInv DEF IInv
    <2>2. CASE \E t \in 0 .. (MaxThreads - 1) : Step(t)
      BY <2>2, StepIInv
    <2>3. CASE Return
      BY <2>3, ReturnIInv
    <2>4. CASE UNCHANGED vars
      BY <2>4, StutterIInv
    <2> QED BY <2>1, <2>2, <2>3, <2>4 DEF Next
  <1> QED BY InitIInv, <1>1, PTL DEF Spec

-----------------------------------------------------------------------------
(* Whatever the threads do, the counters, sums and extrema of a call stay
   within what its input can give, and the cursor does not wrap.            *)
THEOREM AggregatorTypeCorrect == Spec => []TypeOK
  BY AggregatorInvariance, PTL DEF IInv

(* However the threads interleave their work and their merges into the
   AtomicAccumulators, each row handed out is in one sum exactly as often as
   it occurs in the input.                                                  *)
THEOREM NothingAddedTwice == Spec => []SumConserved
  BY AggregatorInvariance, PTL DEF IInv

LEMMA MinOfLeast ==
  ASSUME NEW S, NEW m, IsLeast(m, S), \A x \in S : x \in Int
  PROVE  Min(S) = m
  <1>1. Min(S) \in S /\ \A x \in S : Min(S) <= x
    BY DEF Min, IsLeast
  <1>2. Min(S) <= m /\ m <= Min(S) /\ m \in Int /\ Min(S) \in Int
    BY <1>1 DEF IsLeast
  <1> QED BY <1>2

LEMMA MaxOfGreatest ==
  ASSUME NEW S, NEW m, IsGreatest(m, S), \A x \in S : x \in Int
  PROVE  Max(S) = m
  <1>1. Max(S) \in S /\ \A x \in S : Max(S) >= x
    BY DEF Max, IsGreatest
  <1>2. Max(S) >= m /\ m >= Max(S) /\ m \in Int /\ Max(S) \in Int
    BY <1>1 DEF IsGreatest
  <1> QED BY <1>2

(* update_min() and update_max() lose no update, whatever other threads store
   between their load and their compare-and-swap.                           *)
THEOREM ExtremaExact == Spec => []ExtremaTrack
  <1>1. IInv => ExtremaTrack
    <2> SUFFICES ASSUME IInv, busy, kind = "price"
                 PROVE  acc.min = Min(MinOffered) /\ acc.max = Max(MaxOffered)
      BY DEF ExtremaTrack, MinOffered, MaxOffered
    <2>1. IsLeast(acc.min, MinOffered) /\ IsGreatest(acc.max, MaxOffered)
      BY DEF IInv, ExtremaMerged
    <2>2. /\ \A x \in MinOffered : x \in Int
          /\ \A x \in MaxOffered : x \in Int
      <3>1. Infinity \in Int /\ -Infinity \in Int /\ \A e \in Extrema : e \in Int
        BY AggregatorAssumption DEF Extrema
      <3>2. \A u \in Team : local[u].min \in Int /\ local[u].max \in Int
        BY <3>1, NumbersHeld DEF IInv, Partial
      <3> QED BY <3>1, <3>2 DEF MinOffered, MaxOffered
    <2> QED BY <2>1, <2>2, MinOfLeast, MaxOfGreatest
  <1> QED BY AggregatorInvariance, <1>1, PTL

(***************************************************************************)
(* Every step of an aggregation is a step of the sequential specification, *)
(* or none.  What is left of ImplementsSequentialAggregate is that every   *)
(* call returns.                                                           *)
(***************************************************************************)
AnswersAgree == A!Init /\ [][A!Call \/ A!Return]_(A!aggregateVars)

(* When all have merged, everything is in the accumulators. *)
LEMMA ReturnAgrees ==
  ASSUME IInv, Return
  PROVE  A!Return
  <1>1. /\ busy /\ busy' = FALSE /\ result' = acc /\ UNCHANGED <<kind, input, price>>
        /\ \A t \in Team : pc[t] = "done"
    BY DEF Return
  <1>2. /\ 0 \in Team /\ cursor \in Nat /\ Len(input) \in Nat /\ DOMAIN input = 1 .. Len(input)
        /\ \A k \in DOMAIN input : input[k] \in Rows
    BY DEF IInv, TypeOK, Team
  <1>3. PositionsSeen = DOMAIN input
    <2>1. ~(cursor < Len(morsels))
      BY <1>1, <1>2 DEF IInv, WorkShared, IsMorsel
    <2>2. Divided(Len(input), morsels)
      BY DEF IInv, WorkShared
    <2>3. Behind(morsels, cursor) = 1 .. Len(input)
      BY <1>2, <2>1, <2>2, BehindEnd
    <2> QED BY <1>2, <2>3, SeenIsBehind
  <1>4. A!SumAgrees
    <2>1. ASSUME NEW r \in Rows PROVE acc.sum[r] = A!TimesAdded(r)
      <3> DEFINE f == [t \in Team |-> local[t].sum[r]]
      <3>1. NotMerged = {}
        BY <1>1 DEF NotMerged
      <3>2. SumFunctionOnSet(f, NotMerged) = 0
        BY <3>1, SumEmpty
      <3>3. acc.sum[r] + SumFunctionOnSet(f, NotMerged)
              = Cardinality({k \in DOMAIN input : input[k] = r})
        BY <1>1, <1>3 DEF IInv, SumConserved
      <3>4. acc.sum[r] \in Nat
        BY NumbersHeld DEF IInv
      <3> DEFINE F == SumFunctionOnSet(f, NotMerged)
                 d == Cardinality({k \in DOMAIN input : input[k] = r})
      <3>5. F = 0 /\ acc.sum[r] + F = d
        BY <3>2, <3>3
      <3> HIDE DEF F, d
      <3>6. acc.sum[r] = d
        BY <3>4, <3>5
      <3>7. A!TimesAdded(r) = Cardinality({k \in DOMAIN input : input[k] = r})
        BY DEF A!TimesAdded, A!Cardinality, Cardinality
      <3>8. A!TimesAdded(r) = d
        BY ONLY <3>7, Zenon DEF d
      <3> QED BY ONLY <3>6, <3>8, Zenon
    <2>2. acc.sum = [r \in Rows |-> acc.sum[r]]
      BY DEF IInv, TypeOK, Partial, Sums
    <2> QED BY <1>1, <2>1, <2>2 DEF A!SumAgrees, A!Rows, Rows
  <1>5. ASSUME kind = "price" PROVE A!CountAgrees
    <2> DEFINE f == [t \in Team |-> local[t].count]
    <2>1. NotCounted = {}
      BY <1>1, <1>5 DEF NotCounted
    <2>2. SumFunctionOnSet(f, NotCounted) = 0
      BY <2>1, SumEmpty
    <2>3. acc.count + SumFunctionOnSet(f, NotCounted) = Cardinality(1 .. Len(input))
      BY <1>1, <1>2, <1>3 DEF IInv, CountConserved
    <2>4. acc.count \in Nat
      BY NumbersHeld DEF IInv
    <2>5. Cardinality(1 .. Len(input)) = Len(input)
      <3> DEFINE n == Len(input)
      <3>1. n \in Nat
        BY <1>2
      <3> HIDE DEF n
      <3>2. Cardinality(1 .. n) = n
        BY <3>1, FS_Interval
      <3> QED BY <3>2 DEF n
    <2> HIDE DEF f
    <2>6. acc.count = Len(input)
      BY <2>2, <2>3, <2>4, <2>5
    <2> QED BY <1>1, <2>6 DEF A!CountAgrees
  <1>6. ASSUME kind = "price", input # <<>> PROVE A!MinAgrees /\ A!MaxAgrees
    <2>1. IsLeast(acc.min, MinOffered) /\ IsGreatest(acc.max, MaxOffered)
      BY <1>1, <1>6 DEF IInv, ExtremaMerged
    <2>2. /\ MinOffered = {Infinity} \union {local[t].min : t \in Team}
          /\ MaxOffered = {-Infinity} \union {local[t].max : t \in Team}
      BY <1>1 DEF MinOffered, MaxOffered
    <2>3. \A k \in DOMAIN input : price[input[k]] \in (-Infinity + 1) .. (Infinity - 1)
      <3>1. price \in [Rows -> (-Infinity + 1) .. (Infinity - 1)]
        BY <1>1, AggregatorAssumption DEF IInv, Labels, Rows
      <3> QED BY <1>2, <3>1
    <2>4. PICK k \in DOMAIN input : TRUE
      <3>1. Len(input) # 0
        BY <1>6 DEF IInv, TypeOK
      <3>2. 1 \in DOMAIN input
        BY <1>2, <3>1
      <3> QED BY <3>2
    <2>5. /\ Infinity \in Nat /\ \A e \in Extrema : e \in Int
          /\ acc.min \in Int /\ acc.max \in Int
          /\ \A t \in Team : local[t].min \in Int /\ local[t].max \in Int
      <3>1. Infinity \in Nat /\ \A e \in Extrema : e \in Int
        BY AggregatorAssumption DEF Extrema
      <3>2. acc \in Partial /\ \A t \in Team : local[t] \in Partial
        BY NumbersHeld DEF IInv, TypeOK
      <3> QED BY <3>1, <3>2 DEF Partial
    <2>6. \A j \in DOMAIN input : acc.min <= price[input[j]] /\ acc.max >= price[input[j]]
      <3> SUFFICES ASSUME NEW j \in DOMAIN input
                   PROVE  acc.min <= price[input[j]] /\ acc.max >= price[input[j]]
        OBVIOUS
      <3>1. PICK u \in Team, v \in Team :
              local[u].min <= price[input[j]] /\ local[v].max >= price[input[j]]
        BY <1>1, <1>3 DEF IInv, PricesMet
      <3>2. acc.min <= local[u].min /\ acc.max >= local[v].max
        BY <2>1, <2>2 DEF IsLeast, IsGreatest
      <3>3. price[input[j]] \in Int
        BY <2>3, <2>5
      <3> QED BY <2>5, <3>1, <3>2, <3>3
    <2>7. acc.min # Infinity /\ acc.max # -Infinity
      <3>1. price[input[k]] < Infinity /\ price[input[k]] > -Infinity /\ price[input[k]] \in Int
        BY <2>3, <2>4, <2>5
      <3>2. acc.min <= price[input[k]] /\ acc.max >= price[input[k]]
        BY <2>4, <2>6
      <3> QED BY <2>5, <3>1, <3>2
    <2>8. (\E t \in Team : acc.min = local[t].min) /\ (\E t \in Team : acc.max = local[t].max)
      BY <2>1, <2>2, <2>7 DEF IsLeast, IsGreatest
    <2>9. /\ \E j \in DOMAIN input : acc.min = price[input[j]]
          /\ \E j \in DOMAIN input : acc.max = price[input[j]]
      BY <1>1, <1>3, <2>7, <2>8 DEF IInv, PricesMet
    <2> QED BY <1>1, <2>6, <2>9 DEF A!MinAgrees, A!MaxAgrees, A!Prices
  <1> QED BY <1>1, <1>4, <1>5, <1>6 DEF A!Return

(* For every team, table, selection and interleaving a parallel aggregation
   answers what the sequential one does: the same additions, the same count,
   and on an input that is not empty the same extrema.                      *)
THEOREM AnswersAreSequential == Spec => AnswersAgree
  <1>1. Init => A!Init
    BY DEF Init, A!Init, Zero, Nothing, A!NoAnswer, A!Rows, Rows
  <1>2. IInv /\ [Next]_vars => [A!Call \/ A!Return]_(A!aggregateVars)
    <2> SUFFICES ASSUME IInv, [Next]_vars
                 PROVE  A!Call \/ A!Return \/ UNCHANGED A!aggregateVars
      OBVIOUS
    <2>1. ASSUME NEW n \in 1 .. MaxThreads, Begin(n) PROVE A!Call
      BY <2>1 DEF Begin, A!Call, A!NoAnswer, Nothing, Zero, Rows, A!Rows
    <2>2. CASE \/ \E n \in 1 .. MaxThreads, rows \in 0 .. MaxRows : CallTable(n, rows)
               \/ \E n \in 1 .. MaxThreads, s \in Selections : CallSelection(n, s)
      BY <2>1, <2>2 DEF CallTable, CallSelection
    <2>3. ASSUME NEW t \in 0 .. (MaxThreads - 1), Step(t) PROVE UNCHANGED A!aggregateVars
      <3>1. UNCHANGED queryVars
        BY <2>3 DEF Step, Work, LeaveLoop, PassForEnd, AddCount, AddQuantity, LoadCurrent,
                    Exchange, Retry, NoImprovement
      <3> QED BY <3>1 DEF queryVars, A!aggregateVars
    <2>4. CASE Return
      BY <2>4, ReturnAgrees
    <2>5. CASE UNCHANGED vars
      BY <2>5 DEF vars, queryVars, A!aggregateVars
    <2> QED BY <2>2, <2>3, <2>4, <2>5 DEF Next
  <1> QED BY AggregatorInvariance, <1>1, <1>2, PTL DEF Spec, AnswersAgree
===============================================================================
