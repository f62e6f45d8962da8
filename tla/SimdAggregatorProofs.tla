------------------------ MODULE SimdAggregatorProofs ------------------------
(***************************************************************************)
(* Safety of the vectorized aggregations, for both architectures and every *)
(* team, table, selection and division of the loop that satisfy            *)
(* SimdAssumption.                                                         *)
(***************************************************************************)
EXTENDS SimdAggregator, CommonLemmas

-----------------------------------------------------------------------------
(* The positions of the input whose turn thread t has taken, and their
   prices.                                                                  *)
Seen(t) ==
  {k \in DOMAIN input : (k - 1) \div Width \in cut[t] .. (next[t] - 1)}

Offered(P) == {price[input[k]] : k \in P}

Prices == (-Infinity + 1) .. (Infinity - 1)

(* What the program counters say, and what a call gives the team. *)
Labels ==
  /\ ~busy => \A t \in Team : pc[t] = "done"
  /\ kind = "sum" => \A t \in Team : pc[t] \notin {"count", "min", "max"}
  /\ \A t \in Team : pc[t] # "work" => next[t] = cut[t + 1]
  /\ \A t \in Team : pc[t] \notin {"work", "forEnd"} => vec[t] = FreshVec
  /\ Len(input) <= MaxRows
  /\ busy => price \in [Rows -> Prices]

(* A thread holds the rows of its own turns. *)
ThreadsHold ==
  busy => \A t \in Team :
    /\ local[t].count = Cardinality(Seen(t))
    /\ \A r \in Rows : Held(t, r) = Occurs(Seen(t), input, r)

(* A scalar x and a vector v hold the best of the prices ps, if exact; each
   is one of these prices or has never been set.                            *)
Worst(field) == IF field = "min" THEN Infinity ELSE -Infinity

Beats(field, x, y) == IF field = "min" THEN x <= y ELSE x >= y

HoldsBest(field, exact, lanes, x, v, ps) ==
  /\ x \in {Worst(field)} \union ps
  /\ \A l \in lanes : v[l] \in {Worst(field)} \union ps
  /\ exact => \A p \in ps : Beats(field, x, p) \/ \E l \in lanes : Beats(field, v[l], p)

(* The maximum is exact where hmax_ps is. *)
Exact(field) == field = "min" \/ arch = "NEON"

ExtremaHeld ==
  busy => \A t \in Team :
    /\ HoldsBest("min", Exact("min"), Lanes, local[t].min, vec[t].min, Offered(Seen(t)))
    /\ HoldsBest("max", Exact("max"), Lanes, local[t].max, vec[t].max, Offered(Seen(t)))

(* The accumulators have what the threads have merged. *)
Merged(labels) == {t \in Team : pc[t] \notin labels}

Unmerged == {"work", "forEnd", "count", "sum"}
Uncounted == {"work", "forEnd", "count"}
Unoffered(field) == Unmerged \union IF field = "min" THEN {"min"} ELSE {"min", "max"}

SumsMerged ==
  busy => \A r \in Rows :
    acc.sum[r] =
      SumFunctionOnSet([t \in Team |-> Occurs(Seen(t), input, r)], Merged(Unmerged))

CountsMerged ==
  busy /\ kind = "price" =>
    acc.count = SumFunctionOnSet([t \in Team |-> Cardinality(Seen(t))], Merged(Uncounted))

HasBest(field, x) ==
  /\ x \in {Worst(field)} \union Offered(PositionsSeen)
  /\ kind = "price" /\ Exact(field) =>
       \A t \in Merged(Unoffered(field)) : \A p \in Offered(Seen(t)) : Beats(field, x, p)

ExtremaMerged == busy => HasBest("min", acc.min) /\ HasBest("max", acc.max)

IInv ==
  /\ TypeOK /\ Labels /\ ThreadsHold /\ ExtremaHeld
  /\ SumsMerged /\ CountsMerged /\ ExtremaMerged

-----------------------------------------------------------------------------
(* The blocks of the loop. *)
LEMMA WidthIs ==
  ASSUME arch \in Archs
  PROVE  /\ Width = 4 \/ Width = 8
         /\ Lanes = 0 .. (Width - 1) /\ IsFiniteSet(Lanes)
         /\ arch = "AVX2" => Width = 8 /\ Lanes = 0 .. 7
         /\ arch # "AVX2" => Width = 4 /\ Lanes = 0 .. 3 /\ arch = "NEON"
  <1>1. arch = "AVX2" \/ arch = "NEON"
    BY SimdAssumption
  <1>2. /\ Width = 4 \/ Width = 8
        /\ arch = "AVX2" => Width = 8
        /\ arch # "AVX2" => Width = 4
    BY <1>1 DEF Width
  <1>3. IsFiniteSet(0 .. (Width - 1))
    <2>1. 0 \in Int /\ Width - 1 \in Int
      BY <1>2
    <2> QED BY ONLY <2>1, FS_Interval, Zenon
  <1> QED BY <1>1, <1>2, <1>3 DEF Lanes

(* Position k is in block b of blocks of w. *)
LEMMA BlockNumber ==
  ASSUME NEW w, w = 4 \/ w = 8, NEW k \in Nat \ {0}
  PROVE  /\ (k - 1) \div w \in Nat
         /\ \A b \in Nat : (k - 1) \div w = b <=> b * w + 1 <= k /\ k <= b * w + w
  OBVIOUS

(* The positions of block b. *)
Block(b) == {k \in DOMAIN input : (k - 1) \div Width = b}

LEMMA InputIs ==
  ASSUME TypeOK
  PROVE  /\ Len(input) \in Nat /\ DOMAIN input = 1 .. Len(input)
         /\ \A k \in DOMAIN input : input[k] \in Rows
         /\ IsFiniteSet(DOMAIN input) /\ Cardinality(DOMAIN input) = Len(input)
         /\ IsFiniteSet(Rows) /\ MaxRows \in Nat
  <1>1. input \in Seq(Rows) /\ MaxRows \in Nat
    BY SimdAssumption DEF TypeOK
  <1>2. /\ Len(input) \in Nat /\ DOMAIN input = 1 .. Len(input)
        /\ \A k \in DOMAIN input : input[k] \in Rows
    BY <1>1
  <1>3. 0 \in Int /\ MaxRows - 1 \in Int /\ Rows = 0 .. (MaxRows - 1)
    BY <1>1 DEF Rows
  <1>4. IsFiniteSet(Rows)
    BY ONLY <1>3, FS_Interval, Zenon
  <1>5. IsFiniteSet(1 .. Len(input)) /\ Cardinality(1 .. Len(input)) = Len(input)
    BY <1>2, FS_Interval
  <1> QED BY <1>1, <1>2, <1>4, <1>5

LEMMA WholeBlock ==
  ASSUME TypeOK, NEW b \in Nat, IsWhole(b)
  PROVE  /\ Block(b) = {b * Width + l + 1 : l \in Lanes}
         /\ Block(b) = (b * Width + 1) .. (b * Width + Width)
  <1> DEFINE w == Width
  <1>1. /\ (w = 4 \/ w = 8) /\ Lanes = 0 .. (w - 1)
        /\ Len(input) \in Nat /\ DOMAIN input = 1 .. Len(input)
    BY WidthIs, InputIs DEF TypeOK
  <1> HIDE DEF w
  <1>2. \A k \in 1 .. Len(input) :
          (k - 1) \div w = b <=> b * w + 1 <= k /\ k <= b * w + w
    BY <1>1, BlockNumber
  <1>3. b * w \in Nat /\ b * w + w <= Len(input)
    <2>1. (b + 1) * Width <= Len(input)
      BY DEF IsWhole
    <2>2. (b + 1) * w = b * w + w /\ b * w \in Nat
      BY <1>1
    <2> QED BY <2>1, <2>2 DEF w
  <1> DEFINE p == b * w
             n == Len(input)
  <1>4. {k \in 1 .. Len(input) : (k - 1) \div w = b} = (p + 1) .. (p + w)
    <2>1. p \in Nat /\ p + w <= n /\ n \in Nat
      BY <1>1, <1>3
    <2>2. \A k \in 1 .. n : (k - 1) \div w = b <=> p + 1 <= k /\ k <= p + w
      BY <1>2
    <2> HIDE DEF p, n
    <2>3. \A k \in (p + 1) .. (p + w) : k \in 1 .. n /\ p + 1 <= k /\ k <= p + w
      BY <1>1, <2>1
    <2>4. \A k \in 1 .. n : p + 1 <= k /\ k <= p + w => k \in (p + 1) .. (p + w)
      BY <1>1, <2>1
    <2>5. {k \in 1 .. n : (k - 1) \div w = b} = (p + 1) .. (p + w)
      BY ONLY <2>2, <2>3, <2>4, Zenon
    <2> QED BY <2>5 DEF n
  <1>5. (p + 1) .. (p + w) = {p + l + 1 : l \in 0 .. (w - 1)}
    <2>1. p \in Nat /\ w \in Nat
      BY <1>1, <1>3
    <2> HIDE DEF p
    <2>2. ASSUME NEW k \in (p + 1) .. (p + w)
          PROVE  k - p - 1 \in 0 .. (w - 1) /\ k = p + (k - p - 1) + 1
      BY <2>1
    <2>3. ASSUME NEW l \in 0 .. (w - 1)
          PROVE  p + l + 1 \in (p + 1) .. (p + w)
      BY <2>1
    <2> QED BY <2>2, <2>3
  <1> QED BY <1>1, <1>4, <1>5 DEF Block, w

LEMMA RestBlock ==
  ASSUME TypeOK, NEW b \in Nat, ~IsWhole(b)
  PROVE  Block(b) = RestOf(b)
  <1> DEFINE w == Width
  <1>1. /\ (w = 4 \/ w = 8)
        /\ Len(input) \in Nat /\ DOMAIN input = 1 .. Len(input)
    BY WidthIs, InputIs DEF TypeOK
  <1> HIDE DEF w
  <1>2. \A k \in 1 .. Len(input) :
          (k - 1) \div w = b <=> b * w + 1 <= k /\ k <= b * w + w
    BY <1>1, BlockNumber
  <1>3. b * w \in Nat /\ Len(input) < b * w + w
    <2>1. ~((b + 1) * Width <= Len(input))
      BY DEF IsWhole
    <2>2. (b + 1) * w = b * w + w /\ b * w \in Nat
      BY <1>1
    <2>3. ~((b + 1) * w <= Len(input))
      BY <2>1 DEF w
    <2> QED BY <1>1, <2>2, <2>3
  <1>4. {k \in 1 .. Len(input) : (k - 1) \div w = b} = (b * w + 1) .. Len(input)
    BY <1>1, <1>2, <1>3
  <1> QED BY <1>1, <1>4 DEF Block, RestOf, w

(* The schedule. *)
LEMMA CutIs ==
  ASSUME TypeOK
  PROVE  /\ numThreads \in Nat \ {0} /\ BlockCount(Len(input)) \in Nat
         /\ cut \in [0 .. numThreads -> 0 .. BlockCount(Len(input))]
         /\ cut[0] = 0 /\ cut[numThreads] = BlockCount(Len(input))
         /\ \A t \in Team : t \in Nat /\ t + 1 \in 0 .. numThreads /\ cut[t] \in Nat
                              /\ cut[t + 1] \in Nat /\ next[t] \in Nat
                              /\ cut[t] <= next[t] /\ next[t] <= cut[t + 1]
         /\ \A i, j \in 0 .. numThreads : i <= j => cut[i] <= cut[j]
  <1> DEFINE blocks == BlockCount(Len(input))
  <1>1. numThreads \in Nat \ {0}
    BY SimdAssumption DEF TypeOK
  <1>2. blocks \in Nat
    <2>1. (Width = 4 \/ Width = 8) /\ Len(input) \in Nat
      BY WidthIs, InputIs DEF TypeOK
    <2>2. \A w : w = 4 \/ w = 8 => (Len(input) + w - 1) \div w \in Nat
      BY <2>1
    <2> QED BY <2>1, <2>2 DEF BlockCount
  <1> HIDE DEF blocks
  <1>3. /\ cut \in [0 .. numThreads -> 0 .. blocks] /\ cut[0] = 0 /\ cut[numThreads] = blocks
        /\ \A t \in 0 .. (numThreads - 1) : cut[t] <= cut[t + 1]
    BY DEF TypeOK, Schedules, blocks
  <1>4. \A t \in Team : t \in Nat /\ t + 1 \in 0 .. numThreads /\ cut[t] \in Nat
                          /\ cut[t + 1] \in Nat /\ next[t] \in Nat
                          /\ cut[t] <= next[t] /\ next[t] <= cut[t + 1]
    <2> SUFFICES ASSUME NEW t \in Team
                 PROVE  t \in Nat /\ t + 1 \in 0 .. numThreads /\ cut[t] \in Nat
                          /\ cut[t + 1] \in Nat /\ next[t] \in Nat
                          /\ cut[t] <= next[t] /\ next[t] <= cut[t + 1]
      OBVIOUS
    <2>1. t \in Nat /\ t \in 0 .. numThreads /\ t + 1 \in 0 .. numThreads
      BY <1>1 DEF Team
    <2>2. cut[t] \in Nat /\ cut[t + 1] \in Nat
      BY <1>2, <1>3, <2>1
    <2>3. next[t] \in cut[t] .. cut[t + 1]
      BY DEF TypeOK
    <2> QED BY <2>1, <2>2, <2>3
  <1>5. ASSUME NEW i \in 0 .. numThreads, NEW j \in 0 .. numThreads, i <= j
        PROVE  cut[i] <= cut[j]
    <2> DEFINE good == {k \in i .. numThreads : cut[i] <= cut[k]}
    <2>1. i \in good
      BY <1>1, <1>2, <1>3
    <2>2. ASSUME NEW k \in i .. (numThreads - 1), k \in good PROVE k + 1 \in good
      <3>1. k \in 0 .. (numThreads - 1) /\ k + 1 \in i .. numThreads /\ k + 1 \in 0 .. numThreads
        BY <1>1
      <3>2. cut[k] <= cut[k + 1] /\ cut[k] \in Nat /\ cut[k + 1] \in Nat /\ cut[i] \in Nat
        BY <1>1, <1>2, <1>3, <3>1
      <3>3. cut[i] <= cut[k]
        BY <2>2
      <3> QED BY <3>1, <3>2, <3>3
    <2> HIDE DEF good
    <2>3. \A k \in i .. numThreads : k \in good
      <3>1. i \in Int /\ numThreads \in Int
        BY <1>1
      <3> QED BY <2>1, <2>2, <3>1, UpwardInduction
    <2>4. j \in good
      BY <1>1, <1>5, <2>3
    <2> QED BY <2>4 DEF good
  <1> QED BY <1>1, <1>2, <1>3, <1>4, <1>5 DEF blocks

(* No position is of two threads. *)
LEMMA SeenParts ==
  ASSUME TypeOK
  PROVE  /\ IsFiniteSet(Team) /\ PositionsSeen = UNION {Seen(t) : t \in Team}
         /\ \A t \in Team : Seen(t) \subseteq DOMAIN input /\ IsFiniteSet(Seen(t))
         /\ \A t, u \in Team : t # u => Seen(t) \cap Seen(u) = {}
  <1>1. numThreads \in Nat /\ \A t \in Team : t \in Nat /\ t + 1 \in 0 .. numThreads
    BY CutIs
  <1>2. IsFiniteSet(Team)
    <2>1. 0 \in Int /\ numThreads - 1 \in Int /\ Team = 0 .. (numThreads - 1)
      BY <1>1 DEF Team
    <2> QED BY ONLY <2>1, FS_Interval, Zenon
  <1>3. \A t \in Team : Seen(t) \subseteq DOMAIN input /\ IsFiniteSet(Seen(t))
    BY InputIs, FS_Subset DEF Seen
  <1>4. ASSUME NEW t \in Team, NEW u \in Team, t < u
        PROVE  Seen(t) \cap Seen(u) = {}
    <2>1. /\ cut[t + 1] <= cut[u] /\ cut[t] \in Nat /\ cut[u] \in Nat /\ cut[t + 1] \in Nat
          /\ next[t] \in Nat /\ next[t] <= cut[t + 1] /\ next[u] \in Nat
      <3>1. t + 1 \in 0 .. numThreads /\ u \in 0 .. numThreads /\ t + 1 <= u
        BY <1>1, <1>4 DEF Team
      <3> QED BY <3>1, CutIs
    <2>2. \A b : b \in cut[t] .. (next[t] - 1) => b \notin cut[u] .. (next[u] - 1)
      BY <2>1
    <2> QED BY <2>2 DEF Seen
  <1>5. \A t, u \in Team : t # u => t < u \/ u < t
    BY <1>1
  <1>6. \A t, u \in Team : t # u => Seen(t) \cap Seen(u) = {}
    BY <1>4, <1>5
  <1>7. PositionsSeen = UNION {Seen(t) : t \in Team}
    BY DEF PositionsSeen, Seen
  <1> QED BY <1>2, <1>3, <1>6, <1>7

(* A turn of thread t takes the positions of a block that nobody has taken. *)
LEMMA TurnSeen ==
  ASSUME TypeOK, NEW t \in Team, next[t] < cut[t + 1],
         next' = [next EXCEPT ![t] = @ + 1], UNCHANGED <<arch, cut, input>>
  PROVE  /\ Seen(t)' = Seen(t) \union Block(next[t]) /\ Seen(t) \cap Block(next[t]) = {}
         /\ \A u \in Team : u # t => Seen(u)' = Seen(u)
         /\ Block(next[t]) \subseteq DOMAIN input /\ IsFiniteSet(Block(next[t]))
         /\ next[t] \in Nat /\ next[t] + 1 \in cut[t] .. cut[t + 1]
         /\ next' \in [Team -> Nat] /\ next'[t] = next[t] + 1
  <1>1. /\ next \in [Team -> Nat] /\ cut[t] \in Nat /\ next[t] \in Nat /\ cut[t] <= next[t]
        /\ cut[t + 1] \in Nat
    BY CutIs DEF TypeOK
  <1>2. next'[t] = next[t] + 1 /\ \A u \in Team : u # t => next'[u] = next[u]
    BY <1>1
  <1>3. Width' = Width
    BY DEF Width
  <1>4. \A b : /\ b \in cut[t] .. (next'[t] - 1) <=> b \in cut[t] .. (next[t] - 1) \/ b = next[t]
               /\ next[t] \notin cut[t] .. (next[t] - 1)
    BY <1>1, <1>2
  <1>5. Seen(t)' = Seen(t) \union Block(next[t]) /\ Seen(t) \cap Block(next[t]) = {}
    BY <1>3, <1>4 DEF Seen, Block
  <1>6. \A u \in Team : u # t => Seen(u)' = Seen(u)
    BY <1>2, <1>3 DEF Seen
  <1>7. Block(next[t]) \subseteq DOMAIN input /\ IsFiniteSet(Block(next[t]))
    BY InputIs, FS_Subset DEF Block
  <1>8. next[t] + 1 \in cut[t] .. cut[t + 1] /\ next' \in [Team -> Nat]
    BY <1>1
  <1> QED BY <1>1, <1>2, <1>5, <1>6, <1>7, <1>8

(* When all runs are over all positions have been taken. *)
LEMMA SeenAll ==
  ASSUME TypeOK, \A t \in Team : next[t] = cut[t + 1]
  PROVE  PositionsSeen = DOMAIN input
  <1> SUFFICES ASSUME NEW k \in DOMAIN input
               PROVE  \E t \in Team : (k - 1) \div Width \in cut[t] .. (next[t] - 1)
    BY DEF PositionsSeen
  <1> DEFINE b == (k - 1) \div Width
             blocks == BlockCount(Len(input))
             S == {i \in 0 .. numThreads : cut[i] <= b}
  <1>1. /\ numThreads \in Nat \ {0} /\ blocks \in Nat
        /\ cut \in [0 .. numThreads -> 0 .. blocks] /\ cut[0] = 0 /\ cut[numThreads] = blocks
    BY CutIs
  <1>2. b \in Nat /\ b < blocks
    <2>1. Width = 4 \/ Width = 8
      BY WidthIs DEF TypeOK
    <2>2. Len(input) \in Nat /\ k \in Nat \ {0} /\ k <= Len(input)
      BY InputIs
    <2>3. \A w : w = 4 \/ w = 8 =>
            (k - 1) \div w \in Nat /\ (k - 1) \div w < (Len(input) + w - 1) \div w
      BY <2>2
    <2> QED BY <2>1, <2>3 DEF BlockCount
  <1> HIDE DEF b, blocks
  <1>3. IsFiniteSet(S) /\ S \subseteq Int /\ 0 \in S
    <2>1. 0 \in Int /\ numThreads \in Int
      BY <1>1
    <2>2. IsFiniteSet(0 .. numThreads)
      BY ONLY <2>1, FS_Interval, Zenon
    <2> QED BY <1>1, <1>2, <2>2, FS_Subset
  <1>4. PICK t : IsGreatest(t, S)
    BY <1>3, GreatestExists
  <1>5. t \in 0 .. numThreads /\ cut[t] <= b /\ t # numThreads
    BY <1>1, <1>2, <1>4 DEF IsGreatest
  <1>6. t \in Team /\ t + 1 \in 0 .. numThreads /\ t + 1 \notin S
    BY <1>1, <1>4, <1>5 DEF IsGreatest, Team
  <1>7. b < cut[t + 1] /\ cut[t + 1] = next[t]
    BY <1>1, <1>2, <1>6
  <1>8. b \in cut[t] .. (next[t] - 1)
    BY <1>1, <1>2, <1>5, <1>6, <1>7
  <1> QED BY <1>6, <1>8 DEF b

LEMMA SeenNumbers ==
  ASSUME TypeOK, Len(input) <= MaxRows, NEW P, P \subseteq DOMAIN input, NEW r
  PROVE  /\ IsFiniteSet(P) /\ Cardinality(P) \in 0 .. MaxRows
         /\ Occurs(P, input, r) \in 0 .. MaxRows
  <1> DEFINE Q == {k \in P : input[k] = r}
  <1>1. IsFiniteSet(DOMAIN input) /\ Cardinality(DOMAIN input) = Len(input) /\ MaxRows \in Nat
        /\ Len(input) \in Nat
    BY InputIs
  <1>2. P \subseteq DOMAIN input /\ Q \subseteq DOMAIN input
    OBVIOUS
  <1> HIDE DEF Q
  <1>3. /\ IsFiniteSet(P) /\ Cardinality(P) <= Cardinality(DOMAIN input) /\ Cardinality(P) \in Nat
        /\ Cardinality(Q) <= Cardinality(DOMAIN input) /\ Cardinality(Q) \in Nat
    BY <1>1, <1>2, FS_Subset, FS_CardinalityType
  <1>4. Cardinality(P) \in 0 .. MaxRows /\ Cardinality(Q) \in 0 .. MaxRows
    BY <1>1, <1>3
  <1> QED BY <1>3, <1>4 DEF Occurs, Q

(* What the threads of S have taken, thread by thread and together. *)
LEMMA SeenTogether ==
  ASSUME TypeOK, NEW S, S \subseteq Team, NEW r
  PROVE  /\ SumFunctionOnSet([t \in Team |-> Occurs(Seen(t), input, r)], S) =
              Occurs(UNION {Seen(t) : t \in S}, input, r)
         /\ SumFunctionOnSet([t \in Team |-> Cardinality(Seen(t))], S) =
              Cardinality(UNION {Seen(t) : t \in S})
         /\ UNION {Seen(t) : t \in S} \subseteq DOMAIN input
  <1> DEFINE P == [t \in S |-> Seen(t)]
             f == [t \in Team |-> Occurs(Seen(t), input, r)]
             g == [t \in Team |-> Cardinality(Seen(t))]
             h == [t \in S |-> Occurs(P[t], input, r)]
             i == [t \in S |-> Cardinality(P[t])]
  <1>1. /\ IsFiniteSet(S) /\ \A t \in S : IsFiniteSet(P[t])
        /\ \A t, u \in S : t # u => P[t] \cap P[u] = {}
        /\ UNION {P[t] : t \in S} = UNION {Seen(t) : t \in S}
        /\ UNION {Seen(t) : t \in S} \subseteq DOMAIN input
    BY SeenParts, FS_Subset
  <1>2. \A t \in S : f[t] = h[t] /\ g[t] = i[t]
    OBVIOUS
  <1> HIDE DEF P
  <1>3. Occurs(UNION {P[t] : t \in S}, input, r) = SumFunctionOnSet(h, S)
    BY <1>1, DisjointOccurs
  <1>6. Cardinality(UNION {P[t] : t \in S}) = SumFunctionOnSet(i, S)
    BY ONLY <1>1, DisjointUnion, Zenon
  <1> HIDE DEF f, g, h, i
  <1>4. SumFunctionOnSet(f, S) = SumFunctionOnSet(h, S)
    BY <1>1, <1>2, SumSame
  <1>5. SumFunctionOnSet(g, S) = SumFunctionOnSet(i, S)
    BY <1>1, <1>2, SumSame
  <1> QED BY <1>1, <1>3, <1>4, <1>5, <1>6 DEF f, g

(* A vector counts a row in each lane that has loaded it. *)
LEMMA OneOccurs ==
  ASSUME NEW k, NEW s, NEW r \in Rows, s[k] \in Rows
  PROVE  IsFiniteSet({k}) /\ Occurs({k}, s, r) = One(s[k])[r] /\ One(s[k])[r] \in 0 .. 1
  <1>1. One(s[k])[r] = IF s[k] = r THEN 1 ELSE 0
    BY DEF One, Zero
  <1>2. IsFiniteSet({k})
    BY FS_Singleton
  <1>3. CASE s[k] = r
    <2>1. {l \in {k} : s[l] = r} = {k}
      BY <1>3
    <2> QED BY <1>1, <1>3, <2>1, FS_Singleton DEF Occurs
  <1>4. CASE s[k] # r
    <2>1. {l \in {k} : s[l] = r} = {}
      BY <1>4
    <2>2. Occurs({k}, s, r) = 0
      BY <2>1, FS_EmptySet DEF Occurs
    <2> QED BY <1>1, <1>2, <1>4, <2>2
  <1> QED BY <1>3, <1>4

LEMMA LanesOccur ==
  ASSUME TypeOK, NEW b \in Nat, IsWhole(b)
  PROVE  /\ \A l \in Lanes : b * Width + l + 1 \in DOMAIN input /\ RowOf(b, l) \in Rows
         /\ Cardinality(Block(b)) = Width
         /\ \A r \in Rows :
              Occurs(Block(b), input, r) =
                SumFunctionOnSet([l \in Lanes |-> One(RowOf(b, l))[r]], Lanes)
  <1> DEFINE p == b * Width
             P == [l \in Lanes |-> {p + l + 1}]
  <1>1. /\ Width = 4 \/ Width = 8
        /\ IsFiniteSet(Lanes) /\ Lanes = 0 .. (Width - 1)
    BY WidthIs DEF TypeOK
  <1>2. /\ Block(b) = {p + l + 1 : l \in Lanes}
        /\ Block(b) = (p + 1) .. (p + Width)
    BY WholeBlock
  <1>3. p \in Nat
    BY <1>1
  <1> HIDE DEF p
  <1>4. \A l \in Lanes : p + l + 1 \in DOMAIN input /\ input[p + l + 1] \in Rows
    BY <1>2, InputIs DEF Block
  <1>5. Cardinality(Block(b)) = Width
    <2>1. p + 1 \in Int /\ p + Width \in Int /\ p + 1 <= p + Width
          /\ (p + Width) - (p + 1) + 1 = Width
      BY <1>1, <1>3
    <2>2. Cardinality((p + 1) .. (p + Width)) = (p + Width) - (p + 1) + 1
      BY <2>1, FS_Interval
    <2> QED BY <1>2, <2>1, <2>2
  <1>6. /\ \A l \in Lanes : IsFiniteSet(P[l])
        /\ \A l, m \in Lanes : l # m => P[l] \cap P[m] = {}
        /\ UNION {P[l] : l \in Lanes} = Block(b)
    <2>1. \A l \in Lanes : IsFiniteSet(P[l])
      BY FS_Singleton
    <2>2. \A l, m \in Lanes : l # m => p + l + 1 # p + m + 1
      BY <1>1, <1>3
    <2>3. UNION {P[l] : l \in Lanes} = {p + l + 1 : l \in Lanes}
      OBVIOUS
    <2> QED BY <1>2, <2>1, <2>2, <2>3
  <1>7. ASSUME NEW r \in Rows
        PROVE  Occurs(Block(b), input, r) =
                 SumFunctionOnSet([l \in Lanes |-> One(RowOf(b, l))[r]], Lanes)
    <2> DEFINE f == [l \in Lanes |-> Occurs(P[l], input, r)]
               g == [l \in Lanes |-> One(RowOf(b, l))[r]]
    <2>1. \A l \in Lanes : f[l] = g[l]
      BY <1>4, OneOccurs DEF RowOf, p
    <2> HIDE DEF P
    <2>2. Occurs(UNION {P[l] : l \in Lanes}, input, r) = SumFunctionOnSet(f, Lanes)
      BY <1>1, <1>6, DisjointOccurs
    <2> HIDE DEF f, g
    <2>3. SumFunctionOnSet(f, Lanes) = SumFunctionOnSet(g, Lanes)
      BY <1>1, <2>1, SumSame
    <2> QED BY <1>6, <2>2, <2>3 DEF g
  <1> QED BY <1>4, <1>5, <1>7 DEF RowOf, p

-----------------------------------------------------------------------------
(* The horizontal reductions. *)
LEMMA SumNext ==
  ASSUME NEW n \in Nat, NEW f, \A k \in 0 .. n : f[k] \in Int
  PROVE  SumFunctionOnSet(f, 0 .. n) = SumFunctionOnSet(f, 0 .. (n - 1)) + f[n]
         /\ SumFunctionOnSet(f, 0 .. (n - 1)) \in Int
  <1>1. 0 \in Int /\ n \in Int /\ n - 1 \in Int /\ n \in 0 .. n
    OBVIOUS
  <1>2. IsFiniteSet(0 .. n) /\ IsFiniteSet(0 .. (n - 1))
    BY ONLY <1>1, FS_Interval, Zenon
  <1>3. (0 .. n) \ {n} = 0 .. (n - 1)
    OBVIOUS
  <1>4. SumFunctionOnSet(f, 0 .. n) = f[n] + SumFunctionOnSet(f, (0 .. n) \ {n})
    BY <1>1, <1>2, SumTakeOut
  <1>5. SumFunctionOnSet(f, 0 .. (n - 1)) \in Int
    <2>1. \A k \in 0 .. (n - 1) : f[k] \in Int
      OBVIOUS
    <2> QED BY ONLY <1>2, <2>1, SumInt, Zenon
  <1>6. f[n] \in Int
    BY <1>1
  <1> DEFINE low == SumFunctionOnSet(f, 0 .. (n - 1))
             all == SumFunctionOnSet(f, 0 .. n)
  <1>7. all = f[n] + low /\ low \in Int
    BY <1>3, <1>4, <1>5
  <1> HIDE DEF low, all
  <1>8. all = low + f[n] /\ low \in Int
    BY <1>6, <1>7
  <1> QED BY <1>8 DEF low, all

LEMMA SumOfFour ==
  ASSUME NEW f, \A k \in 0 .. 3 : f[k] \in Int
  PROVE  /\ SumFunctionOnSet(f, 0 .. 3) = f[0] + f[1] + f[2] + f[3]
         /\ f[0] \in Int /\ f[1] \in Int /\ f[2] \in Int /\ f[3] \in Int
  <1>1. f[0] \in Int /\ f[1] \in Int /\ f[2] \in Int /\ f[3] \in Int
    OBVIOUS
  <1>2. SumFunctionOnSet(f, {}) = 0 /\ 0 .. (0 - 1) = {}
    BY SumEmpty
  <1>3. /\ \A k \in 0 .. 2 : f[k] \in Int
        /\ \A k \in 0 .. 1 : f[k] \in Int
        /\ \A k \in 0 .. 0 : f[k] \in Int
        /\ 1 - 1 = 0 /\ 2 - 1 = 1 /\ 3 - 1 = 2
    OBVIOUS
  <1>4. SumFunctionOnSet(f, 0 .. 0) = f[0]
    <2>1. SumFunctionOnSet(f, 0 .. 0) = SumFunctionOnSet(f, 0 .. (0 - 1)) + f[0]
      BY <1>3, SumNext
    <2> QED BY <1>1, <1>2, <2>1
  <1>5. SumFunctionOnSet(f, 0 .. 1) = f[0] + f[1]
    BY <1>1, <1>3, <1>4, SumNext
  <1>6. SumFunctionOnSet(f, 0 .. 2) = f[0] + f[1] + f[2]
    BY <1>1, <1>3, <1>5, SumNext
  <1>7. SumFunctionOnSet(f, 0 .. 3) = f[0] + f[1] + f[2] + f[3]
    BY <1>1, <1>3, <1>6, SumNext
  <1> QED BY <1>1, <1>7

LEMMA SumOfEight ==
  ASSUME NEW f, \A k \in 0 .. 7 : f[k] \in Int
  PROVE  /\ SumFunctionOnSet(f, 0 .. 7) =
              f[0] + f[1] + f[2] + f[3] + f[4] + f[5] + f[6] + f[7]
         /\ \A k \in 0 .. 7 : f[k] \in Int
  <1>1. f[4] \in Int /\ f[5] \in Int /\ f[6] \in Int /\ f[7] \in Int
    OBVIOUS
  <1>2. /\ \A k \in 0 .. 6 : f[k] \in Int
        /\ \A k \in 0 .. 5 : f[k] \in Int
        /\ \A k \in 0 .. 4 : f[k] \in Int
        /\ \A k \in 0 .. 3 : f[k] \in Int
        /\ 4 - 1 = 3 /\ 5 - 1 = 4 /\ 6 - 1 = 5 /\ 7 - 1 = 6
    OBVIOUS
  <1> DEFINE four == f[0] + f[1] + f[2] + f[3]
  <1>3. SumFunctionOnSet(f, 0 .. 3) = four /\ four \in Int
    BY <1>2, SumOfFour
  <1> HIDE DEF four
  <1>4. SumFunctionOnSet(f, 0 .. 4) = four + f[4]
    BY <1>1, <1>2, <1>3, SumNext
  <1>5. SumFunctionOnSet(f, 0 .. 5) = four + f[4] + f[5]
    BY <1>1, <1>2, <1>4, SumNext
  <1>6. SumFunctionOnSet(f, 0 .. 6) = four + f[4] + f[5] + f[6]
    BY <1>1, <1>2, <1>5, SumNext
  <1>7. SumFunctionOnSet(f, 0 .. 7) = four + f[4] + f[5] + f[6] + f[7]
    BY <1>1, <1>2, <1>6, SumNext
  <1> QED BY <1>7 DEF four

(* The lanes of a vector after its upper half has been combined into the
   lower, and the odd lanes into the even ones.                             *)
LEMMA HalvedIs ==
  ASSUME NEW field, NEW v
  PROVE  /\ Halved(field, v)[0] =
              Combined(field, Combined(field, v[0], v[4]), Combined(field, v[1], v[5]))
         /\ Halved(field, v)[2] =
              Combined(field, Combined(field, v[2], v[6]), Combined(field, v[3], v[7]))
  <1> DEFINE low == [l \in 0 .. 3 |-> Combined(field, v[l], v[l + 4])]
             dup == [l \in 0 .. 3 |-> low[2 * (l \div 2) + 1]]
  <1>1. Halved(field, v) = [l \in 0 .. 3 |-> Combined(field, low[l], dup[l])]
    BY DEF Halved
  <1>2. /\ low[0] = Combined(field, v[0], v[4]) /\ low[1] = Combined(field, v[1], v[5])
        /\ low[2] = Combined(field, v[2], v[6]) /\ low[3] = Combined(field, v[3], v[7])
    OBVIOUS
  <1> HIDE DEF low
  <1>3. 2 * (0 \div 2) + 1 = 1 /\ 2 * (2 \div 2) + 1 = 3
    OBVIOUS
  <1>4. dup[0] = low[1] /\ dup[2] = low[3]
    BY <1>3
  <1> HIDE DEF dup
  <1>5. /\ Halved(field, v)[0] = Combined(field, low[0], dup[0])
        /\ Halved(field, v)[2] = Combined(field, low[2], dup[2])
    BY <1>1
  <1> QED BY <1>2, <1>4, <1>5

(* hsum_ps adds every lane once. *)
LEMMA HSumIs ==
  ASSUME arch \in Archs, NEW v, \A l \in Lanes, r \in Rows : v[l][r] \in Nat, NEW r \in Rows
  PROVE  HSum(v)[r] = SumFunctionOnSet([l \in Lanes |-> v[l][r]], Lanes)
  <1> DEFINE f == [l \in Lanes |-> v[l][r]]
  <1>1. \A l \in Lanes : f[l] = v[l][r] /\ f[l] \in Int
    OBVIOUS
  <1> HIDE DEF f
  <1>2. \A x, y : Combined("sum", x, y) = Plus(x, y) /\ Plus(x, y)[r] = x[r] + y[r]
    BY DEF Combined, Plus
  <1>3. CASE arch = "AVX2"
    <2>1. Lanes = 0 .. 7
      BY <1>3, WidthIs
    <2>2. SumFunctionOnSet(f, Lanes) =
            f[0] + f[1] + f[2] + f[3] + f[4] + f[5] + f[6] + f[7]
      BY <1>1, <2>1, SumOfEight
    <2>3. HSum(v) = Combined("sum", Halved("sum", v)[0], Halved("sum", v)[2])
      BY <1>3 DEF HSum, Reduced
    <2>4. /\ Halved("sum", v)[0][r] = (v[0][r] + v[4][r]) + (v[1][r] + v[5][r])
          /\ Halved("sum", v)[2][r] = (v[2][r] + v[6][r]) + (v[3][r] + v[7][r])
      BY <1>2, HalvedIs
    <2>5. /\ f[0] = v[0][r] /\ f[1] = v[1][r] /\ f[2] = v[2][r] /\ f[3] = v[3][r]
          /\ f[4] = v[4][r] /\ f[5] = v[5][r] /\ f[6] = v[6][r] /\ f[7] = v[7][r]
          /\ f[0] \in Int /\ f[1] \in Int /\ f[2] \in Int /\ f[3] \in Int
          /\ f[4] \in Int /\ f[5] \in Int /\ f[6] \in Int /\ f[7] \in Int
      BY <1>1, <2>1
    <2>6. HSum(v)[r] = Halved("sum", v)[0][r] + Halved("sum", v)[2][r]
      BY <1>2, <2>3
    <2> QED BY <2>2, <2>4, <2>5, <2>6 DEF f
  <1>4. CASE arch # "AVX2"
    <2>1. Lanes = 0 .. 3
      BY <1>4, WidthIs
    <2>2. SumFunctionOnSet(f, Lanes) = f[0] + f[1] + f[2] + f[3]
      BY <1>1, <2>1, SumOfFour
    <2>3. HSum(v) = Combined("sum", Combined("sum", v[0], v[1]), Combined("sum", v[2], v[3]))
      BY <1>4 DEF HSum, Reduced, OnNeon
    <2>4. HSum(v)[r] = (v[0][r] + v[1][r]) + (v[2][r] + v[3][r])
      BY <1>2, <2>3
    <2>5. /\ f[0] = v[0][r] /\ f[1] = v[1][r] /\ f[2] = v[2][r] /\ f[3] = v[3][r]
          /\ f[0] \in Int /\ f[1] \in Int /\ f[2] \in Int /\ f[3] \in Int
      BY <1>1, <2>1
    <2> QED BY <2>2, <2>4, <2>5 DEF f
  <1> QED BY <1>3, <1>4

(* hmin_ps finds the least lane, hmax_ps some lane, on NEON the greatest. *)
LEMMA HMinIs ==
  ASSUME arch \in Archs, NEW v, \A l \in Lanes : v[l] \in Int
  PROVE  (\E l \in Lanes : HMin(v) = v[l]) /\ \A l \in Lanes : HMin(v) <= v[l]
  <1>1. \A x, y : Combined("min", x, y) = IF y < x THEN y ELSE x
    BY DEF Combined
  <1>2. CASE arch = "AVX2"
    <2>1. Lanes = 0 .. 7
      BY <1>2, WidthIs
    <2>2. HMin(v) = Combined("min", Halved("min", v)[0], Halved("min", v)[2])
      BY <1>2 DEF HMin, Reduced
    <2>3. /\ Halved("min", v)[0] =
               Combined("min", Combined("min", v[0], v[4]), Combined("min", v[1], v[5]))
          /\ Halved("min", v)[2] =
               Combined("min", Combined("min", v[2], v[6]), Combined("min", v[3], v[7]))
      BY HalvedIs
    <2>4. /\ v[0] \in Int /\ v[1] \in Int /\ v[2] \in Int /\ v[3] \in Int
          /\ v[4] \in Int /\ v[5] \in Int /\ v[6] \in Int /\ v[7] \in Int
      BY <2>1
    <2>5. /\ Halved("min", v)[0] \in {v[0], v[1], v[4], v[5]}
          /\ Halved("min", v)[0] <= v[0] /\ Halved("min", v)[0] <= v[1]
          /\ Halved("min", v)[0] <= v[4] /\ Halved("min", v)[0] <= v[5]
      BY <1>1, <2>3, <2>4
    <2>6. /\ Halved("min", v)[2] \in {v[2], v[3], v[6], v[7]}
          /\ Halved("min", v)[2] <= v[2] /\ Halved("min", v)[2] <= v[3]
          /\ Halved("min", v)[2] <= v[6] /\ Halved("min", v)[2] <= v[7]
      BY <1>1, <2>3, <2>4
    <2>7. /\ HMin(v) \in {Halved("min", v)[0], Halved("min", v)[2]}
          /\ HMin(v) <= Halved("min", v)[0] /\ HMin(v) <= Halved("min", v)[2]
      BY <1>1, <2>2, <2>4, <2>5, <2>6
    <2>8. HMin(v) \in {v[0], v[1], v[2], v[3], v[4], v[5], v[6], v[7]}
      BY <2>5, <2>6, <2>7
    <2>9. /\ HMin(v) <= v[0] /\ HMin(v) <= v[1] /\ HMin(v) <= v[2] /\ HMin(v) <= v[3]
          /\ HMin(v) <= v[4] /\ HMin(v) <= v[5] /\ HMin(v) <= v[6] /\ HMin(v) <= v[7]
      BY <2>4, <2>5, <2>6, <2>7
    <2>10. \E l \in Lanes : HMin(v) = v[l]
      BY <2>1, <2>8
    <2>11. ASSUME NEW l \in Lanes PROVE HMin(v) <= v[l]
      <3>1. l = 0 \/ l = 1 \/ l = 2 \/ l = 3 \/ l = 4 \/ l = 5 \/ l = 6 \/ l = 7
        BY <2>1
      <3> QED BY <2>9, <3>1
    <2> QED BY <2>10, <2>11
  <1>3. CASE arch # "AVX2"
    <2>1. Lanes = 0 .. 3
      BY <1>3, WidthIs
    <2>2. HMin(v) = Combined("min", Combined("min", v[0], v[1]), Combined("min", v[2], v[3]))
      BY <1>3 DEF HMin, Reduced, OnNeon
    <2>3. v[0] \in Int /\ v[1] \in Int /\ v[2] \in Int /\ v[3] \in Int
      BY <2>1
    <2>4. /\ HMin(v) \in {v[0], v[1], v[2], v[3]}
          /\ HMin(v) <= v[0] /\ HMin(v) <= v[1] /\ HMin(v) <= v[2] /\ HMin(v) <= v[3]
      BY <1>1, <2>2, <2>3
    <2>5. \E l \in Lanes : HMin(v) = v[l]
      BY <2>1, <2>4
    <2>6. ASSUME NEW l \in Lanes PROVE HMin(v) <= v[l]
      <3>1. l = 0 \/ l = 1 \/ l = 2 \/ l = 3
        BY <2>1
      <3> QED BY <2>4, <3>1
    <2> QED BY <2>5, <2>6
  <1> QED BY <1>2, <1>3

LEMMA HMaxIs ==
  ASSUME arch \in Archs, NEW v, \A l \in Lanes : v[l] \in Int
  PROVE  /\ \E l \in Lanes : HMax(v) = v[l]
         /\ arch = "NEON" => \A l \in Lanes : HMax(v) >= v[l]
  <1>1. \A x, y : Combined("max", x, y) = IF y > x THEN y ELSE x
    BY DEF Combined
  <1>2. CASE arch = "AVX2"
    <2>1. Lanes = 0 .. 7
      BY <1>2, WidthIs
    <2>2. HMax(v) = Halved("max", v)[0]
      BY <1>2 DEF HMax
    <2>3. Halved("max", v)[0] =
            Combined("max", Combined("max", v[0], v[4]), Combined("max", v[1], v[5]))
      BY HalvedIs
    <2>4. HMax(v) \in {v[0], v[1], v[4], v[5]}
      BY <1>1, <2>2, <2>3
    <2> QED BY <1>2, <2>1, <2>4
  <1>3. CASE arch # "AVX2"
    <2>1. Lanes = 0 .. 3
      BY <1>3, WidthIs
    <2>2. HMax(v) = Combined("max", Combined("max", v[0], v[1]), Combined("max", v[2], v[3]))
      BY <1>3 DEF HMax, OnNeon
    <2>3. v[0] \in Int /\ v[1] \in Int /\ v[2] \in Int /\ v[3] \in Int
      BY <2>1
    <2>4. /\ HMax(v) \in {v[0], v[1], v[2], v[3]}
          /\ HMax(v) >= v[0] /\ HMax(v) >= v[1] /\ HMax(v) >= v[2] /\ HMax(v) >= v[3]
      BY <1>1, <2>2, <2>3
    <2>5. \E l \in Lanes : HMax(v) = v[l]
      BY <2>1, <2>4
    <2>6. ASSUME NEW l \in Lanes PROVE HMax(v) >= v[l]
      <3>1. l = 0 \/ l = 1 \/ l = 2 \/ l = 3
        BY <2>1
      <3> QED BY <2>4, <3>1
    <2> QED BY <2>5, <2>6
  <1> QED BY <1>2, <1>3

-----------------------------------------------------------------------------
(* How the extrema of a thread change. *)
LEMMA CombinedIs ==
  ASSUME NEW field \in {"min", "max"}, NEW x \in Int, NEW y \in Int
  PROVE  /\ Combined(field, x, y) \in {x, y}
         /\ Beats(field, Combined(field, x, y), x) /\ Beats(field, Combined(field, x, y), y)
  <1>1. CASE field = "min"
    BY <1>1 DEF Combined, Beats
  <1>2. CASE field = "max"
    BY <1>2 DEF Combined, Beats
  <1> QED BY <1>1, <1>2

LEMMA BeatsOrder ==
  ASSUME NEW field \in {"min", "max"}
  PROVE  /\ \A x, y, z \in Int : Beats(field, x, y) /\ Beats(field, y, z) => Beats(field, x, z)
         /\ \A x \in Int : Beats(field, x, x)
         /\ \A p \in Prices : ~Beats(field, Worst(field), p)
         /\ Worst(field) \in Int /\ Prices \subseteq Int
  BY SimdAssumption DEF Beats, Worst, Prices

LEMMA BestFresh ==
  ASSUME NEW field, NEW exact, NEW lanes, NEW v, \A l \in lanes : v[l] = Worst(field)
  PROVE  HoldsBest(field, exact, lanes, Worst(field), v, {})
  BY DEF HoldsBest

LEMMA BestVector ==
  ASSUME NEW field \in {"min", "max"}, NEW exact, NEW lanes, NEW x, NEW v, NEW ps,
         HoldsBest(field, exact, lanes, x, v, ps), ps \subseteq Prices,
         NEW c, \A l \in lanes : c[l] \in Prices,
         NEW w, \A l \in lanes : w[l] = Combined(field, v[l], c[l])
  PROVE  HoldsBest(field, exact, lanes, x, w, ps \union {c[l] : l \in lanes})
  <1>1. \A l \in lanes : v[l] \in {Worst(field)} \union ps /\ v[l] \in Int /\ c[l] \in Int
    BY BeatsOrder DEF HoldsBest
  <1>2. \A l \in lanes : w[l] \in {v[l], c[l]} /\ Beats(field, w[l], v[l])
                                              /\ Beats(field, w[l], c[l])
    BY <1>1, CombinedIs
  <1>3. x \in {Worst(field)} \union (ps \union {c[l] : l \in lanes})
    BY DEF HoldsBest
  <1>4. \A l \in lanes : w[l] \in {Worst(field)} \union (ps \union {c[m] : m \in lanes})
    BY <1>1, <1>2
  <1>5. ASSUME exact, NEW p \in ps \union {c[l] : l \in lanes}
        PROVE  Beats(field, x, p) \/ \E l \in lanes : Beats(field, w[l], p)
    <2>1. CASE p \in ps
      <3>1. CASE Beats(field, x, p)
        BY <3>1
      <3>2. CASE \E l \in lanes : Beats(field, v[l], p)
        <4>1. PICK l \in lanes : Beats(field, v[l], p)
          BY <3>2
        <4>2. w[l] \in Int /\ v[l] \in Int /\ p \in Int /\ Beats(field, w[l], v[l])
          BY <1>1, <1>2, <2>1, BeatsOrder
        <4>3. Beats(field, w[l], p)
          BY <4>1, <4>2, BeatsOrder
        <4> QED BY <4>3
      <3> QED BY <1>5, <2>1, <3>1, <3>2 DEF HoldsBest
    <2>2. CASE p \in {c[l] : l \in lanes}
      BY <1>2, <2>2
    <2> QED BY <2>1, <2>2
  <1> QED BY <1>3, <1>4, <1>5 DEF HoldsBest

LEMMA BestScalar ==
  ASSUME NEW field \in {"min", "max"}, NEW exact, NEW lanes, NEW x, NEW v, NEW ps,
         HoldsBest(field, exact, lanes, x, v, ps), ps \subseteq Prices,
         NEW qs, qs \subseteq Prices,
         NEW y \in qs \union {x}, \A z \in qs \union {x} : Beats(field, y, z)
  PROVE  HoldsBest(field, exact, lanes, y, v, ps \union qs)
  <1>1. x \in Int /\ y \in Int /\ \A p \in ps \union qs : p \in Int
    BY BeatsOrder DEF HoldsBest
  <1>2. \A p \in ps : Beats(field, x, p) => Beats(field, y, p)
    <2>1. Beats(field, y, x)
      OBVIOUS
    <2> QED BY <1>1, <2>1, BeatsOrder
  <1> QED BY <1>2 DEF HoldsBest

LEMMA BestReduced ==
  ASSUME NEW field \in {"min", "max"}, NEW exact, NEW lanes, NEW x, NEW v, NEW ps,
         HoldsBest(field, exact, lanes, x, v, ps), ps \subseteq Prices,
         NEW h, \E l \in lanes : h = v[l], exact => \A l \in lanes : Beats(field, h, v[l]),
         NEW w, \A l \in lanes : w[l] = Worst(field)
  PROVE  HoldsBest(field, exact, lanes, Combined(field, x, h), w, ps)
  <1> DEFINE y == Combined(field, x, h)
  <1>1. h \in {Worst(field)} \union ps /\ x \in {Worst(field)} \union ps
        /\ \A l \in lanes : v[l] \in {Worst(field)} \union ps
    BY DEF HoldsBest
  <1>2. h \in Int /\ x \in Int /\ (\A p \in ps : p \in Int) /\ \A l \in lanes : v[l] \in Int
    BY <1>1, BeatsOrder
  <1>3. y \in {x, h} /\ Beats(field, y, x) /\ Beats(field, y, h) /\ y \in Int
    BY <1>2, CombinedIs
  <1> HIDE DEF y
  <1>4. ASSUME exact, NEW p \in ps
        PROVE  Beats(field, y, p)
    <2>1. CASE Beats(field, x, p)
      BY <1>2, <1>3, <2>1, BeatsOrder
    <2>2. CASE \E l \in lanes : Beats(field, v[l], p)
      <3>1. PICK l \in lanes : Beats(field, v[l], p)
        BY <2>2
      <3>2. Beats(field, h, v[l])
        BY <1>4
      <3>3. Beats(field, h, p)
        BY <1>2, <3>1, <3>2, BeatsOrder
      <3> QED BY <1>2, <1>3, <3>3, BeatsOrder
    <2> QED BY <1>4, <2>1, <2>2 DEF HoldsBest
  <1>5. HoldsBest(field, exact, lanes, y, w, ps)
    BY <1>1, <1>3, <1>4 DEF HoldsBest
  <1> QED BY <1>5 DEF y

(* Vectors that have been reduced hold nothing any more. *)
LEMMA BestAlone ==
  ASSUME NEW field \in {"min", "max"}, NEW exact, NEW lanes, NEW x, NEW v, NEW ps,
         HoldsBest(field, exact, lanes, x, v, ps), ps \subseteq Prices, exact,
         \A l \in lanes : v[l] = Worst(field)
  PROVE  \A p \in ps : Beats(field, x, p)
  BY BeatsOrder DEF HoldsBest

-----------------------------------------------------------------------------
(* The values of the variables, as the steps need them. *)
LEMMA ThreadNumbers ==
  ASSUME TypeOK, NEW t \in Team
  PROVE  /\ local[t].count \in Nat
         /\ \A r \in Rows : local[t].sum[r] \in Nat
         /\ \A l \in Lanes, r \in Rows : vec[t].sum[l][r] \in Nat
         /\ local[t].min \in Int /\ local[t].max \in Int
         /\ \A l \in Lanes : vec[t].min[l] \in Int /\ vec[t].max[l] \in Int
         /\ local[t] \in Partial /\ vec[t] \in Vectors
  <1>1. local[t] \in Partial /\ vec[t] \in Vectors
    BY DEF TypeOK
  <1>2. MaxRows \in Nat /\ \A e \in Extrema : e \in Int
    BY SimdAssumption DEF Extrema
  <1>3. /\ local[t].count \in 0 .. MaxRows /\ local[t].sum \in Sums
        /\ local[t].min \in Extrema /\ local[t].max \in Extrema
    BY <1>1 DEF Partial
  <1>4. /\ vec[t].sum \in [Lanes -> Sums]
        /\ vec[t].min \in [Lanes -> Extrema] /\ vec[t].max \in [Lanes -> Extrema]
    BY <1>1 DEF Vectors
  <1>5. \A s \in Sums, r \in Rows : s[r] \in Nat
    BY <1>2 DEF Sums
  <1>6. \A l \in Lanes : vec[t].sum[l] \in Sums /\ vec[t].min[l] \in Extrema
                                               /\ vec[t].max[l] \in Extrema
    BY <1>4
  <1> QED BY <1>1, <1>2, <1>3, <1>5, <1>6

LEMMA AccNumbers ==
  ASSUME TypeOK
  PROVE  /\ acc \in Partial /\ acc.count \in Nat /\ \A r \in Rows : acc.sum[r] \in Nat
         /\ acc.min \in Int /\ acc.max \in Int
  <1>1. acc \in Partial /\ MaxRows \in Nat /\ \A e \in Extrema : e \in Int
    BY SimdAssumption DEF TypeOK, Extrema
  <1>2. /\ acc.count \in 0 .. MaxRows /\ acc.sum \in Sums
        /\ acc.min \in Extrema /\ acc.max \in Extrema
    BY <1>1 DEF Partial
  <1> QED BY <1>1, <1>2 DEF Sums

LEMMA SeenPrices ==
  ASSUME TypeOK, price \in [Rows -> Prices], NEW P, P \subseteq DOMAIN input
  PROVE  Offered(P) \subseteq Prices
  BY InputIs DEF Offered

LEMMA FreshIs ==
  /\ Fresh \in Partial /\ Fresh.count = 0 /\ Fresh.min = Infinity /\ Fresh.max = -Infinity
  /\ \A r \in Rows : Fresh.sum[r] = 0
  /\ FreshVec \in Vectors
  /\ \A l \in Lanes : /\ FreshVec.min[l] = Infinity /\ FreshVec.max[l] = -Infinity
                      /\ \A r \in Rows : FreshVec.sum[l][r] = 0
  <1>1. MaxRows \in Nat /\ Infinity \in Extrema /\ -Infinity \in Extrema
    BY SimdAssumption DEF Extrema
  <1>2. Zero \in Sums /\ \A r \in Rows : Zero[r] = 0
    BY <1>1 DEF Zero, Sums
  <1> QED BY <1>1, <1>2 DEF Fresh, FreshVec, Partial, Vectors

(* What a thread that has just begun holds. *)
LEMMA HeldFresh ==
  ASSUME NEW x, \A r \in Rows : x[r] = 0, NEW v, \A l \in Lanes, r \in Rows : v[l][r] = 0,
         arch \in Archs, NEW r \in Rows
  PROVE  x[r] + SumFunctionOnSet([l \in Lanes |-> v[l][r]], Lanes) = 0
  <1> DEFINE f == [l \in Lanes |-> v[l][r]]
  <1>1. IsFiniteSet(Lanes) /\ \A l \in Lanes : f[l] = 0
    BY WidthIs
  <1> HIDE DEF f
  <1>2. SumFunctionOnSet(f, Lanes) = 0
    BY <1>1, SumZero
  <1> QED BY <1>2 DEF f

LEMMA InitIInv == Init => IInv
  <1> SUFFICES ASSUME Init PROVE IInv
    OBVIOUS
  <1>1. /\ arch \in Archs /\ numThreads = 1 /\ Team = {0} /\ pc[0] = "done" /\ input = <<>>
        /\ Len(input) = 0 /\ ~busy /\ kind = "sum" /\ next[0] = 0 /\ cut[0] = 0 /\ cut[1] = 0
        /\ acc = Fresh /\ local = [t \in {0} |-> Fresh] /\ vec = [t \in {0} |-> FreshVec]
        /\ pc = [t \in {0} |-> "done"] /\ next = [t \in {0} |-> 0] /\ cut = [t \in 0 .. 1 |-> 0]
    BY DEF Init, Team
  <1>2. BlockCount(Len(input)) = 0
    <2>1. Width = 4 \/ Width = 8
      BY <1>1, WidthIs
    <2>2. \A w : w = 4 \/ w = 8 => (0 + w - 1) \div w = 0
      OBVIOUS
    <2> QED BY <1>1, <2>1, <2>2 DEF BlockCount
  <1>3. cut \in Schedules(1, 0)
    BY <1>1 DEF Schedules
  <1>4. TypeOK
    <2>1. /\ next \in [Team -> Nat] /\ local \in [Team -> Partial] /\ vec \in [Team -> Vectors]
          /\ pc \in [Team -> {"work", "forEnd", "count", "sum", "min", "max", "done"}]
      BY <1>1, FreshIs
    <2>2. \A t \in Team : next[t] \in cut[t] .. cut[t + 1]
      BY <1>1
    <2>3. acc \in Partial /\ numThreads \in 1 .. MaxThreads /\ input \in Seq(Rows)
      BY <1>1, FreshIs, SimdAssumption
    <2> QED BY <1>1, <1>2, <1>3, <2>1, <2>2, <2>3 DEF TypeOK
  <1>5. Labels
    BY <1>1, SimdAssumption DEF Labels
  <1> QED BY <1>1, <1>4, <1>5
          DEF IInv, ThreadsHold, ExtremaHeld, SumsMerged, CountsMerged, ExtremaMerged

LEMMA CallIInv ==
  ASSUME IInv, NEW n \in 1 .. MaxThreads, NEW rows \in Seq(Rows), Len(rows) <= MaxRows,
         Call(n, rows)
  PROVE  IInv'
  <1> DEFINE T == 0 .. (n - 1)
  <1>1. /\ arch \in Archs /\ arch' = arch /\ numThreads' = n /\ n \in Nat \ {0} /\ Team' = T
        /\ busy' = TRUE /\ kind' \in {"price", "sum"} /\ price' \in PriceColumns
        /\ input' = rows /\ acc' = Fresh
        /\ pc' = [t \in T |-> "work"] /\ local' = [t \in T |-> Fresh]
        /\ vec' = [t \in T |-> FreshVec]
        /\ cut' \in Schedules(n, BlockCount(Len(rows))) /\ next' = [t \in T |-> cut'[t]]
    BY SimdAssumption DEF Call, IInv, TypeOK, Team
  <1>2. /\ Width' = Width /\ Lanes' = Lanes /\ FreshVec' = FreshVec /\ Vectors' = Vectors
        /\ BlockCount(Len(rows))' = BlockCount(Len(rows)) /\ Exact("min")' = Exact("min")
        /\ Exact("max")' = Exact("max")
    BY <1>1 DEF Width, Lanes, FreshVec, Vectors, BlockCount, Exact
  <1>3. /\ cut' \in Schedules(n, BlockCount(Len(rows)))
        /\ \A t \in T : cut'[t] \in Nat /\ next'[t] = cut'[t] /\ next'[t] \in cut'[t] .. cut'[t + 1]
    <2>1. BlockCount(Len(rows)) \in Nat
      <3>1. (Width = 4 \/ Width = 8) /\ Len(rows) \in Nat
        BY <1>1, WidthIs
      <3>2. \A w : w = 4 \/ w = 8 => (Len(rows) + w - 1) \div w \in Nat
        BY <3>1
      <3> QED BY <3>1, <3>2 DEF BlockCount
    <2>2. /\ cut' \in [0 .. n -> 0 .. BlockCount(Len(rows))]
          /\ \A t \in 0 .. (n - 1) : cut'[t] <= cut'[t + 1]
      BY <1>1 DEF Schedules
    <2>3. ASSUME NEW t \in T
          PROVE  cut'[t] \in Nat /\ next'[t] = cut'[t] /\ next'[t] \in cut'[t] .. cut'[t + 1]
      <3>1. t \in 0 .. n /\ t + 1 \in 0 .. n
        BY <1>1
      <3>2. cut'[t] \in Nat /\ cut'[t + 1] \in Nat
        BY <2>1, <2>2, <3>1
      <3> QED BY <1>1, <2>2, <3>2
    <2> QED BY <1>1, <2>3
  <1>4. TypeOK'
    <2>1. /\ next' \in [T -> Nat] /\ local' \in [T -> Partial] /\ vec' \in [T -> Vectors]
          /\ pc' \in [T -> {"work", "forEnd", "count", "sum", "min", "max", "done"}]
      BY <1>1, <1>3, FreshIs
    <2>2. cut' \in Schedules(numThreads, BlockCount(Len(input)))'
      BY <1>1, <1>2 DEF Schedules, BlockCount
    <2>3. acc' \in Partial /\ numThreads' \in 1 .. MaxThreads /\ input' \in Seq(Rows)
      BY <1>1, FreshIs
    <2> QED BY <1>1, <1>2, <1>3, <2>1, <2>2, <2>3 DEF TypeOK
  <1>5. Labels'
    <2>1. price' \in [Rows -> Prices]
      BY <1>1, SimdAssumption DEF Prices, Rows
    <2> QED BY <1>1, <2>1 DEF Labels
  <1>6. \A t \in T : Seen(t)' = {}
    <2> SUFFICES ASSUME NEW t \in T PROVE \A b : b \notin cut'[t] .. (next'[t] - 1)
      BY DEF Seen
    <2> QED BY <1>3
  <1>7. \A t \in T : local'[t] = Fresh /\ vec'[t] = FreshVec
    BY <1>1
  <1>8. ThreadsHold'
    <2> SUFFICES ASSUME NEW t \in T
                 PROVE  /\ local'[t].count = Cardinality(Seen(t)')
                        /\ \A r \in Rows : Held(t, r)' = Occurs(Seen(t)', input', r)
      BY <1>1 DEF ThreadsHold
    <2>1. Cardinality(Seen(t)') = 0 /\ \A r : Occurs(Seen(t)', input', r) = 0
      BY <1>6, FS_EmptySet DEF Occurs
    <2>2. ASSUME NEW r \in Rows PROVE Held(t, r)' = 0
      <3>1. Fresh.sum[r] + SumFunctionOnSet([l \in Lanes |-> FreshVec.sum[l][r]], Lanes) = 0
        <4> DEFINE x == Fresh.sum
                   v == FreshVec.sum
        <4>1. (\A q \in Rows : x[q] = 0) /\ \A l \in Lanes, q \in Rows : v[l][q] = 0
          BY FreshIs
        <4>2. arch \in Archs
          BY <1>1
        <4> HIDE DEF x, v
        <4>3. x[r] + SumFunctionOnSet([l \in Lanes |-> v[l][r]], Lanes) = 0
          BY <4>1, <4>2, HeldFresh
        <4> QED BY <4>3 DEF x, v
      <3>2. Held(t, r)' =
              local'[t].sum[r] + SumFunctionOnSet([l \in Lanes |-> vec'[t].sum[l][r]], Lanes)
        BY <1>2 DEF Held
      <3> QED BY <1>7, <3>1, <3>2
    <2> QED BY <1>7, <2>1, <2>2, FreshIs
  <1>9. ExtremaHeld'
    <2> SUFFICES ASSUME NEW t \in T
                 PROVE  /\ HoldsBest("min", Exact("min"), Lanes, Infinity, FreshVec.min, {})
                        /\ HoldsBest("max", Exact("max"), Lanes, -Infinity, FreshVec.max, {})
      BY <1>1, <1>2, <1>6, <1>7, FreshIs DEF ExtremaHeld, Offered
    <2> QED BY FreshIs, BestFresh DEF Worst
  <1>10. \A L : "work" \in L => Merged(L)' = {}
    BY <1>1 DEF Merged
  <1>11. SumsMerged' /\ CountsMerged'
    BY <1>1, <1>10, SumEmpty, FreshIs DEF SumsMerged, CountsMerged, Unmerged, Uncounted
  <1>12. ExtremaMerged'
    <2>1. HasBest("min", Infinity)' /\ HasBest("max", -Infinity)'
      BY <1>10 DEF HasBest, Worst, Unoffered, Unmerged
    <2> QED BY <1>1, <2>1, FreshIs DEF ExtremaMerged, HasBest
  <1> QED BY <1>4, <1>5, <1>8, <1>9, <1>11, <1>12 DEF IInv

-----------------------------------------------------------------------------
(* A turn of the loop, on a whole block or on the rest: thread t gains the
   rows of the block in its scalars x and its vectors v.                    *)
LEMMA TurnIInv ==
  ASSUME IInv, NEW t \in Team, pc[t] = "work", next[t] < cut[t + 1],
         next' = [next EXCEPT ![t] = @ + 1],
         UNCHANGED <<arch, numThreads, pc, cut, acc, queryVars>>,
         NEW x \in [count : Nat, sum : [Rows -> Nat], min : Extrema, max : Extrema],
         NEW v \in [sum : [Lanes -> [Rows -> Nat]], min : [Lanes -> Extrema],
                    max : [Lanes -> Extrema]],
         local' = [local EXCEPT ![t] = x], vec' = [vec EXCEPT ![t] = v],
         x.count = local[t].count + Cardinality(Block(next[t])),
         \A r \in Rows :
           x.sum[r] + SumFunctionOnSet([l \in Lanes |-> v.sum[l][r]], Lanes) =
             Held(t, r) + Occurs(Block(next[t]), input, r),
         HoldsBest("min", Exact("min"), Lanes, x.min, v.min,
                   Offered(Seen(t)) \union Offered(Block(next[t]))),
         HoldsBest("max", Exact("max"), Lanes, x.max, v.max,
                   Offered(Seen(t)) \union Offered(Block(next[t])))
  PROVE  IInv'
  <1> DEFINE B == Block(next[t])
             P == Seen(t) \union B
  <1>1. TypeOK /\ Labels /\ ThreadsHold /\ ExtremaHeld /\ SumsMerged /\ CountsMerged
        /\ ExtremaMerged
    BY DEF IInv
  <1>2. /\ UNCHANGED <<arch, numThreads, pc, cut, acc, busy, kind, input, price>>
        /\ Team' = Team /\ Lanes' = Lanes /\ Width' = Width /\ Vectors' = Vectors
        /\ FreshVec' = FreshVec /\ Exact("min")' = Exact("min") /\ Exact("max")' = Exact("max")
        /\ BlockCount(Len(input))' = BlockCount(Len(input))
        /\ \A S, n : Schedules(n, S)' = Schedules(n, S)
    BY DEF queryVars, Team, Lanes, Width, Vectors, FreshVec, Exact, BlockCount, Schedules
  <1>3. busy /\ price \in [Rows -> Prices] /\ Len(input) <= MaxRows
    BY <1>1 DEF Labels
  <1>4. /\ Seen(t)' = P /\ Seen(t) \cap B = {}
        /\ \A u \in Team : u # t => Seen(u)' = Seen(u)
        /\ B \subseteq DOMAIN input /\ IsFiniteSet(B)
        /\ next[t] + 1 \in cut[t] .. cut[t + 1]
        /\ next' \in [Team -> Nat] /\ next'[t] = next[t] + 1
    BY <1>1, <1>2, TurnSeen
  <1>5. /\ local'[t] = x /\ vec'[t] = v
        /\ \A u \in Team : u # t => local'[u] = local[u] /\ vec'[u] = vec[u]
                                      /\ next'[u] = next[u]
    BY <1>1 DEF TypeOK
  <1>6. Seen(t) \subseteq DOMAIN input /\ P \subseteq DOMAIN input /\ IsFiniteSet(Seen(t))
    BY <1>1, <1>4, SeenParts
  <1> HIDE DEF B
  <1>7. Cardinality(P) = Cardinality(Seen(t)) + Cardinality(B)
    <2>1. /\ Cardinality(P) = Cardinality(Seen(t)) + Cardinality(B) - Cardinality(Seen(t) \cap B)
          /\ Cardinality(Seen(t)) \in Nat /\ Cardinality(B) \in Nat
      BY <1>4, <1>6, FS_Union, FS_CardinalityType
    <2>2. Cardinality(Seen(t) \cap B) = 0
      BY <1>4, FS_EmptySet
    <2> QED BY <2>1, <2>2
  <1>8. \A r : Occurs(P, input, r) = Occurs(Seen(t), input, r) + Occurs(B, input, r)
    BY <1>4, <1>6, OccurrencesAdd
  <1>9. x.count = Cardinality(P)
    BY <1>1, <1>3, <1>7 DEF ThreadsHold, B
  <1>10. ASSUME NEW r \in Rows
         PROVE  x.sum[r] + SumFunctionOnSet([l \in Lanes |-> v.sum[l][r]], Lanes) =
                  Occurs(P, input, r)
    BY <1>1, <1>3, <1>8 DEF ThreadsHold, B
  <1>11. x \in Partial /\ v \in Vectors
    <2>1. Cardinality(P) \in 0 .. MaxRows
      BY <1>1, <1>3, <1>6, SeenNumbers
    <2>2. ASSUME NEW r \in Rows
          PROVE  x.sum[r] \in 0 .. MaxRows /\ \A l \in Lanes : v.sum[l][r] \in 0 .. MaxRows
      <3> DEFINE f == [l \in Lanes |-> v.sum[l][r]]
                 a == x.sum[r]
                 whole == Occurs(P, input, r)
      <3>1. whole \in 0 .. MaxRows /\ MaxRows \in Nat
        BY <1>1, <1>3, <1>6, SeenNumbers, InputIs
      <3>2. IsFiniteSet(Lanes)
        BY <1>1, WidthIs DEF TypeOK
      <3>3. a \in Nat /\ \A l \in Lanes : f[l] \in Nat /\ f[l] = v.sum[l][r]
        OBVIOUS
      <3>4. a + SumFunctionOnSet(f, Lanes) = whole
        BY <1>10
      <3> HIDE DEF a, f, whole
      <3>5. a <= whole /\ \A l \in Lanes : f[l] <= whole
        BY <3>2, <3>3, <3>4, PartBounded
      <3>6. a \in 0 .. MaxRows /\ \A l \in Lanes : f[l] \in 0 .. MaxRows
        BY <3>1, <3>3, <3>5
      <3> QED BY <3>3, <3>6 DEF a
    <2>3. x.sum \in Sums /\ v.sum \in [Lanes -> Sums]
      BY <2>2 DEF Sums
    <2> QED BY <1>9, <2>1, <2>3 DEF Partial, Vectors
  <1>12. TypeOK'
    <2>1. local' \in [Team -> Partial] /\ vec' \in [Team -> Vectors]
      BY <1>1, <1>11 DEF TypeOK
    <2>2. \A u \in Team : next'[u] \in cut[u] .. cut[u + 1]
      BY <1>1, <1>4, <1>5 DEF TypeOK
    <2> QED BY <1>1, <1>2, <1>4, <2>1, <2>2 DEF TypeOK
  <1>13. Labels'
    BY <1>1, <1>2, <1>5 DEF Labels
  <1>14. ThreadsHold'
    <2> SUFFICES ASSUME NEW u \in Team
                 PROVE  /\ local'[u].count = Cardinality(Seen(u)')
                        /\ \A r \in Rows : Held(u, r)' = Occurs(Seen(u)', input, r)
      BY <1>2 DEF ThreadsHold
    <2>1. \A r : Held(u, r)' =
            local'[u].sum[r] + SumFunctionOnSet([l \in Lanes |-> vec'[u].sum[l][r]], Lanes)
      BY <1>2 DEF Held
    <2>2. CASE u = t
      <3>1. \A r \in Rows : Held(t, r)' =
               x.sum[r] + SumFunctionOnSet([l \in Lanes |-> v.sum[l][r]], Lanes)
        BY <1>5, <2>1, <2>2
      <3> QED BY <1>4, <1>5, <1>9, <1>10, <2>2, <3>1
    <2>3. CASE u # t
      <3>1. ASSUME NEW r PROVE Held(u, r)' = Held(u, r)
        <4>1. local'[u] = local[u] /\ vec'[u] = vec[u]
          BY <1>5, <2>3
        <4>2. Held(u, r) =
                local[u].sum[r] + SumFunctionOnSet([l \in Lanes |-> vec[u].sum[l][r]], Lanes)
          BY DEF Held
        <4>3. [l \in Lanes |-> vec'[u].sum[l][r]] = [l \in Lanes |-> vec[u].sum[l][r]]
          BY <4>1
        <4>4. Held(u, r)' =
                local'[u].sum[r] + SumFunctionOnSet([l \in Lanes |-> vec'[u].sum[l][r]], Lanes)
          BY <1>2 DEF Held
        <4> QED BY ONLY <4>1, <4>2, <4>3, <4>4
      <3>2. /\ local[u].count = Cardinality(Seen(u))
            /\ \A r \in Rows : Held(u, r) = Occurs(Seen(u), input, r)
        BY <1>1, <1>3 DEF ThreadsHold
      <3> QED BY <1>2, <1>4, <1>5, <2>3, <3>1, <3>2
    <2> QED BY <2>2, <2>3
  <1>15. ExtremaHeld'
    <2> SUFFICES ASSUME NEW u \in Team
                 PROVE  /\ HoldsBest("min", Exact("min"), Lanes, local'[u].min, vec'[u].min,
                                     Offered(Seen(u))')
                        /\ HoldsBest("max", Exact("max"), Lanes, local'[u].max, vec'[u].max,
                                     Offered(Seen(u))')
      BY <1>2 DEF ExtremaHeld
    <2>1. CASE u = t
      <3>1. Offered(Seen(t))' = Offered(Seen(t)) \union Offered(B)
        BY <1>2, <1>4 DEF Offered
      <3> QED BY <1>5, <2>1, <3>1 DEF B
    <2>2. CASE u # t
      <3>1. Offered(Seen(u))' = Offered(Seen(u))
        BY <1>2, <1>4, <2>2 DEF Offered
      <3> QED BY <1>1, <1>3, <1>5, <2>2, <3>1 DEF ExtremaHeld
    <2> QED BY <2>1, <2>2
  <1>16. ASSUME NEW L, "work" \in L
         PROVE  /\ Merged(L)' = Merged(L) /\ Merged(L) \subseteq Team /\ IsFiniteSet(Merged(L))
                /\ \A u \in Merged(L) : u # t /\ Seen(u)' = Seen(u)
    <2>1. Merged(L)' = Merged(L) /\ Merged(L) \subseteq Team /\ t \notin Merged(L)
      BY <1>2, <1>16 DEF Merged
    <2> QED BY <1>1, <1>4, <2>1, SeenParts, FS_Subset
  <1>17. SumsMerged'
    <2> SUFFICES ASSUME NEW r \in Rows
                 PROVE  acc.sum[r] = SumFunctionOnSet([u \in Team |-> Occurs(Seen(u)', input, r)],
                                                      Merged(Unmerged)')
      BY <1>2 DEF SumsMerged
    <2> DEFINE f == [u \in Team |-> Occurs(Seen(u), input, r)]
               g == [u \in Team |-> Occurs(Seen(u)', input, r)]
               M == Merged(Unmerged)
    <2>1. M' = M /\ IsFiniteSet(M) /\ \A u \in M : f[u] = g[u]
      BY <1>16 DEF Unmerged
    <2>2. acc.sum[r] = SumFunctionOnSet(f, M)
      BY <1>1, <1>3 DEF SumsMerged
    <2> HIDE DEF f, g, M
    <2>3. SumFunctionOnSet(f, M) = SumFunctionOnSet(g, M)
      BY <2>1, SumSame
    <2> QED BY <2>1, <2>2, <2>3 DEF g, M
  <1>18. CountsMerged'
    <2> SUFFICES ASSUME kind = "price"
                 PROVE  acc.count = SumFunctionOnSet([u \in Team |-> Cardinality(Seen(u)')],
                                                     Merged(Uncounted)')
      BY <1>2 DEF CountsMerged
    <2> DEFINE f == [u \in Team |-> Cardinality(Seen(u))]
               g == [u \in Team |-> Cardinality(Seen(u)')]
               M == Merged(Uncounted)
    <2>1. M' = M /\ IsFiniteSet(M) /\ \A u \in M : f[u] = g[u]
      BY <1>16 DEF Uncounted
    <2>2. acc.count = SumFunctionOnSet(f, M)
      BY <1>1, <1>3 DEF CountsMerged
    <2> HIDE DEF f, g, M
    <2>3. SumFunctionOnSet(f, M) = SumFunctionOnSet(g, M)
      BY <2>1, SumSame
    <2> QED BY <2>1, <2>2, <2>3 DEF g, M
  <1>19. ExtremaMerged'
    <2>1. Offered(PositionsSeen) \subseteq Offered(PositionsSeen)'
      <3>1. PositionsSeen' = UNION {Seen(u)' : u \in Team}
        BY <1>2 DEF PositionsSeen, Seen
      <3>2. PositionsSeen \subseteq PositionsSeen'
        BY <1>1, <1>4, <3>1, SeenParts
      <3> QED BY <1>2, <3>2 DEF Offered
    <2>2. ASSUME NEW field \in {"min", "max"}, NEW y, HasBest(field, y)
          PROVE  /\ y \in {Worst(field)} \union Offered(PositionsSeen)'
                 /\ kind = "price" /\ Exact(field)' =>
                      \A u \in Merged(Unoffered(field))' :
                        \A p \in Offered(Seen(u))' : Beats(field, y, p)
      <3>1. "work" \in Unoffered(field)
        BY DEF Unoffered, Unmerged
      <3>2. \A u \in Merged(Unoffered(field)) : Offered(Seen(u))' = Offered(Seen(u))
        BY <1>2, <1>16, <3>1 DEF Offered
      <3>3. Merged(Unoffered(field))' = Merged(Unoffered(field))
        BY <1>16, <3>1
      <3>4. Exact(field)' = Exact(field)
        BY <1>2 DEF Exact
      <3> QED BY <2>1, <2>2, <3>2, <3>3, <3>4 DEF HasBest
    <2>3. HasBest("min", acc.min) /\ HasBest("max", acc.max)
      BY <1>1, <1>3 DEF ExtremaMerged
    <2> QED BY <1>2, <2>2, <2>3 DEF ExtremaMerged, HasBest
  <1> QED BY <1>12, <1>13, <1>14, <1>15, <1>17, <1>18, <1>19 DEF IInv

LEMMA MinOfLeast ==
  ASSUME NEW S, NEW m, IsLeast(m, S), \A x \in S : x \in Int
  PROVE  Min(S) = m
  <1>1. Min(S) \in S /\ \A x \in S : Min(S) <= x
    BY DEF Min, IsLeast
  <1>2. Min(S) <= m /\ m <= Min(S) /\ m \in Int /\ Min(S) \in Int
    BY <1>1 DEF IsLeast
  <1> QED BY <1>2

LEMMA BestOfSet ==
  ASSUME NEW S, IsFiniteSet(S), S \subseteq Int, S # {}
  PROVE  /\ Min(S) \in S /\ \A x \in S : Beats("min", Min(S), x)
         /\ Max(S) \in S /\ \A x \in S : Beats("max", Max(S), x)
  <1>1. PICK m : IsLeast(m, S)
    BY LeastExists
  <1>2. PICK n : IsGreatest(n, S)
    BY GreatestExists
  <1>3. Min(S) \in S /\ \A x \in S : Min(S) <= x
    BY <1>1 DEF Min, IsLeast
  <1>4. Max(S) \in S /\ \A x \in S : Max(S) >= x
    BY <1>2 DEF Max, IsGreatest
  <1> QED BY <1>3, <1>4 DEF Beats

LEMMA VectorTurnIInv ==
  ASSUME IInv, NEW t, VectorTurn(t)
  PROVE  IInv'
  <1> DEFINE b == next[t]
             row(l) == RowOf(b, l)
             old == vec[t]
             v == [sum |-> [l \in Lanes |-> Plus(old.sum[l], One(row(l)))],
                   min |-> [l \in Lanes |-> Combined("min", old.min[l], price[row(l)])],
                   max |-> [l \in Lanes |-> Combined("max", old.max[l], price[row(l)])]]
             x == [local[t] EXCEPT !.count = @ + Width]
             c == [l \in Lanes |-> price[row(l)]]
  <1>1. /\ TypeOK /\ Labels /\ ExtremaHeld /\ t \in Team /\ pc[t] = "work"
        /\ next[t] < cut[t + 1] /\ IsWhole(b)
        /\ next' = [next EXCEPT ![t] = @ + 1]
        /\ UNCHANGED <<arch, numThreads, pc, cut, acc, queryVars>>
    BY DEF IInv, VectorTurn, At
  <1>2. vec' = [vec EXCEPT ![t] = v] /\ local' = [local EXCEPT ![t] = x]
    BY DEF VectorTurn
  <1>3. busy /\ price \in [Rows -> Prices]
    BY <1>1 DEF Labels
  <1>4. b \in Nat /\ \A l \in Lanes : row(l) \in Rows /\ c[l] = price[row(l)] /\ c[l] \in Prices
    BY <1>1, <1>3, CutIs, LanesOccur
  <1>5. /\ Cardinality(Block(b)) = Width
        /\ \A r \in Rows : Occurs(Block(b), input, r) =
             SumFunctionOnSet([l \in Lanes |-> One(row(l))[r]], Lanes)
    BY <1>1, <1>4, LanesOccur
  <1>6. /\ local[t] \in Partial /\ local[t].count \in Nat
        /\ \A r \in Rows : local[t].sum[r] \in Nat
        /\ \A l \in Lanes, r \in Rows : old.sum[l][r] \in Nat
        /\ old \in Vectors
    BY <1>1, ThreadNumbers
  <1>7. Width \in Nat /\ IsFiniteSet(Lanes)
    BY <1>1, WidthIs DEF TypeOK
  <1>8. /\ x.count = local[t].count + Width /\ x.sum = local[t].sum
        /\ x.min = local[t].min /\ x.max = local[t].max
    BY <1>6 DEF Partial
  <1>9. x \in [count : Nat, sum : [Rows -> Nat], min : Extrema, max : Extrema]
    <2>1. MaxRows \in Nat
      BY SimdAssumption
    <2> QED BY <1>6, <1>7, <2>1 DEF Partial, Sums
  <1>10. \A l \in Lanes, r \in Rows :
           v.sum[l][r] = old.sum[l][r] + One(row(l))[r] /\ One(row(l))[r] \in 0 .. 1
    BY DEF Plus, One, Zero
  <1>11. v \in [sum : [Lanes -> [Rows -> Nat]], min : [Lanes -> Extrema], max : [Lanes -> Extrema]]
    <2>1. \A l \in Lanes : v.sum[l] \in [Rows -> Nat]
      <3>1. \A l \in Lanes : v.sum[l] = [r \in Rows |-> old.sum[l][r] + One(row(l))[r]]
        BY DEF Plus
      <3>2. \A l \in Lanes, r \in Rows : old.sum[l][r] + One(row(l))[r] \in Nat
        BY <1>6, <1>10
      <3> QED BY <3>1, <3>2
    <2>2. \A e \in Extrema : e \in Int
      BY SimdAssumption DEF Extrema
    <2>3. \A l \in Lanes : old.min[l] \in Extrema /\ old.max[l] \in Extrema /\ c[l] \in Extrema
      BY <1>4, <1>6, SimdAssumption DEF Vectors, Prices, Extrema
    <2>4. \A l \in Lanes : v.min[l] \in Extrema /\ v.max[l] \in Extrema
      <3>1. \A l \in Lanes : /\ v.min[l] = Combined("min", old.min[l], c[l])
                             /\ v.max[l] = Combined("max", old.max[l], c[l])
        BY <1>4
      <3>2. \A y, z \in Int : /\ Combined("min", y, z) \in {y, z}
                              /\ Combined("max", y, z) \in {y, z}
        BY CombinedIs
      <3> HIDE DEF v
      <3> QED BY <2>2, <2>3, <3>1, <3>2
    <2> QED BY <2>1, <2>4
  <1>12. ASSUME NEW r \in Rows
         PROVE  x.sum[r] + SumFunctionOnSet([l \in Lanes |-> v.sum[l][r]], Lanes) =
                  Held(t, r) + Occurs(Block(b), input, r)
    <2> DEFINE f == [l \in Lanes |-> old.sum[l][r]]
               g == [l \in Lanes |-> One(row(l))[r]]
               h == [l \in Lanes |-> v.sum[l][r]]
               F == SumFunctionOnSet(f, Lanes)
               G == SumFunctionOnSet(g, Lanes)
               H == SumFunctionOnSet(h, Lanes)
    <2>1. \A l \in Lanes : f[l] \in Int /\ g[l] \in Int /\ h[l] = f[l] + g[l]
      BY <1>6, <1>10
    <2>2. h = [l \in Lanes |-> f[l] + g[l]]
      BY <1>10
    <2>3. Held(t, r) = local[t].sum[r] + F
      BY DEF Held
    <2>4. Occurs(Block(b), input, r) = G
      BY <1>5
    <2> HIDE DEF f, g, h
    <2>5. H = F + G /\ F \in Int /\ G \in Int
      BY <1>7, <2>1, <2>2, SumAdd, SumInt
    <2>6. x.sum[r] = local[t].sum[r] /\ local[t].sum[r] \in Int
      BY <1>6, <1>8
    <2> HIDE DEF F, G, H, x
    <2>7. x.sum[r] + H = Held(t, r) + Occurs(Block(b), input, r)
      BY <2>3, <2>4, <2>5, <2>6
    <2> QED BY <2>7 DEF H, h
  <1>13. Offered(Block(b)) = {c[l] : l \in Lanes}
    <2>1. Block(b) = {b * Width + l + 1 : l \in Lanes}
      BY <1>1, <1>4, WholeBlock
    <2> QED BY <2>1 DEF Offered, RowOf
  <1>14. Offered(Seen(t)) \subseteq Prices
    BY <1>1, <1>3, SeenParts, SeenPrices
  <1>15. /\ \A l \in Lanes : v.min[l] = Combined("min", old.min[l], c[l])
         /\ \A l \in Lanes : v.max[l] = Combined("max", old.max[l], c[l])
    BY <1>4
  <1>16. /\ HoldsBest("min", Exact("min"), Lanes, local[t].min, old.min, Offered(Seen(t)))
         /\ HoldsBest("max", Exact("max"), Lanes, local[t].max, old.max, Offered(Seen(t)))
    BY <1>1, <1>3 DEF ExtremaHeld
  <1>17. \A l \in Lanes : c[l] \in Prices
    BY <1>4
  <1> HIDE DEF b, v, x, c, row, old
  <1>18. /\ HoldsBest("min", Exact("min"), Lanes, x.min, v.min,
                      Offered(Seen(t)) \union Offered(Block(b)))
         /\ HoldsBest("max", Exact("max"), Lanes, x.max, v.max,
                      Offered(Seen(t)) \union Offered(Block(b)))
    BY <1>8, <1>13, <1>14, <1>15, <1>16, <1>17, BestVector
  <1>19. x.count = local[t].count + Cardinality(Block(b))
    BY <1>5, <1>8
  <1> QED BY <1>1, <1>2, <1>9, <1>11, <1>12, <1>18, <1>19, TurnIInv DEF b

LEMMA ScalarTurnIInv ==
  ASSUME IInv, NEW t, ScalarTurn(t)
  PROVE  IInv'
  <1> DEFINE b == next[t]
             B == RestOf(b)
             old == local[t]
             x == WithRest(old, B)
             v == vec[t]
             prices == {price[input[k]] : k \in B}
  <1>1. /\ TypeOK /\ Labels /\ ExtremaHeld /\ t \in Team /\ pc[t] = "work"
        /\ next[t] < cut[t + 1] /\ ~IsWhole(b)
        /\ next' = [next EXCEPT ![t] = @ + 1]
        /\ UNCHANGED <<arch, numThreads, pc, cut, acc, queryVars>>
    BY DEF IInv, ScalarTurn, At
  <1>2. vec' = [vec EXCEPT ![t] = v] /\ local' = [local EXCEPT ![t] = x]
    BY <1>1 DEF ScalarTurn, TypeOK
  <1>3. busy /\ price \in [Rows -> Prices] /\ Len(input) <= MaxRows
    BY <1>1 DEF Labels
  <1>4. b \in Nat /\ B = Block(b) /\ B \subseteq DOMAIN input /\ IsFiniteSet(B)
    BY <1>1, CutIs, RestBlock, InputIs, FS_Subset DEF Block
  <1>5. /\ old \in Partial /\ old.count \in Nat /\ old.min \in Int /\ old.max \in Int
        /\ \A r \in Rows : old.sum[r] \in Nat
        /\ v \in Vectors
    BY <1>1, ThreadNumbers
  <1>6. Offered(Seen(t)) \subseteq Prices /\ Offered(B) \subseteq Prices /\ prices = Offered(B)
    BY <1>1, <1>3, <1>4, SeenParts, SeenPrices DEF Offered
  <1>7. IsFiniteSet(prices)
    <2> DEFINE f == [k \in B |-> price[input[k]]]
    <2>1. prices = {f[k] : k \in B}
      OBVIOUS
    <2> HIDE DEF f, B, prices
    <2> QED BY <1>4, <2>1, ImageFinite
  <1>8. /\ x.count = old.count + Cardinality(B)
        /\ x.sum = [r \in Rows |-> old.sum[r] + Cardinality({k \in B : input[k] = r})]
        /\ x.min = Min(prices \union {old.min}) /\ x.max = Max(prices \union {old.max})
    BY DEF WithRest
  <1>9. Cardinality(B) \in Nat /\ \A r : Occurs(B, input, r) \in Nat
    BY <1>4, FS_Subset, FS_CardinalityType DEF Occurs
  <1>10. \A r \in Rows : x.sum[r] = old.sum[r] + Occurs(B, input, r)
    BY <1>8 DEF Occurs
  <1>11. x = [count |-> x.count, sum |-> x.sum, min |-> x.min, max |-> x.max]
    BY DEF WithRest
  <1> HIDE DEF b, B, x, prices
  <1>12. /\ x.min \in prices \union {old.min}
         /\ \A z \in prices \union {old.min} : Beats("min", x.min, z)
         /\ x.max \in prices \union {old.max}
         /\ \A z \in prices \union {old.max} : Beats("max", x.max, z)
    <2>1. prices \subseteq Int
      BY <1>6, BeatsOrder
    <2>2. /\ IsFiniteSet(prices \union {old.min}) /\ prices \union {old.min} \subseteq Int
          /\ IsFiniteSet(prices \union {old.max}) /\ prices \union {old.max} \subseteq Int
      BY <1>5, <1>7, <2>1, FS_AddElement
    <2> DEFINE S == prices \union {old.min}
               T == prices \union {old.max}
    <2>3. x.min = Min(S) /\ x.max = Max(T)
      BY <1>8
    <2>4. S # {} /\ T # {}
      OBVIOUS
    <2> HIDE DEF S, T
    <2>5. Min(S) \in S /\ \A z \in S : Beats("min", Min(S), z)
      BY <2>2, <2>4, BestOfSet DEF S
    <2>6. Max(T) \in T /\ \A z \in T : Beats("max", Max(T), z)
      BY <2>2, <2>4, BestOfSet DEF T
    <2> QED BY <2>3, <2>5, <2>6 DEF S, T
  <1>13. x \in [count : Nat, sum : [Rows -> Nat], min : Extrema, max : Extrema]
    <2>1. old.min \in Extrema /\ old.max \in Extrema /\ Prices \subseteq Extrema
      BY <1>5, SimdAssumption DEF Partial, Prices, Extrema
    <2>2. x.min \in Extrema /\ x.max \in Extrema
      BY <1>6, <1>12, <2>1
    <2>3. x.count \in Nat
      BY <1>5, <1>8, <1>9
    <2>4. x.sum \in [Rows -> Nat]
      <3> DEFINE f == [r \in Rows |-> old.sum[r] + Occurs(B, input, r)]
      <3>1. x.sum = f
        BY <1>8 DEF Occurs
      <3>2. \A r \in Rows : old.sum[r] + Occurs(B, input, r) \in Nat
        <4> SUFFICES ASSUME NEW r \in Rows PROVE old.sum[r] + Occurs(B, input, r) \in Nat
          OBVIOUS
        <4> DEFINE y == old.sum[r]
                   z == Occurs(B, input, r)
        <4>1. y \in Nat /\ z \in Nat
          BY <1>5, <1>9
        <4> HIDE DEF y, z
        <4>2. y + z \in Nat
          BY <4>1
        <4> QED BY <4>2 DEF y, z
      <3>3. f \in [Rows -> Nat]
        BY <3>2
      <3> QED BY <3>1, <3>3
    <2> DEFINE c == x.count
               s == x.sum
               m == x.min
               n == x.max
    <2>5. c \in Nat /\ s \in [Rows -> Nat] /\ m \in Extrema /\ n \in Extrema
      BY <2>2, <2>3, <2>4
    <2>6. x = [count |-> c, sum |-> s, min |-> m, max |-> n]
      BY <1>11
    <2> HIDE DEF c, s, m, n
    <2>7. [count |-> c, sum |-> s, min |-> m, max |-> n]
            \in [count : Nat, sum : [Rows -> Nat], min : Extrema, max : Extrema]
      BY <2>5
    <2> QED BY ONLY <2>6, <2>7, Zenon
  <1>14. v \in [sum : [Lanes -> [Rows -> Nat]], min : [Lanes -> Extrema],
                max : [Lanes -> Extrema]]
    <2>1. MaxRows \in Nat
      BY SimdAssumption
    <2>2. \A s \in Sums : s \in [Rows -> Nat]
      BY <2>1 DEF Sums
    <2> QED BY <1>5, <2>2 DEF Vectors
  <1>15. ASSUME NEW r \in Rows
         PROVE  x.sum[r] + SumFunctionOnSet([l \in Lanes |-> v.sum[l][r]], Lanes) =
                  Held(t, r) + Occurs(B, input, r)
    <2> DEFINE f == [l \in Lanes |-> v.sum[l][r]]
               F == SumFunctionOnSet(f, Lanes)
    <2>1. Held(t, r) = old.sum[r] + F
      BY DEF Held
    <2>2. \A l \in Lanes : f[l] \in Int
      BY <1>14
    <2>3. IsFiniteSet(Lanes)
      BY <1>1, WidthIs DEF TypeOK
    <2> HIDE DEF f
    <2>4. F \in Int
      BY <2>2, <2>3, SumInt
    <2>5. old.sum[r] \in Int
      BY <1>5
    <2> HIDE DEF F, old
    <2>6. x.sum[r] + F = Held(t, r) + Occurs(B, input, r)
      BY <1>9, <1>10, <2>1, <2>4, <2>5
    <2> QED BY <2>6 DEF F, f
  <1>16. /\ HoldsBest("min", Exact("min"), Lanes, old.min, v.min, Offered(Seen(t)))
         /\ HoldsBest("max", Exact("max"), Lanes, old.max, v.max, Offered(Seen(t)))
    BY <1>1, <1>3 DEF ExtremaHeld
  <1> HIDE DEF old, v
  <1>17. HoldsBest("min", Exact("min"), Lanes, x.min, v.min,
                   Offered(Seen(t)) \union Offered(B))
    BY <1>6, <1>12, <1>16, BestScalar
  <1>18. HoldsBest("max", Exact("max"), Lanes, x.max, v.max,
                   Offered(Seen(t)) \union Offered(B))
    BY <1>6, <1>12, <1>16, BestScalar
  <1>19. B = Block(next[t])
    BY <1>4 DEF b
  <1>20. x.count = local[t].count + Cardinality(Block(next[t]))
    BY <1>8, <1>19 DEF old
  <1>21. \A r \in Rows :
           x.sum[r] + SumFunctionOnSet([l \in Lanes |-> v.sum[l][r]], Lanes) =
             Held(t, r) + Occurs(Block(next[t]), input, r)
    BY <1>15, <1>19
  <1>22. /\ HoldsBest("min", Exact("min"), Lanes, x.min, v.min,
                      Offered(Seen(t)) \union Offered(Block(next[t])))
         /\ HoldsBest("max", Exact("max"), Lanes, x.max, v.max,
                      Offered(Seen(t)) \union Offered(Block(next[t])))
    BY <1>17, <1>18, <1>19
  <1> QED BY <1>1, <1>2, <1>13, <1>14, <1>20, <1>21, <1>22, TurnIInv


-----------------------------------------------------------------------------
(* Steps that take no turn. *)
LEMMA StandStill ==
  ASSUME TypeOK, UNCHANGED <<arch, numThreads, next, cut, input, price>>
  PROVE  /\ Team' = Team /\ Lanes' = Lanes /\ Width' = Width /\ Vectors' = Vectors
         /\ FreshVec' = FreshVec /\ BlockCount(Len(input))' = BlockCount(Len(input))
         /\ \A S, n : Schedules(n, S)' = Schedules(n, S)
         /\ \A field : Exact(field)' = Exact(field)
         /\ \A u : Seen(u)' = Seen(u) /\ Offered(Seen(u))' = Offered(Seen(u))
         /\ PositionsSeen' = PositionsSeen /\ Offered(PositionsSeen)' = Offered(PositionsSeen)
  <1>1. /\ Team' = Team /\ Lanes' = Lanes /\ Width' = Width
        /\ \A S, n : Schedules(n, S)' = Schedules(n, S)
        /\ \A field : Exact(field)' = Exact(field)
    BY DEF Team, Lanes, Width, Schedules, Exact
  <1>2. /\ Vectors' = Vectors /\ FreshVec' = FreshVec
        /\ BlockCount(Len(input))' = BlockCount(Len(input))
    BY <1>1 DEF Vectors, FreshVec, BlockCount
  <1>3. (\A u : Seen(u)' = Seen(u)) /\ PositionsSeen' = PositionsSeen
    BY <1>1 DEF Seen, PositionsSeen
  <1>4. /\ \A u : Offered(Seen(u))' = Offered(Seen(u))
        /\ Offered(PositionsSeen)' = Offered(PositionsSeen)
    BY <1>3 DEF Offered
  <1> QED BY <1>1, <1>2, <1>3, <1>4

LEMMA MergedMoves ==
  ASSUME TypeOK, Team' = Team, NEW t \in Team, NEW label,
         pc' = [pc EXCEPT ![t] = label], NEW L
  PROVE  /\ pc[t] \in L /\ label \in L => Merged(L)' = Merged(L)
         /\ pc[t] \notin L /\ label \notin L => Merged(L)' = Merged(L)
         /\ pc[t] \in L /\ label \notin L =>
              Merged(L)' = Merged(L) \union {t} /\ t \notin Merged(L)
         /\ IsFiniteSet(Merged(L)) /\ Merged(L) \subseteq Team
  <1>1. pc'[t] = label /\ \A u \in Team : u # t => pc'[u] = pc[u]
    BY DEF TypeOK
  <1>2. IsFiniteSet(Team) /\ Merged(L) \subseteq Team
    BY SeenParts DEF Merged
  <1> QED BY <1>1, <1>2, FS_Subset DEF Merged

(* Thread t, which merges nothing, holds the rows of its turns in x and v. *)
LEMMA HoldIInv ==
  ASSUME IInv, NEW t \in Team, pc[t] \in {"work", "forEnd"}, next[t] = cut[t + 1],
         NEW label \in {"forEnd", "count", "sum"}, label = "count" => kind = "price",
         label = "sum" => kind = "sum",
         pc' = [pc EXCEPT ![t] = label],
         UNCHANGED <<arch, numThreads, next, cut, acc, queryVars>>,
         NEW x \in Partial, NEW v \in Vectors, label # "forEnd" => v = FreshVec,
         local' = [local EXCEPT ![t] = x], vec' = [vec EXCEPT ![t] = v],
         x.count = local[t].count,
         \A r \in Rows :
           x.sum[r] + SumFunctionOnSet([l \in Lanes |-> v.sum[l][r]], Lanes) = Held(t, r),
         HoldsBest("min", Exact("min"), Lanes, x.min, v.min, Offered(Seen(t))),
         HoldsBest("max", Exact("max"), Lanes, x.max, v.max, Offered(Seen(t)))
  PROVE  IInv'
  <1>1. TypeOK /\ Labels /\ ThreadsHold /\ ExtremaHeld /\ SumsMerged /\ CountsMerged
        /\ ExtremaMerged
    BY DEF IInv
  <1>2. UNCHANGED <<arch, numThreads, next, cut, acc, busy, kind, input, price>>
    BY DEF queryVars
  <1>3. busy
    BY <1>1 DEF Labels
  <1>4. /\ Team' = Team /\ Lanes' = Lanes /\ Width' = Width /\ Vectors' = Vectors
        /\ FreshVec' = FreshVec /\ BlockCount(Len(input))' = BlockCount(Len(input))
        /\ \A S, n : Schedules(n, S)' = Schedules(n, S)
        /\ \A field : Exact(field)' = Exact(field)
        /\ \A u : Seen(u)' = Seen(u) /\ Offered(Seen(u))' = Offered(Seen(u))
        /\ PositionsSeen' = PositionsSeen /\ Offered(PositionsSeen)' = Offered(PositionsSeen)
    BY <1>1, <1>2, StandStill
  <1>5. /\ local'[t] = x /\ vec'[t] = v /\ pc'[t] = label
        /\ \A u \in Team : u # t => local'[u] = local[u] /\ vec'[u] = vec[u] /\ pc'[u] = pc[u]
        /\ local' \in [Team -> Partial] /\ vec' \in [Team -> Vectors]
        /\ pc' \in [Team -> {"work", "forEnd", "count", "sum", "min", "max", "done"}]
    BY <1>1 DEF TypeOK
  <1>6. TypeOK'
    BY <1>1, <1>2, <1>4, <1>5 DEF TypeOK
  <1>7. Labels'
    BY <1>1, <1>2, <1>3, <1>4, <1>5 DEF Labels
  <1>8. ThreadsHold'
    <2> SUFFICES ASSUME NEW u \in Team
                 PROVE  /\ local'[u].count = Cardinality(Seen(u))
                        /\ \A r \in Rows : Held(u, r)' = Occurs(Seen(u), input, r)
      BY <1>2, <1>4 DEF ThreadsHold
    <2>1. /\ local[u].count = Cardinality(Seen(u))
          /\ \A r \in Rows : Held(u, r) = Occurs(Seen(u), input, r)
      BY <1>1, <1>3 DEF ThreadsHold
    <2>2. local'[u].count = local[u].count
      BY <1>5
    <2>3. ASSUME NEW r \in Rows PROVE Held(u, r)' = Held(u, r)
      <3>1. Held(u, r)' =
              local'[u].sum[r] + SumFunctionOnSet([l \in Lanes |-> vec'[u].sum[l][r]], Lanes)
        BY <1>4 DEF Held
      <3>2. CASE u = t
        <4>1. [l \in Lanes |-> vec'[u].sum[l][r]] = [l \in Lanes |-> v.sum[l][r]]
          BY <1>5, <3>2
        <4>2. local'[u].sum[r] = x.sum[r]
          BY <1>5, <3>2
        <4>3. x.sum[r] + SumFunctionOnSet([l \in Lanes |-> v.sum[l][r]], Lanes) = Held(u, r)
          BY <3>2
        <4> QED BY ONLY <3>1, <4>1, <4>2, <4>3, Zenon
      <3>3. CASE u # t
        <4>1. [l \in Lanes |-> vec'[u].sum[l][r]] = [l \in Lanes |-> vec[u].sum[l][r]]
          BY <1>5, <3>3
        <4>2. local'[u].sum[r] = local[u].sum[r]
          BY <1>5, <3>3
        <4>3. Held(u, r) =
                local[u].sum[r] + SumFunctionOnSet([l \in Lanes |-> vec[u].sum[l][r]], Lanes)
          BY DEF Held
        <4> QED BY ONLY <3>1, <4>1, <4>2, <4>3, Zenon
      <3> QED BY <3>2, <3>3
    <2> QED BY <2>1, <2>2, <2>3
  <1>9. ExtremaHeld'
    <2> SUFFICES ASSUME NEW u \in Team
                 PROVE  /\ HoldsBest("min", Exact("min"), Lanes, local'[u].min, vec'[u].min,
                                     Offered(Seen(u)))
                        /\ HoldsBest("max", Exact("max"), Lanes, local'[u].max, vec'[u].max,
                                     Offered(Seen(u)))
      BY <1>4 DEF ExtremaHeld
    <2>1. CASE u = t
      BY <1>5, <2>1
    <2>2. CASE u # t
      BY <1>1, <1>3, <1>5, <2>2 DEF ExtremaHeld
    <2> QED BY <2>1, <2>2
  <1>10. /\ Merged(Unmerged)' = Merged(Unmerged)
         /\ \A field : Merged(Unoffered(field))' = Merged(Unoffered(field))
         /\ kind = "price" => Merged(Uncounted)' = Merged(Uncounted)
    <2>1. \A L : pc[t] \in L /\ label \in L => Merged(L)' = Merged(L)
      BY <1>1, <1>4, MergedMoves
    <2>2. /\ pc[t] \in Unmerged /\ label \in Unmerged
          /\ \A field : pc[t] \in Unoffered(field) /\ label \in Unoffered(field)
          /\ kind = "price" => pc[t] \in Uncounted /\ label \in Uncounted
      BY DEF Unmerged, Unoffered, Uncounted
    <2> QED BY <2>1, <2>2
  <1>11. SumsMerged'
    BY <1>1, <1>2, <1>4, <1>10 DEF SumsMerged
  <1>12. CountsMerged'
    BY <1>1, <1>2, <1>4, <1>10 DEF CountsMerged
  <1>13. ExtremaMerged'
    BY <1>1, <1>2, <1>4, <1>10 DEF ExtremaMerged, HasBest
  <1> QED BY <1>6, <1>7, <1>8, <1>9, <1>11, <1>12, <1>13 DEF IInv

LEMMA LeaveLoopIInv ==
  ASSUME IInv, NEW t, LeaveLoop(t)
  PROVE  IInv'
  <1>1. /\ TypeOK /\ Labels /\ ExtremaHeld /\ t \in Team /\ pc[t] = "work"
        /\ next[t] = cut[t + 1] /\ pc' = [pc EXCEPT ![t] = "forEnd"]
        /\ UNCHANGED <<arch, numThreads, next, cut, local, vec, acc, queryVars>>
    BY DEF IInv, LeaveLoop, At, GoTo
  <1>2. /\ local' = [local EXCEPT ![t] = local[t]] /\ vec' = [vec EXCEPT ![t] = vec[t]]
        /\ local[t] \in Partial /\ vec[t] \in Vectors
    BY <1>1 DEF TypeOK
  <1>3. busy
    BY <1>1 DEF Labels
  <1>4. /\ HoldsBest("min", Exact("min"), Lanes, local[t].min, vec[t].min, Offered(Seen(t)))
        /\ HoldsBest("max", Exact("max"), Lanes, local[t].max, vec[t].max, Offered(Seen(t)))
    BY <1>1, <1>3 DEF ExtremaHeld
  <1>5. \A r \in Rows :
          local[t].sum[r] + SumFunctionOnSet([l \in Lanes |-> vec[t].sum[l][r]], Lanes)
            = Held(t, r)
    BY DEF Held
  <1> DEFINE x == local[t]
             v == vec[t]
  <1>6. x.count = local[t].count
    OBVIOUS
  <1> HIDE DEF x, v
  <1> QED BY <1>1, <1>2, <1>4, <1>5, <1>6, HoldIInv DEF x, v

LEMMA ReduceVectorsIInv ==
  ASSUME IInv, NEW t, ReduceVectors(t)
  PROVE  IInv'
  <1> DEFINE old == local[t]
             v == vec[t]
             label == IF kind = "price" THEN "count" ELSE "sum"
             x == [count |-> old.count, sum |-> Plus(old.sum, HSum(v.sum)),
                   min |-> Combined("min", old.min, HMin(v.min)),
                   max |-> Combined("max", old.max, HMax(v.max))]
  <1>1. /\ TypeOK /\ Labels /\ ThreadsHold /\ ExtremaHeld /\ t \in Team /\ pc[t] = "forEnd"
        /\ pc' = [pc EXCEPT ![t] = label]
        /\ local' = [local EXCEPT ![t] = x] /\ vec' = [vec EXCEPT ![t] = FreshVec]
        /\ UNCHANGED <<arch, numThreads, next, cut, acc, queryVars>>
    BY DEF IInv, ReduceVectors, At, GoTo, TypeOK
  <1>2. busy /\ next[t] = cut[t + 1] /\ price \in [Rows -> Prices] /\ Len(input) <= MaxRows
    BY <1>1 DEF Labels
  <1>3. /\ label \in {"forEnd", "count", "sum"} /\ (label = "count" => kind = "price")
        /\ (label = "sum" => kind = "sum")
    BY <1>1 DEF TypeOK
  <1>4. /\ arch \in Archs /\ old \in Partial /\ old.count \in Nat
        /\ old.min \in Int /\ old.max \in Int
        /\ \A r \in Rows : old.sum[r] \in Nat
        /\ \A l \in Lanes, r \in Rows : v.sum[l][r] \in Nat
        /\ \A l \in Lanes : v.min[l] \in Int /\ v.max[l] \in Int
        /\ v \in Vectors
    BY <1>1, ThreadNumbers DEF TypeOK
  <1>5. \A r \in Rows : HSum(v.sum)[r] = SumFunctionOnSet([l \in Lanes |-> v.sum[l][r]], Lanes)
    <2> DEFINE w == v.sum
    <2>1. \A l \in Lanes, r \in Rows : w[l][r] \in Nat
      BY <1>4
    <2> HIDE DEF w
    <2>2. \A r \in Rows : HSum(w)[r] = SumFunctionOnSet([l \in Lanes |-> w[l][r]], Lanes)
      BY <1>4, <2>1, HSumIs
    <2> QED BY <2>2 DEF w
  <1>6. (\E l \in Lanes : HMin(v.min) = v.min[l]) /\ \A l \in Lanes : HMin(v.min) <= v.min[l]
    BY <1>4, HMinIs
  <1>7. /\ \E l \in Lanes : HMax(v.max) = v.max[l]
        /\ arch = "NEON" => \A l \in Lanes : HMax(v.max) >= v.max[l]
    BY <1>4, HMaxIs
  <1>8. /\ HoldsBest("min", Exact("min"), Lanes, old.min, v.min, Offered(Seen(t)))
        /\ HoldsBest("max", Exact("max"), Lanes, old.max, v.max, Offered(Seen(t)))
        /\ Offered(Seen(t)) \subseteq Prices
    BY <1>1, <1>2, SeenParts, SeenPrices DEF ExtremaHeld
  <1>9. /\ \A l \in Lanes : FreshVec.min[l] = Worst("min") /\ FreshVec.max[l] = Worst("max")
        /\ FreshVec \in Vectors
    BY FreshIs DEF Worst
  <1>10. HoldsBest("min", Exact("min"), Lanes, Combined("min", old.min, HMin(v.min)),
                   FreshVec.min, Offered(Seen(t)))
    <2>1. Exact("min") => \A l \in Lanes : Beats("min", HMin(v.min), v.min[l])
      BY <1>6 DEF Beats
    <2> HIDE DEF old, v
    <2> QED BY <1>6, <1>8, <1>9, <2>1, BestReduced
  <1>11. HoldsBest("max", Exact("max"), Lanes, Combined("max", old.max, HMax(v.max)),
                   FreshVec.max, Offered(Seen(t)))
    <2>1. Exact("max") => \A l \in Lanes : Beats("max", HMax(v.max), v.max[l])
      BY <1>7 DEF Beats, Exact
    <2> HIDE DEF old, v
    <2> QED BY <1>7, <1>8, <1>9, <2>1, BestReduced
  <1>12. ASSUME NEW r \in Rows
         PROVE  /\ x.sum[r] = Held(t, r)
                /\ x.sum[r] + SumFunctionOnSet([l \in Lanes |-> FreshVec.sum[l][r]], Lanes)
                     = Held(t, r)
                /\ x.sum[r] \in 0 .. MaxRows
    <2> DEFINE F == SumFunctionOnSet([l \in Lanes |-> FreshVec.sum[l][r]], Lanes)
    <2>1. x.sum[r] = old.sum[r] + HSum(v.sum)[r]
      BY DEF Plus
    <2>2. Held(t, r) = old.sum[r] + SumFunctionOnSet([l \in Lanes |-> v.sum[l][r]], Lanes)
      BY DEF Held
    <2>3. x.sum[r] = Held(t, r)
      BY <1>5, <2>1, <2>2
    <2>4. F = 0
      <3> DEFINE f == [l \in Lanes |-> FreshVec.sum[l][r]]
      <3>1. IsFiniteSet(Lanes) /\ \A l \in Lanes : f[l] = 0
        BY <1>4, WidthIs, FreshIs
      <3> HIDE DEF f
      <3>2. SumFunctionOnSet(f, Lanes) = 0
        BY <3>1, SumZero
      <3> QED BY <3>2 DEF f
    <2>5. Held(t, r) \in 0 .. MaxRows /\ Held(t, r) \in Int
      <3>1. Held(t, r) = Occurs(Seen(t), input, r)
        BY <1>1, <1>2 DEF ThreadsHold
      <3>2. Occurs(Seen(t), input, r) \in 0 .. MaxRows
        BY <1>1, <1>2, SeenParts, SeenNumbers
      <3>3. MaxRows \in Nat
        BY SimdAssumption
      <3> QED BY <3>1, <3>2, <3>3
    <2> HIDE DEF F, x
    <2>6. x.sum[r] + F = Held(t, r)
      BY <2>3, <2>4, <2>5
    <2> QED BY <2>3, <2>5, <2>6 DEF F
  <1>13. x \in Partial
    <2> DEFINE s == Plus(old.sum, HSum(v.sum))
               m == Combined("min", old.min, HMin(v.min))
               n == Combined("max", old.max, HMax(v.max))
    <2>1. s \in Sums
      <3>1. s = [r \in Rows |-> old.sum[r] + HSum(v.sum)[r]]
        BY DEF Plus
      <3>2. \A r \in Rows : s[r] \in 0 .. MaxRows
        BY <1>12
      <3> QED BY <3>1, <3>2 DEF Sums
    <2>2. m \in Extrema /\ n \in Extrema
      <3>1. /\ old.min \in Extrema /\ old.max \in Extrema
            /\ \A l \in Lanes : v.min[l] \in Extrema /\ v.max[l] \in Extrema
        BY <1>4 DEF Partial, Vectors
      <3>2. HMin(v.min) \in Extrema /\ HMax(v.max) \in Extrema /\ \A e \in Extrema : e \in Int
        BY <1>6, <1>7, <3>1, SimdAssumption DEF Extrema
      <3> QED BY <3>1, <3>2, CombinedIs
    <2>3. old.count \in 0 .. MaxRows
      BY <1>4 DEF Partial
    <2> HIDE DEF s, m, n
    <2>4. [count |-> old.count, sum |-> s, min |-> m, max |-> n] \in Partial
      BY <2>1, <2>2, <2>3 DEF Partial
    <2> QED BY <2>4 DEF s, m, n
  <1>14. /\ x.count = local[t].count
         /\ x.min = Combined("min", old.min, HMin(v.min))
         /\ x.max = Combined("max", old.max, HMax(v.max))
    OBVIOUS
  <1>15. \A r \in Rows :
           x.sum[r] + SumFunctionOnSet([l \in Lanes |-> FreshVec.sum[l][r]], Lanes) = Held(t, r)
    BY <1>12
  <1> HIDE DEF old, v, label, x
  <1>16. /\ HoldsBest("min", Exact("min"), Lanes, x.min, FreshVec.min, Offered(Seen(t)))
         /\ HoldsBest("max", Exact("max"), Lanes, x.max, FreshVec.max, Offered(Seen(t)))
    BY <1>10, <1>11, <1>14
  <1> QED BY <1>1, <1>2, <1>3, <1>9, <1>13, <1>14, <1>15, <1>16, HoldIInv

-----------------------------------------------------------------------------
(* A merge changes an accumulator and nothing of what the threads hold. *)
LEMMA MergeKeeps ==
  ASSUME IInv, NEW t \in Team, pc[t] \in {"count", "sum", "min", "max"},
         NEW label \in {"sum", "min", "max", "done"}, label \in {"min", "max"} => kind = "price",
         pc' = [pc EXCEPT ![t] = label], acc' \in Partial,
         UNCHANGED <<arch, numThreads, next, cut, local, vec, queryVars>>
  PROVE  /\ TypeOK' /\ Labels' /\ ThreadsHold' /\ ExtremaHeld'
         /\ busy /\ busy' = busy /\ kind' = kind /\ input' = input /\ Team' = Team
         /\ vec[t] = FreshVec
         /\ \A field : Exact(field)' = Exact(field)
         /\ \A u : Seen(u)' = Seen(u) /\ Offered(Seen(u))' = Offered(Seen(u))
         /\ Offered(PositionsSeen)' = Offered(PositionsSeen)
  <1>1. TypeOK /\ Labels /\ ThreadsHold /\ ExtremaHeld
    BY DEF IInv
  <1>2. UNCHANGED <<arch, numThreads, next, cut, local, vec, busy, kind, input, price>>
    BY DEF queryVars
  <1>3. busy /\ vec[t] = FreshVec
    BY <1>1 DEF Labels
  <1>4. /\ Team' = Team /\ Lanes' = Lanes /\ Width' = Width /\ Vectors' = Vectors
        /\ FreshVec' = FreshVec /\ BlockCount(Len(input))' = BlockCount(Len(input))
        /\ \A S, n : Schedules(n, S)' = Schedules(n, S)
        /\ \A field : Exact(field)' = Exact(field)
        /\ \A u : Seen(u)' = Seen(u) /\ Offered(Seen(u))' = Offered(Seen(u))
        /\ Offered(PositionsSeen)' = Offered(PositionsSeen)
    BY <1>1, <1>2, StandStill
  <1>5. /\ pc'[t] = label /\ \A u \in Team : u # t => pc'[u] = pc[u]
        /\ pc' \in [Team -> {"work", "forEnd", "count", "sum", "min", "max", "done"}]
    BY <1>1 DEF TypeOK
  <1>6. TypeOK'
    BY <1>1, <1>2, <1>4, <1>5 DEF TypeOK
  <1>7. Labels'
    BY <1>1, <1>2, <1>3, <1>4, <1>5 DEF Labels
  <1>8. ThreadsHold'
    <2>1. \A u, r : Held(u, r)' = Held(u, r)
      BY <1>2, <1>4 DEF Held
    <2> QED BY <1>1, <1>2, <1>4, <2>1 DEF ThreadsHold
  <1>9. ExtremaHeld'
    BY <1>1, <1>2, <1>4 DEF ExtremaHeld
  <1> QED BY <1>2, <1>3, <1>4, <1>6, <1>7, <1>8, <1>9

(* The parts of the threads that have merged are sums of rows that were met,
   so that an accumulator overflows no more than the number of rows does.   *)
LEMMA SumGains ==
  ASSUME TypeOK, Labels, NEW M, M \subseteq Team, NEW t \in Team, t \notin M, NEW r
  PROVE  /\ SumFunctionOnSet([u \in Team |-> Occurs(Seen(u), input, r)], M \union {t}) =
              SumFunctionOnSet([u \in Team |-> Occurs(Seen(u), input, r)], M)
                + Occurs(Seen(t), input, r)
         /\ SumFunctionOnSet([u \in Team |-> Occurs(Seen(u), input, r)], M \union {t})
              \in 0 .. MaxRows
         /\ SumFunctionOnSet([u \in Team |-> Cardinality(Seen(u))], M \union {t}) =
              SumFunctionOnSet([u \in Team |-> Cardinality(Seen(u))], M)
                + Cardinality(Seen(t))
         /\ SumFunctionOnSet([u \in Team |-> Cardinality(Seen(u))], M \union {t})
              \in 0 .. MaxRows
  <1> DEFINE f == [u \in Team |-> Occurs(Seen(u), input, r)]
             g == [u \in Team |-> Cardinality(Seen(u))]
             N == M \union {t}
  <1>1. N \subseteq Team /\ IsFiniteSet(N) /\ t \in N /\ N \ {t} = M /\ IsFiniteSet(M)
    BY SeenParts, FS_Subset
  <1>2. Len(input) <= MaxRows /\ \A u \in Team : Seen(u) \subseteq DOMAIN input
    BY SeenParts DEF Labels
  <1>3. /\ \A u \in Team : f[u] = Occurs(Seen(u), input, r) /\ f[u] \in 0 .. MaxRows
        /\ \A u \in Team : g[u] = Cardinality(Seen(u)) /\ g[u] \in 0 .. MaxRows
    BY <1>2, SeenNumbers
  <1>4. SumFunctionOnSet(f, N) \in 0 .. MaxRows /\ SumFunctionOnSet(g, N) \in 0 .. MaxRows
    <2> DEFINE P == UNION {Seen(u) : u \in N}
    <2>1. /\ SumFunctionOnSet(f, N) = Occurs(P, input, r)
          /\ SumFunctionOnSet(g, N) = Cardinality(P) /\ P \subseteq DOMAIN input
      BY <1>1, SeenTogether
    <2> HIDE DEF P, f, g
    <2>2. Cardinality(P) \in 0 .. MaxRows /\ Occurs(P, input, r) \in 0 .. MaxRows
      BY <1>2, <2>1, SeenNumbers
    <2> QED BY <2>1, <2>2
  <1>5. MaxRows \in Nat
    BY SimdAssumption
  <1> HIDE DEF f, g, N
  <1>6. /\ \A u \in N : f[u] \in Int /\ g[u] \in Int
        /\ \A u \in M : f[u] \in Int /\ g[u] \in Int
    BY <1>1, <1>3, <1>5
  <1>7. /\ SumFunctionOnSet(f, N) = f[t] + SumFunctionOnSet(f, M)
        /\ SumFunctionOnSet(g, N) = g[t] + SumFunctionOnSet(g, M)
    <2>1. /\ SumFunctionOnSet(f, N) = f[t] + SumFunctionOnSet(f, N \ {t})
          /\ SumFunctionOnSet(g, N) = g[t] + SumFunctionOnSet(g, N \ {t})
      BY <1>1, <1>6, SumTakeOut
    <2> QED BY <1>1, <2>1
  <1>8. SumFunctionOnSet(f, M) \in Int /\ SumFunctionOnSet(g, M) \in Int
    BY <1>1, <1>6, SumInt
  <1> DEFINE F == SumFunctionOnSet(f, M)
             G == SumFunctionOnSet(g, M)
             a == Occurs(Seen(t), input, r)
             b == Cardinality(Seen(t))
  <1>9. F \in Int /\ G \in Int /\ a \in Int /\ b \in Int /\ f[t] = a /\ g[t] = b
    BY <1>3, <1>5, <1>8
  <1>10. SumFunctionOnSet(f, N) = a + F /\ SumFunctionOnSet(g, N) = b + G
    BY <1>7, <1>9
  <1> HIDE DEF F, G, a, b
  <1>11. SumFunctionOnSet(f, N) = F + a /\ SumFunctionOnSet(g, N) = G + b
    BY <1>9, <1>10
  <1> QED BY <1>4, <1>11 DEF F, G, a, b, f, g, N

LEMMA MergeIs ==
  ASSUME IInv, NEW t, NEW a \in {"count", "sum", "min", "max"}, Merge(t, a)
  PROVE  /\ t \in Team /\ pc[t] = a
         /\ acc' = [acc EXCEPT ![a] = Combined(a, acc[a], local[t][a])]
         /\ pc' = [pc EXCEPT ![t] = After(a)]
         /\ After(a) \in {"sum", "min", "max", "done"}
         /\ After(a) \in {"min", "max"} => kind = "price"
         /\ UNCHANGED <<arch, numThreads, next, cut, local, vec, queryVars>>
  <1>1. /\ t \in Team /\ pc[t] = a /\ pc' = [pc EXCEPT ![t] = After(a)]
        /\ acc' = [acc EXCEPT ![a] = Combined(a, acc[a], local[t][a])]
        /\ UNCHANGED <<arch, numThreads, next, cut, local, vec, queryVars>>
    BY DEF Merge, At, GoTo
  <1>2. kind \in {"price", "sum"} /\ (kind = "sum" => a \notin {"count", "min", "max"})
    BY <1>1 DEF IInv, TypeOK, Labels
  <1>3. /\ After(a) \in {"sum", "min", "max", "done"}
        /\ After(a) \in {"min", "max"} => kind = "price"
    BY <1>2 DEF After
  <1> QED BY <1>1, <1>3

LEMMA MergeCountIInv ==
  ASSUME IInv, NEW t, Merge(t, "count")
  PROVE  IInv'
  <1> DEFINE c == acc.count + local[t].count
  <1>1. /\ t \in Team /\ pc[t] = "count" /\ pc' = [pc EXCEPT ![t] = "sum"]
        /\ UNCHANGED <<arch, numThreads, next, cut, local, vec, queryVars>>
        /\ acc' = [acc EXCEPT !.count = c]
    <2>1. After("count") = "sum" /\ Combined("count", acc.count, local[t].count) = c
      BY DEF After, Combined
    <2> QED BY <2>1, MergeIs
  <1>2. TypeOK /\ Labels /\ ThreadsHold /\ SumsMerged /\ CountsMerged /\ ExtremaMerged
    BY DEF IInv
  <1>3. busy /\ kind = "price"
    BY <1>1, <1>2 DEF Labels, TypeOK
  <1> DEFINE M == Merged(Uncounted)
             S(T) == SumFunctionOnSet([u \in Team |-> Cardinality(Seen(u))], T)
  <1>4. M \subseteq Team /\ t \notin M /\ acc.count = S(M) /\ local[t].count = Cardinality(Seen(t))
    BY <1>1, <1>2, <1>3 DEF Merged, Uncounted, CountsMerged, ThreadsHold
  <1>5. S(M \union {t}) = S(M) + Cardinality(Seen(t)) /\ S(M \union {t}) \in 0 .. MaxRows
    BY <1>1, <1>2, <1>4, SumGains
  <1> HIDE DEF M, S
  <1>6. c = S(M \union {t}) /\ c \in 0 .. MaxRows
    BY <1>4, <1>5
  <1> HIDE DEF c
  <1>7. /\ acc' \in Partial /\ acc'.count = c /\ acc'.sum = acc.sum
        /\ acc'.min = acc.min /\ acc'.max = acc.max
    BY <1>1, <1>2, <1>6, AccNumbers DEF Partial
  <1>8. /\ TypeOK' /\ Labels' /\ ThreadsHold' /\ ExtremaHeld'
        /\ busy' = busy /\ kind' = kind /\ input' = input /\ Team' = Team
        /\ \A field : Exact(field)' = Exact(field)
        /\ \A u : Seen(u)' = Seen(u) /\ Offered(Seen(u))' = Offered(Seen(u))
        /\ Offered(PositionsSeen)' = Offered(PositionsSeen)
    BY <1>1, <1>3, <1>7, MergeKeeps
  <1>9. /\ Merged(Unmerged)' = Merged(Unmerged) /\ Merged(Uncounted)' = M \union {t}
        /\ \A field : Merged(Unoffered(field))' = Merged(Unoffered(field))
    <2>1. \A L : /\ pc[t] \in L /\ "sum" \in L => Merged(L)' = Merged(L)
                 /\ pc[t] \in L /\ "sum" \notin L => Merged(L)' = Merged(L) \union {t}
      BY <1>1, <1>2, <1>8, MergedMoves
    <2>2. /\ "count" \in Unmerged /\ "sum" \in Unmerged
          /\ "count" \in Uncounted /\ "sum" \notin Uncounted
          /\ \A field : "count" \in Unoffered(field) /\ "sum" \in Unoffered(field)
      BY DEF Unmerged, Uncounted, Unoffered
    <2> QED BY <1>1, <2>1, <2>2 DEF M
  <1>10. SumsMerged'
    BY <1>2, <1>7, <1>8, <1>9 DEF SumsMerged
  <1>11. CountsMerged'
    BY <1>6, <1>7, <1>8, <1>9 DEF CountsMerged, S
  <1>12. ExtremaMerged'
    BY <1>2, <1>7, <1>8, <1>9 DEF ExtremaMerged, HasBest
  <1> QED BY <1>8, <1>10, <1>11, <1>12 DEF IInv

LEMMA MergeSumIInv ==
  ASSUME IInv, NEW t, Merge(t, "sum")
  PROVE  IInv'
  <1> DEFINE label == After("sum")
             s == Plus(acc.sum, local[t].sum)
  <1>1. /\ t \in Team /\ pc[t] = "sum" /\ pc' = [pc EXCEPT ![t] = label]
        /\ label \in {"sum", "min", "max", "done"}
        /\ label \in {"min", "max"} => kind = "price"
        /\ UNCHANGED <<arch, numThreads, next, cut, local, vec, queryVars>>
        /\ acc' = [acc EXCEPT !.sum = s]
    <2>1. Combined("sum", acc.sum, local[t].sum) = s
      BY DEF Combined
    <2> QED BY <2>1, MergeIs
  <1>2. TypeOK /\ Labels /\ ThreadsHold /\ SumsMerged /\ CountsMerged /\ ExtremaMerged
    BY DEF IInv
  <1>3. busy /\ label = IF kind = "price" THEN "min" ELSE "done"
    BY <1>1, <1>2 DEF Labels, After
  <1> HIDE DEF label
  <1>4. vec[t] = FreshVec
    BY <1>1, <1>2 DEF Labels
  <1> DEFINE M == Merged(Unmerged)
             S(T, r) == SumFunctionOnSet([u \in Team |-> Occurs(Seen(u), input, r)], T)
  <1>5. M \subseteq Team /\ t \notin M /\ \A r \in Rows : acc.sum[r] = S(M, r)
    BY <1>1, <1>2, <1>3 DEF Merged, Unmerged, SumsMerged
  <1>6. ASSUME NEW r \in Rows
        PROVE  local[t].sum[r] = Occurs(Seen(t), input, r)
    <2> DEFINE f == [l \in Lanes |-> FreshVec.sum[l][r]]
               F == SumFunctionOnSet(f, Lanes)
    <2>1. IsFiniteSet(Lanes) /\ \A l \in Lanes : f[l] = 0
      BY <1>2, WidthIs, FreshIs DEF TypeOK
    <2> HIDE DEF f
    <2>2. F = 0
      BY <2>1, SumZero
    <2>3. Held(t, r) = local[t].sum[r] + F
      BY <1>4 DEF Held, f
    <2>4. Held(t, r) = Occurs(Seen(t), input, r)
      BY <1>1, <1>2, <1>3 DEF ThreadsHold
    <2>5. local[t].sum[r] \in Nat
      BY <1>1, <1>2, ThreadNumbers
    <2> HIDE DEF F
    <2> QED BY <2>2, <2>3, <2>4, <2>5
  <1>7. \A r \in Rows : /\ S(M \union {t}, r) = S(M, r) + Occurs(Seen(t), input, r)
                        /\ S(M \union {t}, r) \in 0 .. MaxRows
    BY <1>1, <1>2, <1>5, SumGains
  <1> HIDE DEF M, S
  <1>8. s \in Sums /\ \A r \in Rows : s[r] = S(M \union {t}, r)
    <2>1. s = [r \in Rows |-> acc.sum[r] + local[t].sum[r]]
      BY DEF Plus
    <2>2. \A r \in Rows : acc.sum[r] + local[t].sum[r] = S(M \union {t}, r)
      BY <1>5, <1>6, <1>7
    <2>3. \A r \in Rows : s[r] = S(M \union {t}, r)
      BY <2>1, <2>2
    <2>4. \A r \in Rows : s[r] \in 0 .. MaxRows
      BY <1>7, <2>3
    <2> QED BY <2>1, <2>3, <2>4 DEF Sums
  <1> HIDE DEF s
  <1>9. /\ acc' \in Partial /\ acc'.count = acc.count /\ acc'.sum = s
        /\ acc'.min = acc.min /\ acc'.max = acc.max
    BY <1>1, <1>2, <1>8, AccNumbers DEF Partial
  <1>10. /\ TypeOK' /\ Labels' /\ ThreadsHold' /\ ExtremaHeld'
         /\ busy' = busy /\ kind' = kind /\ input' = input /\ Team' = Team
         /\ \A field : Exact(field)' = Exact(field)
         /\ \A u : Seen(u)' = Seen(u) /\ Offered(Seen(u))' = Offered(Seen(u))
         /\ Offered(PositionsSeen)' = Offered(PositionsSeen)
    BY <1>1, <1>9, MergeKeeps
  <1>11. /\ Merged(Unmerged)' = M \union {t}
         /\ kind = "price" => Merged(Uncounted)' = Merged(Uncounted)
         /\ kind = "price" => /\ Merged(Unoffered("min"))' = Merged(Unoffered("min"))
                              /\ Merged(Unoffered("max"))' = Merged(Unoffered("max"))
    <2>1. \A L : /\ pc[t] \in L /\ label \in L => Merged(L)' = Merged(L)
                 /\ pc[t] \notin L /\ label \notin L => Merged(L)' = Merged(L)
                 /\ pc[t] \in L /\ label \notin L => Merged(L)' = Merged(L) \union {t}
      BY <1>1, <1>2, <1>10, MergedMoves
    <2>2. /\ "sum" \in Unmerged /\ label \notin Unmerged
          /\ "sum" \notin Uncounted /\ label \notin Uncounted
          /\ \A field \in {"min", "max"} : /\ "sum" \in Unoffered(field)
                                           /\ kind = "price" => label \in Unoffered(field)
      BY <1>3 DEF Unmerged, Uncounted, Unoffered
    <2> QED BY <1>1, <2>1, <2>2 DEF M
  <1>12. SumsMerged'
    BY <1>8, <1>9, <1>10, <1>11 DEF SumsMerged, S
  <1>13. CountsMerged'
    BY <1>2, <1>9, <1>10, <1>11 DEF CountsMerged
  <1>14. ExtremaMerged'
    BY <1>2, <1>9, <1>10, <1>11 DEF ExtremaMerged, HasBest
  <1> QED BY <1>10, <1>12, <1>13, <1>14 DEF IInv

(* The better of an accumulated extremum x and that of thread t. *)
LEMMA BestGains ==
  ASSUME TypeOK, price \in [Rows -> Prices], NEW t \in Team, NEW field \in {"min", "max"},
         NEW x \in Extrema, HasBest(field, x), NEW z \in Extrema, NEW v,
         HoldsBest(field, Exact(field), Lanes, z, v, Offered(Seen(t))),
         \A l \in Lanes : v[l] = Worst(field)
  PROVE  /\ Combined(field, x, z) \in Extrema
         /\ Combined(field, x, z) \in {Worst(field)} \union Offered(PositionsSeen)
         /\ kind = "price" /\ Exact(field) =>
              \A u \in Merged(Unoffered(field)) \union {t} :
                \A p \in Offered(Seen(u)) : Beats(field, Combined(field, x, z), p)
  <1> DEFINE y == Combined(field, x, z)
  <1>1. /\ Offered(Seen(t)) \subseteq Offered(PositionsSeen)
        /\ \A u \in Team : Offered(Seen(u)) \subseteq Prices
    <2>1. PositionsSeen = UNION {Seen(u) : u \in Team}
          /\ \A u \in Team : Seen(u) \subseteq DOMAIN input
      BY SeenParts
    <2>2. Seen(t) \subseteq PositionsSeen
      BY <2>1
    <2>3. \A u \in Team : Offered(Seen(u)) \subseteq Prices
      BY <2>1, SeenPrices
    <2> QED BY <2>2, <2>3 DEF Offered
  <1>2. x \in Int /\ z \in Int
    BY SimdAssumption DEF Extrema
  <1>3. y \in {x, z} /\ Beats(field, y, x) /\ Beats(field, y, z) /\ y \in Int
    BY <1>2, CombinedIs
  <1> HIDE DEF y
  <1>4. y \in {Worst(field)} \union Offered(PositionsSeen)
    BY <1>1, <1>3 DEF HasBest, HoldsBest
  <1>5. ASSUME kind = "price", Exact(field), NEW u \in Merged(Unoffered(field)) \union {t},
               NEW p \in Offered(Seen(u))
        PROVE  Beats(field, y, p)
    <2>1. p \in Int
      BY <1>1, BeatsOrder DEF Merged
    <2>2. CASE u \in Merged(Unoffered(field))
      <3>1. Beats(field, x, p)
        BY <1>5, <2>2 DEF HasBest
      <3> QED BY <1>2, <1>3, <2>1, <3>1, BeatsOrder
    <2>3. CASE u = t
      <3>1. Offered(Seen(t)) \subseteq Prices
        BY <1>1
      <3>2. \A q \in Offered(Seen(t)) : Beats(field, z, q)
        BY <1>5, <3>1, BestAlone
      <3>3. Beats(field, z, p)
        BY <2>3, <3>2
      <3> QED BY <1>2, <1>3, <2>1, <3>3, BeatsOrder
    <2> QED BY <2>2, <2>3
  <1> QED BY <1>3, <1>4, <1>5 DEF y

LEMMA MergeMinIInv ==
  ASSUME IInv, NEW t, Merge(t, "min")
  PROVE  IInv'
  <1> DEFINE y == Combined("min", acc.min, local[t].min)
  <1>1. /\ t \in Team /\ pc[t] = "min" /\ pc' = [pc EXCEPT ![t] = "max"]
        /\ UNCHANGED <<arch, numThreads, next, cut, local, vec, queryVars>>
        /\ acc' = [acc EXCEPT !.min = y]
    <2>1. After("min") = "max"
      BY DEF After
    <2> QED BY <2>1, MergeIs
  <1>2. TypeOK /\ Labels /\ ExtremaHeld /\ SumsMerged /\ CountsMerged /\ ExtremaMerged
    BY DEF IInv
  <1>3. busy /\ kind = "price" /\ price \in [Rows -> Prices] /\ vec[t] = FreshVec
    BY <1>1, <1>2 DEF Labels, TypeOK
  <1>4. /\ y \in Extrema /\ y \in {Worst("min")} \union Offered(PositionsSeen)
        /\ kind = "price" /\ Exact("min") =>
             \A u \in Merged(Unoffered("min")) \union {t} :
               \A p \in Offered(Seen(u)) : Beats("min", y, p)
    <2> DEFINE a == acc.min
               z == local[t].min
               v == vec[t].min
    <2>1. a \in Extrema /\ z \in Extrema
      BY <1>1, <1>2, AccNumbers, ThreadNumbers DEF Partial
    <2>2. \A l \in Lanes : v[l] = Worst("min")
      BY <1>3, FreshIs DEF Worst
    <2>3. HasBest("min", a) /\ HoldsBest("min", Exact("min"), Lanes, z, v, Offered(Seen(t)))
      BY <1>1, <1>2, <1>3 DEF ExtremaMerged, ExtremaHeld
    <2>4. y = Combined("min", a, z)
      OBVIOUS
    <2> HIDE DEF a, z, v, y
    <2> QED BY <1>1, <1>2, <1>3, <2>1, <2>2, <2>3, <2>4, BestGains
  <1> HIDE DEF y
  <1>5. /\ acc' \in Partial /\ acc'.count = acc.count /\ acc'.sum = acc.sum
        /\ acc'.min = y /\ acc'.max = acc.max
    BY <1>1, <1>2, <1>4, AccNumbers DEF Partial
  <1>6. /\ TypeOK' /\ Labels' /\ ThreadsHold' /\ ExtremaHeld'
        /\ busy' = busy /\ kind' = kind /\ input' = input /\ Team' = Team
        /\ \A field : Exact(field)' = Exact(field)
        /\ \A u : Seen(u)' = Seen(u) /\ Offered(Seen(u))' = Offered(Seen(u))
        /\ Offered(PositionsSeen)' = Offered(PositionsSeen)
    BY <1>1, <1>3, <1>5, MergeKeeps
  <1>7. /\ Merged(Unmerged)' = Merged(Unmerged) /\ Merged(Uncounted)' = Merged(Uncounted)
        /\ Merged(Unoffered("min"))' = Merged(Unoffered("min")) \union {t}
        /\ Merged(Unoffered("max"))' = Merged(Unoffered("max"))
    <2>1. \A L : /\ pc[t] \in L /\ "max" \in L => Merged(L)' = Merged(L)
                 /\ pc[t] \notin L /\ "max" \notin L => Merged(L)' = Merged(L)
                 /\ pc[t] \in L /\ "max" \notin L => Merged(L)' = Merged(L) \union {t}
      BY <1>1, <1>2, <1>6, MergedMoves
    <2>2. /\ "min" \notin Unmerged /\ "max" \notin Unmerged
          /\ "min" \notin Uncounted /\ "max" \notin Uncounted
          /\ "min" \in Unoffered("min") /\ "max" \notin Unoffered("min")
          /\ "min" \in Unoffered("max") /\ "max" \in Unoffered("max")
      BY DEF Unmerged, Uncounted, Unoffered
    <2> QED BY <1>1, <2>1, <2>2
  <1>8. SumsMerged' /\ CountsMerged'
    BY <1>2, <1>5, <1>6, <1>7 DEF SumsMerged, CountsMerged
  <1>9. ExtremaMerged'
    <2>1. /\ y \in {Worst("min")} \union Offered(PositionsSeen)'
          /\ Exact("min")' => \A u \in Merged(Unoffered("min"))' :
                                \A p \in Offered(Seen(u))' : Beats("min", y, p)
      BY <1>3, <1>4, <1>6, <1>7
    <2>2. /\ acc.max \in {Worst("max")} \union Offered(PositionsSeen)'
          /\ Exact("max")' => \A u \in Merged(Unoffered("max"))' :
                                \A p \in Offered(Seen(u))' : Beats("max", acc.max, p)
      BY <1>2, <1>3, <1>6, <1>7 DEF ExtremaMerged, HasBest
    <2> QED BY <1>5, <2>1, <2>2 DEF ExtremaMerged, HasBest
  <1> QED BY <1>6, <1>8, <1>9 DEF IInv

LEMMA MergeMaxIInv ==
  ASSUME IInv, NEW t, Merge(t, "max")
  PROVE  IInv'
  <1> DEFINE y == Combined("max", acc.max, local[t].max)
  <1>1. /\ t \in Team /\ pc[t] = "max" /\ pc' = [pc EXCEPT ![t] = "done"]
        /\ UNCHANGED <<arch, numThreads, next, cut, local, vec, queryVars>>
        /\ acc' = [acc EXCEPT !.max = y]
    <2>1. After("max") = "done"
      BY DEF After
    <2> QED BY <2>1, MergeIs
  <1>2. TypeOK /\ Labels /\ ExtremaHeld /\ SumsMerged /\ CountsMerged /\ ExtremaMerged
    BY DEF IInv
  <1>3. busy /\ kind = "price" /\ price \in [Rows -> Prices] /\ vec[t] = FreshVec
    BY <1>1, <1>2 DEF Labels, TypeOK
  <1>4. /\ y \in Extrema /\ y \in {Worst("max")} \union Offered(PositionsSeen)
        /\ kind = "price" /\ Exact("max") =>
             \A u \in Merged(Unoffered("max")) \union {t} :
               \A p \in Offered(Seen(u)) : Beats("max", y, p)
    <2> DEFINE a == acc.max
               z == local[t].max
               v == vec[t].max
    <2>1. a \in Extrema /\ z \in Extrema
      BY <1>1, <1>2, AccNumbers, ThreadNumbers DEF Partial
    <2>2. \A l \in Lanes : v[l] = Worst("max")
      BY <1>3, FreshIs DEF Worst
    <2>3. HasBest("max", a) /\ HoldsBest("max", Exact("max"), Lanes, z, v, Offered(Seen(t)))
      BY <1>1, <1>2, <1>3 DEF ExtremaMerged, ExtremaHeld
    <2>4. y = Combined("max", a, z)
      OBVIOUS
    <2> HIDE DEF a, z, v, y
    <2> QED BY <1>1, <1>2, <1>3, <2>1, <2>2, <2>3, <2>4, BestGains
  <1> HIDE DEF y
  <1>5. /\ acc' \in Partial /\ acc'.count = acc.count /\ acc'.sum = acc.sum
        /\ acc'.min = acc.min /\ acc'.max = y
    BY <1>1, <1>2, <1>4, AccNumbers DEF Partial
  <1>6. /\ TypeOK' /\ Labels' /\ ThreadsHold' /\ ExtremaHeld'
        /\ busy' = busy /\ kind' = kind /\ input' = input /\ Team' = Team
        /\ \A field : Exact(field)' = Exact(field)
        /\ \A u : Seen(u)' = Seen(u) /\ Offered(Seen(u))' = Offered(Seen(u))
        /\ Offered(PositionsSeen)' = Offered(PositionsSeen)
    BY <1>1, <1>3, <1>5, MergeKeeps
  <1>7. /\ Merged(Unmerged)' = Merged(Unmerged) /\ Merged(Uncounted)' = Merged(Uncounted)
        /\ Merged(Unoffered("min"))' = Merged(Unoffered("min"))
        /\ Merged(Unoffered("max"))' = Merged(Unoffered("max")) \union {t}
    <2>1. \A L : /\ pc[t] \notin L /\ "done" \notin L => Merged(L)' = Merged(L)
                 /\ pc[t] \in L /\ "done" \notin L => Merged(L)' = Merged(L) \union {t}
      BY <1>1, <1>2, <1>6, MergedMoves
    <2>2. /\ "max" \notin Unmerged /\ "done" \notin Unmerged
          /\ "max" \notin Uncounted /\ "done" \notin Uncounted
          /\ "max" \notin Unoffered("min") /\ "done" \notin Unoffered("min")
          /\ "max" \in Unoffered("max") /\ "done" \notin Unoffered("max")
      BY DEF Unmerged, Uncounted, Unoffered
    <2> QED BY <1>1, <2>1, <2>2
  <1>8. SumsMerged' /\ CountsMerged'
    BY <1>2, <1>5, <1>6, <1>7 DEF SumsMerged, CountsMerged
  <1>9. ExtremaMerged'
    <2>1. /\ y \in {Worst("max")} \union Offered(PositionsSeen)'
          /\ Exact("max")' => \A u \in Merged(Unoffered("max"))' :
                                \A p \in Offered(Seen(u))' : Beats("max", y, p)
      BY <1>3, <1>4, <1>6, <1>7
    <2>2. /\ acc.min \in {Worst("min")} \union Offered(PositionsSeen)'
          /\ Exact("min")' => \A u \in Merged(Unoffered("min"))' :
                                \A p \in Offered(Seen(u))' : Beats("min", acc.min, p)
      BY <1>2, <1>3, <1>6, <1>7 DEF ExtremaMerged, HasBest
    <2> QED BY <1>5, <2>1, <2>2 DEF ExtremaMerged, HasBest
  <1> QED BY <1>6, <1>8, <1>9 DEF IInv

LEMMA ReturnIInv ==
  ASSUME IInv, Return
  PROVE  IInv'
  <1>1. /\ TypeOK /\ Labels /\ busy' = FALSE /\ acc' = Fresh /\ local' = [t \in Team |-> Fresh]
        /\ \A t \in Team : pc[t] = "done"
        /\ UNCHANGED <<arch, numThreads, pc, next, cut, vec, kind, input, price>>
    BY DEF IInv, Return
  <1>2. /\ Team' = Team /\ Lanes' = Lanes /\ Width' = Width /\ Vectors' = Vectors
        /\ FreshVec' = FreshVec /\ BlockCount(Len(input))' = BlockCount(Len(input))
        /\ \A S, n : Schedules(n, S)' = Schedules(n, S)
    BY <1>1, StandStill
  <1>3. local' \in [Team -> Partial] /\ acc' \in Partial
    BY <1>1, FreshIs
  <1>4. TypeOK'
    BY <1>1, <1>2, <1>3 DEF TypeOK
  <1>5. Labels'
    BY <1>1, <1>2 DEF Labels
  <1> QED BY <1>1, <1>4, <1>5
          DEF IInv, ThreadsHold, ExtremaHeld, SumsMerged, CountsMerged, ExtremaMerged

LEMMA StutterIInv ==
  ASSUME IInv, UNCHANGED vars
  PROVE  IInv'
  <1>1. UNCHANGED <<arch, numThreads, pc, next, cut, local, vec, acc, busy, kind, input, price>>
    BY DEF vars, threadVars, queryVars
  <1>2. TypeOK
    BY DEF IInv
  <1>3. /\ Team' = Team /\ Lanes' = Lanes /\ Width' = Width /\ Vectors' = Vectors
        /\ FreshVec' = FreshVec /\ BlockCount(Len(input))' = BlockCount(Len(input))
        /\ \A S, n : Schedules(n, S)' = Schedules(n, S)
        /\ \A field : Exact(field)' = Exact(field)
        /\ \A u : Seen(u)' = Seen(u) /\ Offered(Seen(u))' = Offered(Seen(u))
        /\ Offered(PositionsSeen)' = Offered(PositionsSeen)
    BY <1>1, <1>2, StandStill
  <1>4. TypeOK' /\ Labels'
    BY <1>1, <1>3 DEF IInv, TypeOK, Labels
  <1>5. ThreadsHold'
    <2>1. \A u, r : Held(u, r)' = Held(u, r)
      BY <1>1, <1>3 DEF Held
    <2> QED BY <1>1, <1>3, <2>1 DEF IInv, ThreadsHold
  <1>6. ExtremaHeld'
    BY <1>1, <1>3 DEF IInv, ExtremaHeld
  <1>7. \A L : Merged(L)' = Merged(L)
    BY <1>1, <1>3 DEF Merged
  <1>8. SumsMerged' /\ CountsMerged'
    BY <1>1, <1>3, <1>7 DEF IInv, SumsMerged, CountsMerged
  <1>9. ExtremaMerged'
    BY <1>1, <1>3, <1>7 DEF IInv, ExtremaMerged, HasBest
  <1> QED BY <1>4, <1>5, <1>6, <1>8, <1>9 DEF IInv

LEMMA NextIInv == IInv /\ [Next]_vars => IInv'
  <1> SUFFICES ASSUME IInv, [Next]_vars PROVE IInv'
    OBVIOUS
  <1>1. ASSUME NEW n \in 1 .. MaxThreads, NEW total \in Totals, CallTable(n, total)
        PROVE  IInv'
    <2> DEFINE rows == [k \in 1 .. total |-> k - 1]
    <2>1. total \in Nat /\ total <= MaxRows /\ MaxRows \in Nat
      BY SimdAssumption
    <2>2. rows \in [1 .. total -> Rows]
      BY <2>1 DEF Rows
    <2>3. rows \in Seq(Rows) /\ Len(rows) = total
      BY <2>1, <2>2, TupleIsSeq
    <2>4. Call(n, rows)
      BY <1>1 DEF CallTable
    <2> HIDE DEF rows
    <2> QED BY <2>1, <2>3, <2>4, CallIInv
  <1>2. ASSUME NEW n \in 1 .. MaxThreads, NEW s \in Selections, CallSelection(n, s)
        PROVE  IInv'
    <2>1. s \in Seq(Rows) /\ Len(s) <= MaxRows
      BY SimdAssumption DEF Rows
    <2> QED BY <1>2, <2>1, CallIInv DEF CallSelection
  <1>3. ASSUME NEW t \in 0 .. (MaxThreads - 1), Step(t)
        PROVE  IInv'
    <2>1. CASE VectorTurn(t)
      BY <2>1, VectorTurnIInv
    <2>2. CASE ScalarTurn(t)
      BY <2>2, ScalarTurnIInv
    <2>3. CASE LeaveLoop(t)
      BY <2>3, LeaveLoopIInv
    <2>4. CASE ReduceVectors(t)
      BY <2>4, ReduceVectorsIInv
    <2>5. CASE \E a \in {"count", "sum", "min", "max"} : Merge(t, a)
      BY <2>5, MergeCountIInv, MergeSumIInv, MergeMinIInv, MergeMaxIInv
    <2> QED BY <1>3, <2>1, <2>2, <2>3, <2>4, <2>5 DEF Step
  <1>4. CASE Return
    BY <1>4, ReturnIInv
  <1>5. CASE UNCHANGED vars
    BY <1>5, StutterIInv
  <1> QED BY <1>1, <1>2, <1>3, <1>4, <1>5 DEF Next

-----------------------------------------------------------------------------
(* The invariant holds, for every team and every division of the loop. *)
THEOREM SimdInvariance == Spec => []IInv
  BY InitIInv, NextIInv, PTL DEF Spec

(* The counters of the loop stay within the thread's run, a count and a
   multiplicity never exceed the number of rows, and an extremum is a price
   or the value it was initialized with.                                    *)
THEOREM SimdTypeCorrect == Spec => []TypeOK
  <1>1. IInv => TypeOK
    BY DEF IInv
  <1> QED BY SimdInvariance, <1>1, PTL

(* No row is lost or added twice on its way from the lanes through the
   reduction and the threads' scalars into the shared sum.                  *)
LEMMA IInvSum == IInv => SumConserved
  <1> SUFFICES ASSUME IInv, busy, NEW r \in Rows
               PROVE  acc.sum[r] + SumFunctionOnSet([t \in Team |-> Held(t, r)],
                        {t \in Team : pc[t] \in {"work", "forEnd", "count", "sum"}})
                          = Cardinality({k \in PositionsSeen : input[k] = r})
    BY DEF SumConserved
  <1> DEFINE f == [t \in Team |-> Occurs(Seen(t), input, r)]
             g == [t \in Team |-> Held(t, r)]
             M == Merged(Unmerged)
             U == {t \in Team : pc[t] \in {"work", "forEnd", "count", "sum"}}
             P == UNION {Seen(t) : t \in M}
             Q == UNION {Seen(t) : t \in U}
  <1>1. TypeOK /\ Labels /\ Len(input) <= MaxRows
    BY DEF IInv, Labels
  <1>2. M \subseteq Team /\ U \subseteq Team /\ M \cap U = {} /\ M \union U = Team
    BY DEF Merged, Unmerged
  <1>3. \A t \in U : f[t] = g[t]
    BY DEF IInv, ThreadsHold
  <1>4. acc.sum[r] = SumFunctionOnSet(f, M)
    BY DEF IInv, SumsMerged
  <1> HIDE DEF M, U
  <1>5. /\ SumFunctionOnSet(f, M) = Occurs(P, input, r) /\ P \subseteq DOMAIN input
        /\ SumFunctionOnSet(f, U) = Occurs(Q, input, r) /\ Q \subseteq DOMAIN input
    BY <1>1, <1>2, SeenTogether
  <1>6. PositionsSeen = P \union Q /\ P \cap Q = {}
    <2>1. /\ PositionsSeen = UNION {Seen(t) : t \in Team}
          /\ \A t, u \in Team : t # u => Seen(t) \cap Seen(u) = {}
      BY <1>1, SeenParts
    <2> QED BY <1>2, <2>1
  <1> HIDE DEF P, Q, f, g
  <1>7. SumFunctionOnSet(f, U) = SumFunctionOnSet(g, U)
    <2>1. IsFiniteSet(U)
      BY <1>1, <1>2, SeenParts, FS_Subset
    <2> QED BY <1>3, <2>1, SumSame
  <1>8. Occurs(PositionsSeen, input, r) = Occurs(P, input, r) + Occurs(Q, input, r)
    <2>1. IsFiniteSet(P) /\ IsFiniteSet(Q)
      BY <1>1, <1>5, SeenNumbers
    <2> QED BY <1>6, <2>1, OccurrencesAdd
  <1>9. acc.sum[r] + SumFunctionOnSet(g, U) = Occurs(PositionsSeen, input, r)
    BY <1>4, <1>5, <1>7, <1>8
  <1> QED BY <1>9 DEF Occurs, g, U

THEOREM SimdSumExact == Spec => []SumConserved
  BY SimdInvariance, IInvSum, PTL

(* The minimum of the rows that were met is never lost: the least of what is
   held and what is merged is the least of their prices.                    *)
LEMMA IInvMinimum == IInv => MinimumTracked
  <1> DEFINE held == {acc.min} \union {local[t].min : t \in Team}
                       \union UNION {{vec[t].min[l] : l \in Lanes} : t \in Team}
             met == {Infinity} \union {price[input[k]] : k \in PositionsSeen}
  <1> SUFFICES ASSUME IInv, busy, kind = "price" PROVE Min(held) = Min(met)
    BY DEF MinimumTracked
  <1>1. TypeOK /\ Labels /\ ExtremaHeld /\ ExtremaMerged /\ price \in [Rows -> Prices]
    BY DEF IInv, Labels
  <1>2. /\ PositionsSeen = UNION {Seen(t) : t \in Team} /\ PositionsSeen \subseteq DOMAIN input
        /\ IsFiniteSet(PositionsSeen) /\ \A t \in Team : Seen(t) \subseteq PositionsSeen
    <2>1. /\ PositionsSeen = UNION {Seen(t) : t \in Team}
          /\ \A t \in Team : Seen(t) \subseteq DOMAIN input
      BY <1>1, SeenParts
    <2>2. PositionsSeen \subseteq DOMAIN input
      BY <2>1
    <2> QED BY <1>1, <2>1, <2>2, InputIs, FS_Subset
  <1>3. met = {Infinity} \union Offered(PositionsSeen)
    BY DEF Offered
  <1>4. Offered(PositionsSeen) \subseteq Prices /\ IsFiniteSet(Offered(PositionsSeen))
    <2> DEFINE f == [k \in PositionsSeen |-> price[input[k]]]
    <2>1. Offered(PositionsSeen) = {f[k] : k \in PositionsSeen}
      BY DEF Offered
    <2> HIDE DEF f
    <2>2. IsFiniteSet(Offered(PositionsSeen))
      BY <1>2, <2>1, ImageFinite
    <2> QED BY <1>1, <1>2, <2>2, SeenPrices
  <1>5. IsFiniteSet(met) /\ met \subseteq Int /\ met # {}
    <2> DEFINE S == Offered(PositionsSeen)
    <2>1. IsFiniteSet(S) /\ S \subseteq Int /\ Infinity \in Int
      BY <1>4, SimdAssumption, BeatsOrder
    <2>2. met = S \union {Infinity}
      BY <1>3
    <2> HIDE DEF S, met
    <2>3. IsFiniteSet(S \union {Infinity})
      BY <2>1, FS_AddElement
    <2> QED BY <2>1, <2>2, <2>3
  <1>6. /\ \A t \in Team : HoldsBest("min", Exact("min"), Lanes, local[t].min, vec[t].min,
                                     Offered(Seen(t)))
        /\ HasBest("min", acc.min)
    BY <1>1 DEF ExtremaHeld, ExtremaMerged
  <1>7. \A t \in Team : Offered(Seen(t)) \subseteq Offered(PositionsSeen)
    BY <1>2 DEF Offered
  <1>8. held \subseteq met
    <2>1. acc.min \in met
      BY <1>3, <1>6 DEF HasBest, Worst
    <2>2. ASSUME NEW t \in Team
          PROVE  local[t].min \in met /\ \A l \in Lanes : vec[t].min[l] \in met
      BY <1>3, <1>6, <1>7 DEF HoldsBest, Worst
    <2> QED BY <2>1, <2>2
  <1>9. ASSUME NEW p \in met PROVE \E x \in held : x <= p
    <2>1. CASE p = Infinity
      <3>1. acc.min \in Extrema
        BY <1>1, AccNumbers DEF Partial
      <3>2. acc.min <= Infinity
        BY <3>1, SimdAssumption DEF Extrema
      <3> QED BY <2>1, <3>2
    <2>2. CASE p \in Offered(PositionsSeen)
      <3>1. PICK t \in Team : p \in Offered(Seen(t))
        BY <1>2, <2>2 DEF Offered
      <3>2. Beats("min", local[t].min, p) \/ \E l \in Lanes : Beats("min", vec[t].min[l], p)
        BY <1>6, <3>1 DEF HoldsBest, Exact
      <3>3. local[t].min <= p \/ \E l \in Lanes : vec[t].min[l] <= p
        BY <3>2 DEF Beats
      <3> QED BY <3>3
    <2> QED BY <1>3, <1>9, <2>1, <2>2
  <1> HIDE DEF held, met
  <1>10. PICK m : IsLeast(m, met)
    BY <1>5, LeastExists
  <1>11. IsLeast(m, held)
    <2>1. m \in met /\ m \in Int /\ \A x \in met : m <= x
      BY <1>5, <1>10 DEF IsLeast
    <2>2. PICK x \in held : x <= m
      BY <1>9, <2>1
    <2>3. x = m
      BY <1>5, <1>8, <2>1, <2>2
    <2> QED BY <1>8, <2>1, <2>2, <2>3 DEF IsLeast
  <1>12. (\A x \in held : x \in Int) /\ \A x \in met : x \in Int
    BY <1>5, <1>8
  <1>13. Min(held) = m
    BY <1>11, <1>12, MinOfLeast
  <1>14. Min(met) = m
    BY <1>10, <1>12, MinOfLeast
  <1> QED BY <1>13, <1>14

THEOREM SimdMinimumExact == Spec => []MinimumTracked
  BY SimdInvariance, IInvMinimum, PTL

(* What an aggregation returns is the sequential sum, count and minimum, and
   where hmax_ps is exact the maximum: the safety of the refinement that
   ImplementsSequentialSimd states.                                         *)
AnswerAgrees ==
  /\ A!SumAgrees
  /\ kind = "price" =>
       /\ A!CountAgrees
       /\ input # <<>> => A!MinAgrees /\ (arch = "NEON" => A!MaxAgrees)

AnswersAgree == [][busy /\ ~busy' => AnswerAgrees]_vars

LEMMA ReturnAgrees == IInv /\ Return => AnswerAgrees
  <1> SUFFICES ASSUME IInv, Return PROVE AnswerAgrees
    OBVIOUS
  <1>1. /\ TypeOK /\ Labels /\ SumsMerged /\ CountsMerged /\ ExtremaMerged
        /\ busy /\ result' = acc /\ \A t \in Team : pc[t] = "done"
    BY DEF IInv, Return
  <1>2. price \in [Rows -> Prices] /\ \A t \in Team : next[t] = cut[t + 1]
    BY <1>1 DEF Labels
  <1>3. PositionsSeen = DOMAIN input /\ PositionsSeen = UNION {Seen(t) : t \in Team}
    BY <1>1, <1>2, SeenAll, SeenParts
  <1>4. /\ Merged(Unmerged) = Team /\ Merged(Uncounted) = Team
        /\ Merged(Unoffered("min")) = Team /\ Merged(Unoffered("max")) = Team
    BY <1>1 DEF Merged, Unmerged, Uncounted, Unoffered
  <1>5. A!SumAgrees
    <2>1. \A r \in Rows : acc.sum[r] = Occurs(DOMAIN input, input, r)
      <3> SUFFICES ASSUME NEW r \in Rows PROVE acc.sum[r] = Occurs(DOMAIN input, input, r)
        OBVIOUS
      <3>1. acc.sum[r] = SumFunctionOnSet([t \in Team |-> Occurs(Seen(t), input, r)], Team)
        BY <1>1, <1>4 DEF SumsMerged
      <3>2. SumFunctionOnSet([t \in Team |-> Occurs(Seen(t), input, r)], Team) =
              Occurs(UNION {Seen(t) : t \in Team}, input, r)
        BY <1>1, SeenTogether
      <3> QED BY <1>3, <3>1, <3>2
    <2>2. acc.sum \in Sums
      BY <1>1, AccNumbers DEF Partial
    <2>3. acc.sum = [r \in Rows |-> acc.sum[r]]
      BY <2>2 DEF Sums
    <2>4. \A r \in Rows : acc.sum[r] = A!TimesAdded(r)
      <3>1. \A r \in Rows : A!TimesAdded(r) = Cardinality({k \in DOMAIN input : input[k] = r})
        BY DEF A!TimesAdded, A!Cardinality, Cardinality
      <3> QED BY <2>1, <3>1, Zenon DEF Occurs
    <2>5. A!Rows = Rows
      BY DEF A!Rows, Rows
    <2>6. [r \in Rows |-> acc.sum[r]] = [r \in A!Rows |-> A!TimesAdded(r)]
      BY <2>4, <2>5
    <2> QED BY <1>1, <2>3, <2>6 DEF A!SumAgrees
  <1>6. ASSUME kind = "price" PROVE A!CountAgrees
    <2>1. acc.count = SumFunctionOnSet([t \in Team |-> Cardinality(Seen(t))], Team)
      BY <1>1, <1>4, <1>6 DEF CountsMerged
    <2>2. SumFunctionOnSet([t \in Team |-> Cardinality(Seen(t))], Team) =
            Cardinality(UNION {Seen(t) : t \in Team})
      BY <1>1, SeenTogether
    <2>3. Cardinality(DOMAIN input) = Len(input)
      BY <1>1, InputIs
    <2> QED BY <1>1, <1>3, <2>1, <2>2, <2>3 DEF A!CountAgrees
  <1>7. ASSUME kind = "price", input # <<>>, NEW field \in {"min", "max"}, Exact(field),
               NEW x \in Int, HasBest(field, x), Merged(Unoffered(field)) = Team
        PROVE  x \in A!Prices /\ \A p \in A!Prices : Beats(field, x, p)
    <2>1. A!Prices = Offered(DOMAIN input)
      BY DEF A!Prices, Offered
    <2>2. Offered(DOMAIN input) \subseteq Prices /\ Offered(DOMAIN input) # {}
      <3>1. 1 \in DOMAIN input
        <4>1. input \in Seq(Rows)
          BY <1>1 DEF TypeOK
        <4> QED BY <1>7, <4>1
      <3>2. Offered(DOMAIN input) \subseteq Prices
        BY <1>1, <1>2, SeenPrices
      <3> QED BY <3>1, <3>2 DEF Offered
    <2>3. \A p \in Offered(DOMAIN input) : Beats(field, x, p)
      <3> SUFFICES ASSUME NEW p \in Offered(DOMAIN input) PROVE Beats(field, x, p)
        OBVIOUS
      <3>1. PICK t \in Team : p \in Offered(Seen(t))
        BY <1>3 DEF Offered
      <3> QED BY <1>7, <3>1 DEF HasBest
    <2>4. x \in Offered(DOMAIN input)
      <3>1. PICK p \in Offered(DOMAIN input) : Beats(field, x, p)
        BY <2>2, <2>3
      <3>2. x # Worst(field)
        BY <2>2, <3>1, BeatsOrder
      <3> QED BY <1>3, <1>7, <3>2 DEF HasBest
    <2> QED BY <2>1, <2>3, <2>4
  <1>8. acc.min \in Int /\ acc.max \in Int /\ HasBest("min", acc.min) /\ HasBest("max", acc.max)
    BY <1>1, AccNumbers DEF ExtremaMerged
  <1>9. ASSUME kind = "price", input # <<>> PROVE A!MinAgrees
    <2>1. acc.min \in A!Prices /\ \A p \in A!Prices : Beats("min", acc.min, p)
      BY <1>4, <1>7, <1>8, <1>9 DEF Exact
    <2> QED BY <1>1, <2>1 DEF A!MinAgrees, Beats
  <1>10. ASSUME kind = "price", input # <<>>, arch = "NEON" PROVE A!MaxAgrees
    <2>1. acc.max \in A!Prices /\ \A p \in A!Prices : Beats("max", acc.max, p)
      BY <1>4, <1>7, <1>8, <1>10 DEF Exact
    <2> QED BY <1>1, <2>1 DEF A!MaxAgrees, Beats
  <1> QED BY <1>5, <1>6, <1>9, <1>10 DEF AnswerAgrees

THEOREM SimdAnswersAreSequential == Spec => AnswersAgree
  <1>1. IInv /\ [Next]_vars => [busy /\ ~busy' => AnswerAgrees]_vars
    <2> SUFFICES ASSUME IInv, Next, busy, ~busy' PROVE AnswerAgrees
      OBVIOUS
    <2>1. ~(\E n \in 1 .. MaxThreads, total \in Totals : CallTable(n, total))
      BY DEF CallTable, Call
    <2>2. ~(\E n \in 1 .. MaxThreads, s \in Selections : CallSelection(n, s))
      BY DEF CallSelection, Call
    <2>3. ~(\E t \in 0 .. (MaxThreads - 1) : Step(t))
      BY DEF Step, VectorTurn, ScalarTurn, LeaveLoop, ReduceVectors, Merge, queryVars
    <2>4. Return
      BY <2>1, <2>2, <2>3 DEF Next
    <2> QED BY <2>4, ReturnAgrees
  <1> QED BY SimdInvariance, <1>1, PTL DEF Spec, AnswersAgree
===============================================================================
