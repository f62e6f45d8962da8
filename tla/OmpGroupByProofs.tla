--------------------------- MODULE OmpGroupByProofs ---------------------------
(***************************************************************************)
(* Safety of the parallel GROUP BY, and that it implements the sequential  *)
(* one step by step, for every team, table, selection, size of the morsels *)
(* and width of the types that satisfy the assumptions of OmpGroupBy.      *)
(***************************************************************************)
EXTENDS OmpGroupBy, CommonLemmas, FunctionTheorems

-----------------------------------------------------------------------------
(***************************************************************************)
(* A group that agrees with itself.  New metrics do as well, with the      *)
(* infinities for extrema, and updating and merging keep it so.            *)
(***************************************************************************)
PricesIn(m) == {table.price[r] : r \in {q \in Rows : m.sum[q] > 0}}

NatMetrics == [count : Nat, sum : [Rows -> Nat],
               min : -Infinity .. Infinity, max : -Infinity .. Infinity]

Sound(m) ==
  /\ m \in NatMetrics
  /\ m.count = SumFunctionOnSet(m.sum, Rows)
  /\ IsLeast(m.min, PricesIn(m) \union {Infinity})
  /\ IsGreatest(m.max, PricesIn(m) \union {-Infinity})

SoundMap(map) ==
  /\ DOMAIN map \subseteq Categories
  /\ \A c \in DOMAIN map : Sound(map[c]) /\ map[c].count > 0

LEMMA RowsFinite == IsFiniteSet(Rows) /\ Infinity \in Nat
  <1>1. 0 \in Int /\ MaxRows - 1 \in Int
    BY GroupByAssumption
  <1> QED BY <1>1, GroupByAssumption, FS_Interval DEF Rows

LEMMA TableColumns ==
  ASSUME table \in Tables, NEW r \in Rows
  PROVE  /\ table.category[r] \in Categories
         /\ table.price[r] \in Int
         /\ -Infinity < table.price[r] /\ table.price[r] < Infinity
  <1>1. table.category \in [Rows -> Categories]
    BY GroupByAssumption DEF Rows
  <1>2. table.price \in [Rows -> (-Infinity + 1) .. (Infinity - 1)]
    BY GroupByAssumption DEF Rows
  <1>3. table.price[r] \in (-Infinity + 1) .. (Infinity - 1)
    BY <1>2
  <1> QED BY <1>1, <1>3, RowsFinite

LEMMA PricesTyped ==
  ASSUME table \in Tables, NEW m
  PROVE  \A p \in PricesIn(m) : p \in Int /\ -Infinity < p /\ p < Infinity
  BY TableColumns DEF PricesIn

LEMMA LeastOfBoth ==
  ASSUME NEW S, NEW T, S \subseteq Int, T \subseteq Int, NEW a, NEW b,
         IsLeast(a, S), IsLeast(b, T)
  PROVE  IsLeast(Lesser(a, b), S \union T)
  <1>1. /\ a \in Int /\ b \in Int
        /\ \A x \in S : x \in Int /\ a <= x
        /\ \A x \in T : x \in Int /\ b <= x
    BY DEF IsLeast
  <1>2. CASE a < b
    <2>1. Lesser(a, b) = a
      BY <1>2 DEF Lesser
    <2> QED BY <1>1, <1>2, <2>1 DEF IsLeast
  <1>3. CASE ~(a < b)
    <2>1. Lesser(a, b) = b
      BY <1>3 DEF Lesser
    <2> QED BY <1>1, <1>3, <2>1 DEF IsLeast
  <1> QED BY <1>2, <1>3

LEMMA GreatestOfBoth ==
  ASSUME NEW S, NEW T, S \subseteq Int, T \subseteq Int, NEW a, NEW b,
         IsGreatest(a, S), IsGreatest(b, T)
  PROVE  IsGreatest(Greater(a, b), S \union T)
  <1>1. /\ a \in Int /\ b \in Int
        /\ \A x \in S : x \in Int /\ a >= x
        /\ \A x \in T : x \in Int /\ b >= x
    BY DEF IsGreatest
  <1>2. CASE a > b
    <2>1. Greater(a, b) = a
      BY <1>2 DEF Greater
    <2> QED BY <1>1, <1>2, <2>1 DEF IsGreatest
  <1>3. CASE ~(a > b)
    <2>1. Greater(a, b) = b
      BY <1>3 DEF Greater
    <2> QED BY <1>1, <1>3, <2>1 DEF IsGreatest
  <1> QED BY <1>2, <1>3

LEMMA MinOfLeast ==
  ASSUME NEW S, S \subseteq Int, NEW m, IsLeast(m, S)
  PROVE  Min(S) = m
  <1>1. \A x \in S : x \in Int
    OBVIOUS
  <1>2. m \in S /\ \A y \in S : m =< y
    BY DEF IsLeast
  <1>3. \A x \in S : (\A y \in S : x =< y) => x = m
    BY <1>1, <1>2
  <1> QED BY <1>2, <1>3 DEF Min

LEMMA MaxOfGreatest ==
  ASSUME NEW S, S \subseteq Int, NEW m, IsGreatest(m, S)
  PROVE  Max(S) = m
  <1>1. \A x \in S : x \in Int
    OBVIOUS
  <1>2. m \in S /\ \A y \in S : m >= y
    BY DEF IsGreatest
  <1>3. \A x \in S : (\A y \in S : x >= y) => x = m
    BY <1>1, <1>2
  <1> QED BY <1>2, <1>3 DEF Max

LEMMA NewSound ==
  ASSUME table \in Tables
  PROVE  Sound(NewMetrics)
  <1> DEFINE none == [r \in Rows |-> 0]
  <1>1. /\ NewMetrics.count = 0 /\ NewMetrics.sum = none
        /\ NewMetrics.min = Infinity /\ NewMetrics.max = -Infinity
    BY DEF NewMetrics
  <1>2. NewMetrics \in NatMetrics
    <2>1. 0 \in Nat /\ none \in [Rows -> Nat] /\ Infinity \in -Infinity .. Infinity
          /\ -Infinity \in -Infinity .. Infinity
      BY RowsFinite
    <2> QED BY <2>1 DEF NewMetrics, NatMetrics
  <1>3. \A r \in Rows : none[r] = 0
    OBVIOUS
  <1> HIDE DEF none
  <1>4. SumFunctionOnSet(none, Rows) = 0
    BY <1>3, RowsFinite, SumZero
  <1>5. PricesIn(NewMetrics) = {}
    BY <1>1, <1>3 DEF PricesIn
  <1>6. /\ IsLeast(NewMetrics.min, PricesIn(NewMetrics) \union {Infinity})
        /\ IsGreatest(NewMetrics.max, PricesIn(NewMetrics) \union {-Infinity})
    BY <1>1, <1>5, RowsFinite DEF IsLeast, IsGreatest
  <1> QED BY <1>1, <1>2, <1>4, <1>6 DEF Sound

(* A record of metrics, built from its parts. *)
LEMMA SoundParts ==
  ASSUME table \in Tables, NEW c, NEW s \in [Rows -> Nat], NEW a, NEW b, NEW S,
         c = SumFunctionOnSet(s, Rows),
         S = {table.price[r] : r \in {q \in Rows : s[q] > 0}},
         IsLeast(a, S \union {Infinity}), IsGreatest(b, S \union {-Infinity})
  PROVE  Sound([count |-> c, sum |-> s, min |-> a, max |-> b])
  <1> DEFINE m == [count |-> c, sum |-> s, min |-> a, max |-> b]
  <1>1. m.count = c /\ m.sum = s /\ m.min = a /\ m.max = b
    OBVIOUS
  <1>2. c \in Nat
    BY RowsFinite, SumNat
  <1>3. PricesIn(m) = S
    BY <1>1 DEF PricesIn
  <1>4. \A p \in S : p \in Int /\ -Infinity < p /\ p < Infinity
    BY <1>3, PricesTyped
  <1>5. a \in -Infinity .. Infinity /\ b \in -Infinity .. Infinity
    <2>1. a \in S \union {Infinity} /\ b \in S \union {-Infinity}
      BY DEF IsLeast, IsGreatest
    <2>2. ASSUME NEW p \in S PROVE p \in -Infinity .. Infinity
      <3>1. p \in Int /\ -Infinity < p /\ p < Infinity
        BY ONLY <1>4, <2>2, Zenon
      <3> QED BY ONLY <3>1, RowsFinite
    <2>3. Infinity \in -Infinity .. Infinity /\ -Infinity \in -Infinity .. Infinity
      BY RowsFinite
    <2> QED BY ONLY <2>1, <2>2, <2>3, Zenon
  <1>6. m \in NatMetrics
    BY <1>2, <1>5 DEF NatMetrics
  <1> HIDE DEF m
  <1>7. Sound(m)
    BY <1>1, <1>3, <1>6 DEF Sound
  <1> QED BY <1>7 DEF m

LEMMA UpdatedSound ==
  ASSUME table \in Tables, NEW m, Sound(m), NEW r \in Rows
  PROVE  /\ Sound(Updated(m, r)) /\ Updated(m, r).count > 0
         /\ \A q \in Rows : Updated(m, r).sum[q] = m.sum[q] + IF q = r THEN 1 ELSE 0
  <1> DEFINE s == [m.sum EXCEPT ![r] = @ + 1]
             f == m.sum
             p == table.price[r]
             S == PricesIn(m)
             P == {table.price[x] : x \in {q \in Rows : s[q] > 0}}
  <1>1. m.count \in Nat /\ f \in [Rows -> Nat]
    BY DEF Sound, NatMetrics
  <1>2. /\ s \in [Rows -> Nat] /\ s[r] = f[r] + 1 /\ \A q \in Rows : q # r => s[q] = f[q]
        /\ \A q \in Rows : s[q] = f[q] + IF q = r THEN 1 ELSE 0
    BY <1>1
  <1>3. P = S \union {p}
    <2>1. {q \in Rows : s[q] > 0} = {q \in Rows : f[q] > 0} \union {r}
      BY <1>1, <1>2
    <2> HIDE DEF s, f
    <2> QED BY <2>1 DEF PricesIn, f
  <1>4. /\ p \in Int /\ \A x \in S : x \in Int /\ Infinity \in Int /\ -Infinity \in Int
        /\ p < Infinity /\ -Infinity < p
    BY TableColumns, PricesTyped, RowsFinite
  <1>5. Updated(m, r) = [count |-> m.count + 1, sum |-> s,
                         min |-> Lesser(m.min, p), max |-> Greater(m.max, p)]
    BY DEF Updated
  <1>6. m.count = SumFunctionOnSet(f, Rows)
    BY DEF Sound
  <1>7. /\ IsLeast(m.min, S \union {Infinity}) /\ IsGreatest(m.max, S \union {-Infinity})
    BY DEF Sound
  <1> HIDE DEF s, f, p, S, P
  <1>8. m.count + 1 = SumFunctionOnSet(s, Rows)
    <2>1. \A x \in Rows : f[x] \in Int /\ s[x] \in Int
      BY <1>1, <1>2
    <2>2. \A x \in Rows : x # r => f[x] = s[x]
      BY <1>2
    <2>3. SumFunctionOnSet(s, Rows) = SumFunctionOnSet(f, Rows) + s[r] - f[r]
      BY ONLY <2>1, <2>2, r \in Rows, RowsFinite, SumChange
    <2> QED BY <1>1, <1>2, <1>6, <2>3
  <1>9. /\ IsLeast(Lesser(m.min, p), P \union {Infinity})
        /\ IsGreatest(Greater(m.max, p), P \union {-Infinity})
    <2>1. IsLeast(p, {p}) /\ IsGreatest(p, {p})
      BY <1>4 DEF IsLeast, IsGreatest
    <2>2. S \union {Infinity} \subseteq Int /\ S \union {-Infinity} \subseteq Int /\ {p} \subseteq Int
      BY <1>4, RowsFinite
    <2>3. /\ IsLeast(Lesser(m.min, p), (S \union {Infinity}) \union {p})
          /\ IsGreatest(Greater(m.max, p), (S \union {-Infinity}) \union {p})
      BY ONLY <1>7, <2>1, <2>2, LeastOfBoth, GreatestOfBoth
    <2>4. /\ (S \union {Infinity}) \union {p} = P \union {Infinity}
          /\ (S \union {-Infinity}) \union {p} = P \union {-Infinity}
      BY <1>3
    <2> QED BY <2>3, <2>4
  <1>10. Sound([count |-> m.count + 1, sum |-> s,
                min |-> Lesser(m.min, p), max |-> Greater(m.max, p)])
    BY <1>2, <1>8, <1>9, SoundParts DEF P
  <1> QED BY <1>1, <1>2, <1>5, <1>10 DEF f

LEMMA MergedSound ==
  ASSUME table \in Tables, NEW m, Sound(m), NEW n, Sound(n)
  PROVE  /\ Sound(Merged(m, n)) /\ Merged(m, n).count = m.count + n.count
         /\ \A q \in Rows : Merged(m, n).sum[q] = m.sum[q] + n.sum[q]
  <1> DEFINE s == [q \in Rows |-> m.sum[q] + n.sum[q]]
             f == m.sum
             g == n.sum
             S == PricesIn(m)
             T == PricesIn(n)
             P == {table.price[x] : x \in {q \in Rows : s[q] > 0}}
  <1>1. m.count \in Nat /\ f \in [Rows -> Nat] /\ n.count \in Nat /\ g \in [Rows -> Nat]
    BY DEF Sound, NatMetrics
  <1>2. s \in [Rows -> Nat] /\ \A q \in Rows : s[q] = f[q] + g[q]
    BY <1>1
  <1>3. P = S \union T
    <2>1. {q \in Rows : s[q] > 0} = {q \in Rows : f[q] > 0} \union {q \in Rows : g[q] > 0}
      BY <1>1, <1>2
    <2> HIDE DEF s, f, g
    <2> QED BY <2>1 DEF PricesIn, f, g
  <1>4. /\ \A x \in S : x \in Int
        /\ \A x \in T : x \in Int
        /\ Infinity \in Int /\ -Infinity \in Int
    BY PricesTyped, RowsFinite
  <1>5. Merged(m, n) = [count |-> m.count + n.count, sum |-> s,
                        min |-> Lesser(m.min, n.min), max |-> Greater(m.max, n.max)]
    BY DEF Merged
  <1>6. m.count = SumFunctionOnSet(f, Rows) /\ n.count = SumFunctionOnSet(g, Rows)
    BY DEF Sound
  <1>7. /\ IsLeast(m.min, S \union {Infinity}) /\ IsGreatest(m.max, S \union {-Infinity})
        /\ IsLeast(n.min, T \union {Infinity}) /\ IsGreatest(n.max, T \union {-Infinity})
    BY DEF Sound
  <1>8. m.count + n.count = SumFunctionOnSet(s, Rows)
    <2>1. \A x \in Rows : f[x] \in Int /\ g[x] \in Int
      BY <1>1
    <2>2. SumFunctionOnSet([x \in Rows |-> f[x] + g[x]], Rows) =
            SumFunctionOnSet(f, Rows) + SumFunctionOnSet(g, Rows)
      BY ONLY <2>1, RowsFinite, SumAdd
    <2> QED BY <1>6, <2>2
  <1> HIDE DEF s, f, g, S, T, P
  <1>9. /\ IsLeast(Lesser(m.min, n.min), P \union {Infinity})
        /\ IsGreatest(Greater(m.max, n.max), P \union {-Infinity})
    <2>1. /\ S \union {Infinity} \subseteq Int /\ S \union {-Infinity} \subseteq Int
          /\ T \union {Infinity} \subseteq Int /\ T \union {-Infinity} \subseteq Int
      BY <1>4
    <2>2. /\ IsLeast(Lesser(m.min, n.min), (S \union {Infinity}) \union (T \union {Infinity}))
          /\ IsGreatest(Greater(m.max, n.max), (S \union {-Infinity}) \union (T \union {-Infinity}))
      BY ONLY <1>7, <2>1, LeastOfBoth, GreatestOfBoth
    <2>3. /\ (S \union {Infinity}) \union (T \union {Infinity}) = P \union {Infinity}
          /\ (S \union {-Infinity}) \union (T \union {-Infinity}) = P \union {-Infinity}
      BY <1>3
    <2> QED BY <2>2, <2>3
  <1>10. Sound([count |-> m.count + n.count, sum |-> s,
                min |-> Lesser(m.min, n.min), max |-> Greater(m.max, n.max)])
    BY <1>2, <1>8, <1>9, SoundParts DEF P
  <1> QED BY <1>2, <1>5, <1>10 DEF f, g

(* The extrema of a group that has counted a row. *)
LEMMA SoundExtrema ==
  ASSUME table \in Tables, NEW m, Sound(m), m.count > 0
  PROVE  /\ IsLeast(m.min, PricesIn(m)) /\ IsGreatest(m.max, PricesIn(m))
         /\ m.min = Min(PricesIn(m)) /\ m.max = Max(PricesIn(m))
  <1>1. m.sum \in [Rows -> Nat] /\ m.count = SumFunctionOnSet(m.sum, Rows)
    BY DEF Sound, NatMetrics
  <1>2. PICK r \in Rows : m.sum[r] # 0
    <2> DEFINE f == m.sum
    <2>1. ~(\A x \in Rows : f[x] = 0)
      <3> HIDE DEF f
      <3> SUFFICES ASSUME \A x \in Rows : f[x] = 0 PROVE FALSE
        OBVIOUS
      <3>1. SumFunctionOnSet(f, Rows) = 0
        BY RowsFinite, SumZero
      <3> QED BY <1>1, <3>1 DEF f
    <2> QED BY <2>1
  <1>3. table.price[r] \in PricesIn(m)
    BY <1>1, <1>2 DEF PricesIn
  <1>4. \A p \in PricesIn(m) : p \in Int /\ -Infinity < p /\ p < Infinity
    BY PricesTyped
  <1>5. IsLeast(m.min, PricesIn(m)) /\ IsGreatest(m.max, PricesIn(m))
    <2>1. IsLeast(m.min, PricesIn(m) \union {Infinity})
          /\ IsGreatest(m.max, PricesIn(m) \union {-Infinity})
      BY DEF Sound
    <2>2. m.min # Infinity /\ m.max # -Infinity
      BY <1>3, <1>4, <2>1, RowsFinite DEF IsLeast, IsGreatest
    <2> QED BY <2>1, <2>2 DEF IsLeast, IsGreatest
  <1> QED BY <1>4, <1>5, MinOfLeast, MaxOfGreatest

-----------------------------------------------------------------------------
(* The maps. *)
LEMMA NoMapSound == SoundMap(NoMap) /\ \A r \in Rows : \A c : CountedIn(NoMap, r, c) = 0
  <1>1. DOMAIN NoMap = {}
    BY DEF NoMap
  <1>2. \A r \in Rows : \A c : CountedIn(NoMap, r, c) = 0
    BY <1>1 DEF CountedIn, Lookup, NewMetrics
  <1> QED BY <1>1, <1>2 DEF SoundMap

LEMMA LookupSound ==
  ASSUME table \in Tables, NEW map, SoundMap(map), NEW c
  PROVE  Sound(Lookup(map, c)) /\ \A r \in Rows : CountedIn(map, r, c) \in Nat
  <1>1. Sound(Lookup(map, c))
    BY NewSound DEF Lookup, SoundMap
  <1> QED BY <1>1 DEF CountedIn, Sound, NatMetrics

(* A map that has counted a row in a category has a group for it. *)
LEMMA CountedHasGroup ==
  ASSUME NEW map, NEW c, NEW r \in Rows, CountedIn(map, r, c) # 0
  PROVE  c \in DOMAIN map
  BY DEF CountedIn, Lookup, NewMetrics

LEMMA GroupRowSound ==
  ASSUME table \in Tables, NEW map, SoundMap(map), NEW r \in Rows
  PROVE  /\ SoundMap(GroupRow(map, r))
         /\ \A q \in Rows : \A c :
              CountedIn(GroupRow(map, r), q, c) =
                CountedIn(map, q, c) + IF c = table.category[r] /\ q = r THEN 1 ELSE 0
  <1> DEFINE d == table.category[r]
             g == GroupRow(map, r)
             u == Updated(Lookup(map, d), r)
  <1>1. /\ DOMAIN g = DOMAIN map \union {d} /\ g[d] = u
        /\ \A c \in DOMAIN map : c # d => g[c] = map[c]
    BY DEF GroupRow
  <1>2. d \in Categories
    BY TableColumns
  <1>3. /\ Sound(u) /\ u.count > 0
        /\ \A q \in Rows : u.sum[q] = Lookup(map, d).sum[q] + IF q = r THEN 1 ELSE 0
    BY LookupSound, UpdatedSound
  <1> HIDE DEF d, g, u
  <1>4. SoundMap(g)
    BY <1>1, <1>2, <1>3 DEF SoundMap
  <1>5. ASSUME NEW q \in Rows, NEW c
        PROVE  CountedIn(g, q, c) = CountedIn(map, q, c) + IF c = d /\ q = r THEN 1 ELSE 0
    <2>1. CASE c = d
      BY <1>1, <1>3, <2>1 DEF CountedIn, Lookup
    <2>2. CASE c # d
      <3>1. Lookup(g, c) = Lookup(map, c)
        BY <1>1, <2>2 DEF Lookup
      <3>2. CountedIn(map, q, c) \in Nat
        BY LookupSound
      <3> QED BY <2>2, <3>1, <3>2 DEF CountedIn
    <2> QED BY <2>1, <2>2
  <1> QED BY <1>4, <1>5 DEF d, g

LEMMA MergeSound ==
  ASSUME table \in Tables, NEW map, SoundMap(map), NEW slot, SoundMap(slot)
  PROVE  /\ SoundMap(MergeMaps(map, slot))
         /\ \A q \in Rows : \A c :
              CountedIn(MergeMaps(map, slot), q, c) =
                CountedIn(map, q, c) + CountedIn(slot, q, c)
  <1> DEFINE g == MergeMaps(map, slot)
  <1>1. /\ DOMAIN g = DOMAIN map \union DOMAIN slot
        /\ \A c \in DOMAIN slot : g[c] = Merged(Lookup(map, c), slot[c])
        /\ \A c \in DOMAIN map : c \notin DOMAIN slot => g[c] = map[c]
    BY DEF MergeMaps
  <1>2. ASSUME NEW c \in DOMAIN slot
        PROVE  /\ Sound(g[c]) /\ g[c].count > 0
               /\ \A q \in Rows : g[c].sum[q] = Lookup(map, c).sum[q] + slot[c].sum[q]
    <2>1. Sound(slot[c]) /\ slot[c].count > 0 /\ Sound(Lookup(map, c))
      BY LookupSound DEF SoundMap
    <2>2. Lookup(map, c).count \in Nat /\ slot[c].count \in Nat
      BY <2>1 DEF Sound, NatMetrics
    <2>3. /\ Sound(g[c]) /\ g[c].count = Lookup(map, c).count + slot[c].count
          /\ \A q \in Rows : g[c].sum[q] = Lookup(map, c).sum[q] + slot[c].sum[q]
      <3>1. g[c] = Merged(Lookup(map, c), slot[c])
        BY <1>1
      <3> HIDE DEF g
      <3> QED BY <2>1, <3>1, MergedSound
    <2> QED BY <2>1, <2>2, <2>3
  <1> HIDE DEF g
  <1>3. SoundMap(g)
    BY <1>1, <1>2 DEF SoundMap
  <1>4. ASSUME NEW q \in Rows, NEW c
        PROVE  CountedIn(g, q, c) = CountedIn(map, q, c) + CountedIn(slot, q, c)
    <2>1. CASE c \in DOMAIN slot
      BY <1>1, <1>2, <2>1 DEF CountedIn, Lookup
    <2>2. CASE c \notin DOMAIN slot
      <3>1. Lookup(g, c) = Lookup(map, c)
        BY <1>1, <2>2 DEF Lookup
      <3>2. CountedIn(slot, q, c) = 0
        BY <2>2 DEF CountedIn, Lookup, NewMetrics
      <3>3. CountedIn(map, q, c) \in Nat
        BY LookupSound
      <3> QED BY <3>1, <3>2, <3>3 DEF CountedIn
    <2> QED BY <2>1, <2>2
  <1> QED BY <1>3, <1>4 DEF g

-----------------------------------------------------------------------------
(* The loop over the rows of a morsel. *)

(* The function that GroupRows evaluates at last. *)
IsLoop(g, map, first, last) ==
  g = [k \in (first - 1) .. last |->
         IF k = first - 1 THEN map ELSE GroupRow(g[k - 1], input[k])]

LEMMA LoopExists ==
  ASSUME NEW map, NEW first \in Int, NEW last \in Int
  PROVE  \A n \in (first - 1) .. last : \E g : IsLoop(g, map, first, n)
  <1> DEFINE a == first - 1
             good == {n \in a .. last : \E g : IsLoop(g, map, first, n)}
  <1>1. ASSUME a <= last PROVE a \in good
    <2>1. IsLoop([k \in a .. a |-> map], map, first, a)
      BY DEF IsLoop
    <2> QED BY <1>1, <2>1
  <1>2. ASSUME NEW n \in a .. (last - 1), n \in good PROVE n + 1 \in good
    <2>1. PICK g : IsLoop(g, map, first, n)
      BY <1>2
    <2> DEFINE h == [k \in a .. (n + 1) |->
                       IF k = n + 1 THEN GroupRow(g[n], input[k]) ELSE g[k]]
    <2>2. \A k \in a .. n : h[k] = g[k]
      OBVIOUS
    <2>3. h = [k \in a .. (n + 1) |->
                 IF k = a THEN map ELSE GroupRow(h[k - 1], input[k])]
      <3>1. ASSUME NEW k \in a .. (n + 1), k # n + 1
            PROVE  h[k] = IF k = a THEN map ELSE GroupRow(h[k - 1], input[k])
        <4>1. k \in a .. n /\ (k # a => k - 1 \in a .. n)
          BY <3>1
        <4>2. g[k] = IF k = a THEN map ELSE GroupRow(g[k - 1], input[k])
          BY <2>1, <4>1 DEF IsLoop
        <4> HIDE DEF h
        <4> QED BY <2>2, <4>1, <4>2
      <3>2. /\ n + 1 \in a .. (n + 1) /\ n + 1 # a /\ (n + 1) - 1 = n
            /\ h[n + 1] = GroupRow(h[n], input[n + 1])
        BY <2>2
      <3> QED BY <3>1, <3>2
    <2>4. IsLoop(h, map, first, n + 1)
      BY <2>3 DEF IsLoop
    <2>5. n + 1 \in a .. last
      OBVIOUS
    <2> HIDE DEF h
    <2> QED BY <2>4, <2>5
  <1> SUFFICES ASSUME NEW n \in a .. last PROVE n \in good
    OBVIOUS
  <1> HIDE DEF good
  <1>3. a \in Int /\ a <= last
    OBVIOUS
  <1> QED BY <1>1, <1>2, <1>3, UpwardInduction

LEMMA LoopUnique ==
  ASSUME NEW map, NEW first \in Int, NEW m \in Int, NEW n \in Int,
         NEW g, IsLoop(g, map, first, m), NEW h, IsLoop(h, map, first, n),
         first - 1 <= m, m <= n
  PROVE  g[m] = h[m]
  <1> DEFINE a == first - 1
             good == {k \in a .. m : g[k] = h[k]}
  <1>1. a \in good
    BY DEF IsLoop
  <1>2. ASSUME NEW k \in a .. (m - 1), k \in good PROVE k + 1 \in good
    <2>1. k + 1 \in a .. m /\ k + 1 \in a .. n /\ k + 1 # a /\ (k + 1) - 1 = k
      OBVIOUS
    <2>2. g[k + 1] = GroupRow(g[k], input[k + 1])
      BY <2>1 DEF IsLoop
    <2>3. h[k + 1] = GroupRow(h[k], input[k + 1])
      BY <2>1 DEF IsLoop
    <2> QED BY <1>2, <2>1, <2>2, <2>3
  <1> HIDE DEF good
  <1>3. \A k \in a .. m : k \in good
    BY <1>1, <1>2, UpwardInduction
  <1> QED BY <1>3 DEF good

(* The loop, turn by turn. *)
LEMMA GroupStep ==
  ASSUME NEW map, NEW first \in Int, NEW n \in Int, first - 1 <= n
  PROVE  /\ GroupRows(map, first, first - 1) = map
         /\ GroupRows(map, first, n + 1) = GroupRow(GroupRows(map, first, n), input[n + 1])
  <1> DEFINE H(k) == CHOOSE g : IsLoop(g, map, first, k)
             a == first - 1
  <1>1. ASSUME NEW k
        PROVE  GroupRows(map, first, k) = H(k)[k]
    BY DEF GroupRows, IsLoop
  <1>2. ASSUME NEW k \in Int, a <= k
        PROVE  IsLoop(H(k), map, first, k)
    <2>1. k \in a .. k
      BY <1>2
    <2> QED BY <2>1, LoopExists
  <1> HIDE DEF H
  <1>3. H(a)[a] = map
    BY <1>2 DEF IsLoop
  <1>4. /\ n + 1 \in a .. (n + 1) /\ n + 1 # a /\ (n + 1) - 1 = n
        /\ n + 1 \in Int /\ a <= n + 1 /\ n <= n + 1
    OBVIOUS
  <1>5. IsLoop(H(n), map, first, n)
    BY <1>2
  <1>6. IsLoop(H(n + 1), map, first, n + 1)
    BY <1>2, <1>4
  <1>7. H(n + 1)[n + 1] = GroupRow(H(n + 1)[n], input[n + 1])
    BY <1>4, <1>6 DEF IsLoop
  <1>8. H(n)[n] = H(n + 1)[n]
    BY <1>4, <1>5, <1>6, LoopUnique
  <1> QED BY <1>1, <1>3, <1>7, <1>8

LEMMA OneOccurs ==
  ASSUME NEW k, NEW s, NEW r
  PROVE  Occurs({k}, s, r) = IF s[k] = r THEN 1 ELSE 0
  <1>1. CASE s[k] = r
    <2>1. {l \in {k} : s[l] = r} = {k}
      BY <1>1
    <2> QED BY <1>1, <2>1, FS_Singleton DEF Occurs
  <1>2. CASE s[k] # r
    <2>1. {l \in {k} : s[l] = r} = {}
      BY <1>2
    <2> QED BY <1>2, <2>1, FS_EmptySet DEF Occurs
  <1> QED BY <1>1, <1>2

(* From the map before to the map after, a group gains the occurrences of
   the rows of its category at the positions P.                             *)
Gains(after, before, P, r, c) ==
  CountedIn(after, r, c) =
    CountedIn(before, r, c) + IF c = table.category[r] THEN Occurs(P, input, r) ELSE 0

LEMMA GroupRowsCount ==
  ASSUME table \in Tables, NEW map, SoundMap(map), NEW first \in Int, NEW last \in Int,
         first - 1 <= last, \A k \in first .. last : input[k] \in Rows
  PROVE  /\ SoundMap(GroupRows(map, first, last))
         /\ \A r \in Rows : \A c : Gains(GroupRows(map, first, last), map, first .. last, r, c)
  <1> DEFINE H(k) == GroupRows(map, first, k)
             a == first - 1
             good == {k \in a .. last :
                        /\ SoundMap(H(k))
                        /\ \A r \in Rows : \A c : Gains(H(k), map, first .. k, r, c)}
  <1>1. a \in good
    <2>1. H(a) = map /\ first .. a = {} /\ a \in a .. last
      BY GroupStep
    <2>2. ASSUME NEW r \in Rows, NEW c PROVE Gains(map, map, first .. a, r, c)
      <3>1. Occurs(first .. a, input, r) = 0
        BY <2>1, FS_EmptySet DEF Occurs
      <3>2. CountedIn(map, r, c) \in Nat
        BY LookupSound
      <3> QED BY <3>1, <3>2 DEF Gains
    <2> HIDE DEF H
    <2> QED BY <2>1, <2>2
  <1>2. ASSUME NEW k \in a .. (last - 1), k \in good PROVE k + 1 \in good
    <2>1. /\ k + 1 \in a .. last /\ k + 1 \in first .. last /\ k \in Int /\ a <= k
          /\ first .. (k + 1) = (first .. k) \union {k + 1}
          /\ (first .. k) \cap {k + 1} = {}
      OBVIOUS
    <2>2. H(k + 1) = GroupRow(H(k), input[k + 1])
      BY <2>1, GroupStep
    <2>3. input[k + 1] \in Rows
      BY <2>1
    <2>4. SoundMap(H(k)) /\ \A r \in Rows : \A c : Gains(H(k), map, first .. k, r, c)
      BY <1>2
    <2> HIDE DEF H, good
    <2>5. SoundMap(H(k + 1))
      BY <2>2, <2>3, <2>4, GroupRowSound
    <2>6. ASSUME NEW r \in Rows, NEW c PROVE Gains(H(k + 1), map, first .. (k + 1), r, c)
      <3> DEFINE x == input[k + 1]
                 o == CountedIn(map, r, c)
                 p == CountedIn(H(k), r, c)
                 q == CountedIn(H(k + 1), r, c)
                 e == Occurs(first .. k, input, r)
                 d == Occurs({k + 1}, input, r)
                 f == Occurs(first .. (k + 1), input, r)
      <3>1. IsFiniteSet(first .. k) /\ IsFiniteSet({k + 1})
        <4>1. IsFiniteSet(first .. k)
          BY ONLY <2>1, first \in Int, FS_Interval, Zenon
        <4>2. IsFiniteSet({k + 1})
          BY ONLY FS_Singleton, Zenon
        <4> QED BY <4>1, <4>2
      <3>2. f = e + d
        BY <2>1, <3>1, OccurrencesAdd
      <3>3. d = IF x = r THEN 1 ELSE 0
        BY OneOccurs
      <3>4. p = o + IF c = table.category[r] THEN e ELSE 0
        BY <2>4 DEF Gains
      <3>5. q = p + IF c = table.category[x] /\ r = x THEN 1 ELSE 0
        BY <2>2, <2>3, <2>4, GroupRowSound
      <3>6. e \in Nat /\ o \in Nat
        BY <3>1, FS_Subset, FS_CardinalityType, LookupSound DEF Occurs
      <3> HIDE DEF x, o, p, q, e, d, f
      <3>7. q = o + IF c = table.category[r] THEN f ELSE 0
        BY <3>2, <3>3, <3>4, <3>5, <3>6
      <3> QED BY <3>7 DEF Gains, o, q, f
    <2> QED BY <2>1, <2>5, <2>6 DEF good
  <1> HIDE DEF good
  <1>3. \A k \in a .. last : k \in good
    BY <1>1, <1>2, UpwardInduction
  <1>4. last \in good
    BY <1>3
  <1> QED BY <1>4 DEF good

-----------------------------------------------------------------------------
(***************************************************************************)
(* The control of the team.  Once somebody has entered the single, either  *)
(* that thread is still at the resize or the slots are those of the team;  *)
(* and beyond the barrier nobody is before or in the single.               *)
(***************************************************************************)
Labels == {"single", "resize", "barrier", "work", "forEnd", "publish", "done"}

Before == {"single", "resize"}

TeamOK ==
  /\ numThreads \in Nat \ {0}
  /\ pc \in [Team -> Labels]

OneResizes == \A t, u \in Team : pc[t] = "resize" /\ pc[u] = "resize" => t = u

SingleTaken ==
  /\ \A t \in Team : pc[t] # "single" => singleTaken
  /\ singleTaken => DOMAIN slots = Team \/ \E t \in Team : pc[t] = "resize"

BeyondBarrier ==
  \A t, u \in Team : pc[t] \in {"work", "forEnd", "publish", "done"} => pc[u] \notin Before

TeamInv ==
  /\ TeamOK
  /\ ~busy => Joined
  /\ busy => OneResizes /\ SingleTaken /\ BeyondBarrier

-----------------------------------------------------------------------------
LEMMA ForkedTeamInv ==
  ASSUME NEW n \in Nat \ {0}, Begin(n)
  PROVE  TeamInv'
  <1>1. /\ numThreads' = n /\ Team' = 0 .. (n - 1) /\ busy' = TRUE
        /\ pc' = [t \in 0 .. (n - 1) |-> "single"] /\ singleTaken' = FALSE
    BY DEF Begin, Fork, Team
  <1> QED BY <1>1 DEF TeamInv, TeamOK, Labels, OneResizes, SingleTaken, BeyondBarrier, Before

(* The steps of the threads: only one of them changes its place at a time. *)
LEMMA StepTeamInv ==
  ASSUME TeamInv, NEW t, TeamStep(t)
  PROVE  TeamInv'
  <1>1. t \in Team /\ pc[t] # "done" /\ numThreads' = numThreads /\ busy' = busy
    BY DEF TeamStep, WinSingle, SkipSingle, Resize, PassBarrier, PassForEnd, Publish,
           At, queryVars
  <1>2. busy /\ Team' = Team
    BY <1>1 DEF TeamInv, Joined, Team
  <1> USE DEF At, GoTo, TeamInv, TeamOK, Labels, OneResizes, SingleTaken, BeyondBarrier, Before
  <1>3. CASE WinSingle(t)
    BY <1>1, <1>2, <1>3 DEF WinSingle
  <1>4. CASE SkipSingle(t)
    BY <1>1, <1>2, <1>4 DEF SkipSingle
  <1>5. CASE Resize(t, NoMap)
    BY <1>1, <1>2, <1>5 DEF Resize
  <1>6. CASE PassBarrier(t)
    BY <1>1, <1>2, <1>6 DEF PassBarrier
  <1>7. CASE PassForEnd(t)
    BY <1>1, <1>2, <1>7 DEF PassForEnd
  <1>8. CASE Publish(t, NoMap)
    BY <1>1, <1>2, <1>8 DEF Publish
  <1> QED BY <1>3, <1>4, <1>5, <1>6, <1>7, <1>8 DEF TeamStep

LEMMA WorkTeamInv ==
  ASSUME TeamInv, NEW t, Work(t) \/ LeaveLoop(t)
  PROVE  TeamInv'
  <1>1. /\ t \in Team /\ pc[t] = "work" /\ busy' = busy
        /\ UNCHANGED <<numThreads, singleTaken, slots>>
        /\ \/ pc' = pc
           \/ pc' = [pc EXCEPT ![t] = "publish"]
           \/ pc' = [pc EXCEPT ![t] = "forEnd"]
    BY DEF Work, LeaveLoop, At, GoTo, queryVars
  <1>2. busy /\ Team' = Team
    BY <1>1 DEF TeamInv, Joined, Team
  <1> QED BY <1>1, <1>2 DEF TeamInv, TeamOK, Labels, OneResizes, SingleTaken, BeyondBarrier, Before

LEMMA CallerTeamInv ==
  ASSUME TeamInv, MergeSlot \/ Return \/ UNCHANGED vars
  PROVE  TeamInv'
  <1> USE DEF TeamInv, TeamOK, OneResizes, SingleTaken, BeyondBarrier, Joined, Team
  <1>1. CASE MergeSlot
    BY <1>1 DEF MergeSlot, teamVars
  <1>2. CASE Return
    BY <1>2 DEF Return, Release
  <1>3. CASE UNCHANGED vars
    BY <1>3 DEF vars, teamVars, queryVars
  <1> QED BY <1>1, <1>2, <1>3

-----------------------------------------------------------------------------
(***************************************************************************)
(* The inductive invariant of the groups.  RowsGroupedOnce needs that the  *)
(* morsels divide the input, in whatever order they come, and that the     *)
(* cursor, which goes on counting the threads that found nothing left,     *)
(* does not wrap into them again; that a slot is empty until its thread is *)
(* done and a local map after; and that the merge begins when all are      *)
(* done.  GroupsConsistent needs that every group of every map agrees with *)
(* itself (MapsSound).  That no count exceeds the rows of a table follows  *)
(* from both, but for the slots that have been merged, which stay as they  *)
(* were (MapsOK).                                                          *)
(***************************************************************************)
Gone == {t \in Team : pc[t] \in {"forEnd", "publish", "done"}}

ControlOK ==
  /\ totalRows \in Nat /\ morselSize \in Nat \ {0}
  /\ morsels \in Seq([id : Nat, start : Nat, end : Nat])
  /\ cursor \in 0 .. SizeMod - 1
  /\ numThreads \in 1 .. MaxThreads
  /\ pc \in [Team -> Labels]
  /\ singleTaken \in BOOLEAN /\ busy \in BOOLEAN /\ whole \in BOOLEAN
  /\ DOMAIN local = Team /\ DOMAIN slots \in {{}, Team}
  /\ input \in Seq(Rows) /\ table \in Tables
  /\ nextSlot \in 0 .. numThreads

MapsOK ==
  /\ \A t \in Team : IsMap(local[t])
  /\ \A t \in DOMAIN slots : IsMap(slots[t])
  /\ IsMap(finalMap)

MapsSound ==
  /\ \A t \in Team : SoundMap(local[t])
  /\ \A t \in DOMAIN slots : SoundMap(slots[t])
  /\ SoundMap(finalMap)

WorkShared ==
  /\ totalRows = Len(input) /\ totalRows <= MaxRows
  /\ Divided(totalRows, morsels)
  /\ cursor <= Len(morsels) + Cardinality(Gone)
  /\ \A t \in Gone : ~IsMorsel(cursor)

SlotsFilled ==
  /\ \A t \in DOMAIN slots : pc[t] # "done" => slots[t] = NoMap
  /\ \A t \in Team : pc[t] = "done" => local[t] = NoMap
  /\ ~Joined => nextSlot = 0

GroupInv == ControlOK /\ MapsOK /\ MapsSound /\ WorkShared /\ SlotsFilled /\ RowsGroupedOnce

IInv == TeamInv /\ GroupInv

LEMMA TypeParts == TypeOK <=> ControlOK /\ MapsOK
  BY DEF TypeOK, ControlOK, MapsOK, Labels

-----------------------------------------------------------------------------
(* partition() tiles the table. *)
LEMMA TableTiled ==
  ASSUME NEW n \in 0 .. MaxRows
  PROVE  Tiled(n, EffectiveSize(DefaultMorselSize),
               IF n = 0 THEN <<>> ELSE Cut(n, EffectiveSize(DefaultMorselSize)))
  <1>1. /\ EffectiveSize(DefaultMorselSize) = DefaultMorselSize
        /\ DefaultMorselSize \in Nat \ {0} /\ n \in Nat /\ n < RowMod
        /\ n + DefaultMorselSize - 1 < SizeMod
    BY MorselAssumption, GroupByAssumption, WidthAssumption DEF EffectiveSize
  <1>2. Tiled(n, DefaultMorselSize, Cut(n, DefaultMorselSize))
    BY ONLY <1>1, WidthAssumption, CutTiled, Zenon
       DEF Cut, MorselCount, StartRow, EndRow, NarrowStart, NarrowEnd
  <1> QED BY <1>1, <1>2, EmptyTiled

(* The dynamic loop divides the selection, in whatever order the chunks come. *)
LEMMA LoopDivided ==
  ASSUME NEW n \in Nat, ShareLoop(n)
  PROVE  /\ Divided(n, morsels') /\ totalRows' = n /\ cursor' = 0
         /\ morselSize' \in Nat \ {0}
  <1> DEFINE c == Chunks(n)
  <1>1. Tiled(n, ChunkSize, c) /\ ChunkSize \in Nat \ {0}
    BY ONLY n \in Nat, ChunkAssumption, ChunksTiled, Zenon DEF Chunks
  <1> HIDE DEF c
  <1>2. Divided(n, c)
    BY ONLY n \in Nat, <1>1, TiledDivided
  <1>3. DOMAIN c = 1 .. Len(c)
    BY <1>2, DividedTyped
  <1>4. PICK order \in Bijection(1 .. Len(c), 1 .. Len(c)) :
          morsels' = [k \in 1 .. Len(c) |-> c[order[k]]]
    BY <1>3 DEF ShareLoop, c
  <1>5. Divided(n, morsels')
    BY <1>2, <1>4, ReorderedDivided
  <1> QED BY <1>1, <1>5 DEF ShareLoop

LEMMA SeenIsBehind == PositionsSeen = Behind(morsels, cursor)
  BY DEF PositionsSeen, IsMorsel, MorselAt, PositionsOf, Behind, Positions

(* What a call works on, as the lemmas about morsels take it. *)
LEMMA InputDivided ==
  ASSUME ControlOK, WorkShared
  PROVE  /\ cursor \in Nat /\ Len(input) \in Nat /\ DOMAIN input = 1 .. Len(input)
         /\ Divided(Len(input), morsels)
         /\ Len(morsels) \in Nat
         /\ \A k \in DOMAIN input : input[k] \in Rows
  BY DEF ControlOK, WorkShared

(* The cursor does not wrap: besides the morsels it counts the threads that
   have found none left.                                                    *)
LEMMA CursorMoves ==
  ASSUME ControlOK, WorkShared, NEW t \in Team, pc[t] = "work", FetchAdd
  PROVE  cursor' = cursor + 1 /\ cursor' \in 0 .. SizeMod - 1
  <1> DEFINE len == Len(morsels)
  <1>1. /\ numThreads \in Nat /\ numThreads <= MaxThreads /\ MaxThreads \in Nat
        /\ cursor \in Nat /\ MaxRows \in Nat /\ MaxRows + MaxThreads < SizeMod
        /\ SizeMod \in Nat \ {0}
    BY GroupByAssumption, TeamAssumption, WidthAssumption DEF ControlOK
  <1>2. len \in Nat /\ len <= MaxRows /\ cursor <= len + Cardinality(Gone)
    BY <1>1 DEF WorkShared, Divided, ControlOK
  <1>3. Gone \in SUBSET (0 .. (numThreads - 1)) /\ t \in 0 .. (numThreads - 1) /\ t \notin Gone
    BY DEF Gone, Team
  <1> HIDE DEF len
  <1>4. len + numThreads < SizeMod
    BY <1>1, <1>2
  <1>5. (cursor + 1) % SizeMod = cursor + 1 /\ cursor + 1 < SizeMod
    BY ONLY <1>1, <1>2, <1>3, <1>4, RoomForOneMore, Zenon
  <1> QED BY <1>1, <1>5 DEF FetchAdd

(* A morsel nobody has been given before, and what its loop finds. *)
LEMMA NextMorsel ==
  ASSUME ControlOK, WorkShared, cursor < Len(morsels), NEW m, m = morsels[cursor + 1]
  PROVE  /\ m.start + 1 \in Int /\ m.end \in Int /\ (m.start + 1) - 1 <= m.end
         /\ (m.start + 1) .. m.end \subseteq DOMAIN input
         /\ Behind(morsels, cursor + 1) = PositionsSeen \union ((m.start + 1) .. m.end)
         /\ PositionsSeen \cap ((m.start + 1) .. m.end) = {}
         /\ PositionsSeen \subseteq DOMAIN input
         /\ IsFiniteSet(PositionsSeen) /\ IsFiniteSet((m.start + 1) .. m.end)
  <1>1. /\ cursor \in Nat /\ Len(input) \in Nat /\ DOMAIN input = 1 .. Len(input)
        /\ Divided(Len(input), morsels)
        /\ Len(morsels) \in Nat
    BY InputDivided
  <1>2. PositionsSeen = Behind(morsels, cursor)
    BY SeenIsBehind
  <1>3. Positions(m) = (m.start + 1) .. m.end
    BY DEF Positions
  <1>4. /\ Behind(morsels, cursor + 1) = Behind(morsels, cursor) \union Positions(m)
        /\ Behind(morsels, cursor) \cap Positions(m) = {}
        /\ Positions(m) \subseteq 1 .. Len(input)
    BY ONLY <1>1, BehindNext, cursor < Len(morsels), m = morsels[cursor + 1]
  <1>5. Behind(morsels, cursor) \subseteq 1 .. Len(input) /\ IsFiniteSet(Behind(morsels, cursor))
    BY <1>1, BehindBounds
  <1>6. m.start + 1 \in Int /\ m.end \in Int /\ (m.start + 1) - 1 <= m.end
    <2>1. cursor + 1 \in 1 .. Len(morsels)
      BY <1>1
    <2>2. m \in [id : Nat, start : 0 .. Len(input), end : 0 .. Len(input)]
      BY ONLY <1>1, <2>1, DividedTyped, m = morsels[cursor + 1]
    <2>3. m.start < m.end
      BY ONLY <1>1, <2>1, m = morsels[cursor + 1] DEF Divided
    <2> QED BY <1>1, <2>2, <2>3
  <1>7. IsFiniteSet((m.start + 1) .. m.end)
    BY <1>6, FS_Interval
  <1> QED BY <1>1, <1>2, <1>3, <1>4, <1>5, <1>6, <1>7

-----------------------------------------------------------------------------
(* The numbers that TimesCounted adds. *)
LEMMA CountNumbers ==
  ASSUME ControlOK, MapsSound, NEW r \in Rows, NEW c
  PROVE  /\ numThreads \in Nat /\ Team = 0 .. (numThreads - 1) /\ IsFiniteSet(Team)
         /\ DOMAIN local = Team /\ DOMAIN slots \subseteq Team
         /\ IsFiniteSet(DOMAIN slots) /\ IsFiniteSet(Pending) /\ Pending \subseteq DOMAIN slots
         /\ \A t \in Team : CountedIn(local[t], r, c) \in Nat
         /\ \A t \in DOMAIN slots : CountedIn(slots[t], r, c) \in Nat
         /\ CountedIn(finalMap, r, c) \in Nat
  <1>1. /\ numThreads \in Nat /\ Team = 0 .. (numThreads - 1) /\ DOMAIN local = Team
        /\ DOMAIN slots \subseteq Team /\ table \in Tables
    BY TeamAssumption DEF ControlOK, Team
  <1>2. DOMAIN slots \in SUBSET (0 .. (numThreads - 1)) /\ Pending \in SUBSET (0 .. (numThreads - 1))
        /\ Team \in SUBSET (0 .. (numThreads - 1))
    BY <1>1 DEF Pending
  <1>3. IsFiniteSet(Team) /\ IsFiniteSet(DOMAIN slots) /\ IsFiniteSet(Pending)
    BY <1>1, <1>2, TeamPart
  <1> QED BY <1>1, <1>3, LookupSound DEF Pending, MapsSound

LEMMA SumMonotone ==
  ASSUME NEW S, IsFiniteSet(S), NEW f, NEW g,
         \A x \in S : f[x] \in Nat /\ g[x] \in Nat /\ f[x] <= g[x]
  PROVE  SumFunctionOnSet(f, S) <= SumFunctionOnSet(g, S)
  <1> DEFINE d == [x \in S |-> g[x] - f[x]]
             h == [x \in S |-> f[x] + d[x]]
  <1>1. \A x \in S : d[x] \in Nat /\ h[x] = g[x]
    OBVIOUS
  <1>2. /\ \A x \in S : f[x] \in Int /\ d[x] \in Int
        /\ h = [x \in S |-> f[x] + d[x]]
    BY <1>1
  <1> HIDE DEF d, h
  <1>3. SumFunctionOnSet(h, S) = SumFunctionOnSet(f, S) + SumFunctionOnSet(d, S)
    BY <1>2, SumAdd
  <1>4. SumFunctionOnSet(h, S) = SumFunctionOnSet(g, S)
    BY <1>1, SumSame
  <1>5. SumFunctionOnSet(d, S) \in Nat /\ SumFunctionOnSet(f, S) \in Nat
    BY <1>1, SumNat
  <1> QED BY <1>3, <1>4, <1>5

(* No live map counts more rows than have been handed out. *)
LEMMA LiveBounded ==
  ControlOK /\ WorkShared /\ MapsSound /\ RowsGroupedOnce /\ busy
    => (\A t \in Team : IsMap(local[t])) /\ IsMap(finalMap)
  <1> SUFFICES ASSUME ControlOK, WorkShared, MapsSound, RowsGroupedOnce, busy
               PROVE  (\A t \in Team : IsMap(local[t])) /\ IsMap(finalMap)
    OBVIOUS
  <1> DEFINE seen == [r \in Rows |-> Occurs(PositionsSeen, input, r)]
  <1>1. /\ cursor \in Nat /\ Len(input) \in Nat /\ DOMAIN input = 1 .. Len(input)
        /\ Divided(Len(input), morsels)
        /\ \A k \in DOMAIN input : input[k] \in Rows
    BY InputDivided
  <1>2. MaxRows \in Nat /\ Len(input) <= MaxRows
    BY GroupByAssumption DEF WorkShared
  <1>3. /\ PositionsSeen \subseteq DOMAIN input /\ IsFiniteSet(PositionsSeen)
        /\ Cardinality(PositionsSeen) <= MaxRows /\ Cardinality(PositionsSeen) \in Nat
    <2>1. /\ Behind(morsels, cursor) \subseteq 1 .. Len(input)
          /\ IsFiniteSet(Behind(morsels, cursor))
          /\ Cardinality(Behind(morsels, cursor)) \in Nat
          /\ Cardinality(Behind(morsels, cursor)) <= Len(input)
      BY <1>1, BehindBounds
    <2> QED BY <1>1, <1>2, <2>1, SeenIsBehind
  <1>4. \A r \in Rows : seen[r] \in Nat /\ seen[r] = Cardinality({k \in PositionsSeen : input[k] = r})
    BY <1>3, FS_Subset, FS_CardinalityType DEF Occurs
  <1>5. SumFunctionOnSet(seen, Rows) = Cardinality(PositionsSeen)
    <2>1. \A k \in PositionsSeen : input[k] \in Rows
      BY <1>1, <1>3
    <2> QED BY ONLY <1>3, <2>1, RowsFinite, CountByValue, Zenon
  <1> HIDE DEF seen
  <1>6. ASSUME NEW map, SoundMap(map),
               \A r \in Rows, c \in Categories : CountedIn(map, r, c) <= TimesCounted(r, c)
        PROVE  IsMap(map)
    <2> SUFFICES ASSUME NEW c \in DOMAIN map PROVE map[c] \in Metrics
      BY <1>6 DEF IsMap, SoundMap
    <2> DEFINE m == map[c]
               f == map[c].sum
    <2>1. /\ c \in Categories /\ m \in NatMetrics /\ f \in [Rows -> Nat]
          /\ m.count = SumFunctionOnSet(f, Rows)
      BY <1>6 DEF SoundMap, Sound, NatMetrics
    <2>2. \A r \in Rows : f[r] = CountedIn(map, r, c)
      BY DEF CountedIn, Lookup
    <2> HIDE DEF m, f
    <2>3. \A r \in Rows : f[r] \in Nat /\ seen[r] \in Nat /\ f[r] <= seen[r]
      <3> SUFFICES ASSUME NEW r \in Rows PROVE f[r] \in Nat /\ seen[r] \in Nat /\ f[r] <= seen[r]
        OBVIOUS
      <3>1. f[r] <= TimesCounted(r, c)
        BY <1>6, <2>1, <2>2
      <3>2. TimesCounted(r, c) = IF c = table.category[r] THEN seen[r] ELSE 0
        BY <1>4, <2>1 DEF RowsGroupedOnce
      <3>3. f[r] \in Nat /\ seen[r] \in Nat
        BY <1>4, <2>1
      <3> DEFINE n == TimesCounted(r, c)
                 x == f[r]
                 y == seen[r]
      <3> HIDE DEF n, x, y
      <3>4. x <= n /\ x \in Nat /\ y \in Nat /\ (n = y \/ n = 0)
        BY <3>1, <3>2, <3>3 DEF n, x, y
      <3>5. x <= y
        BY <3>4
      <3> QED BY <3>3, <3>5 DEF x, y
    <2>4. SumFunctionOnSet(f, Rows) <= SumFunctionOnSet(seen, Rows)
      BY <2>3, RowsFinite, SumMonotone
    <2>5. SumFunctionOnSet(f, Rows) \in Nat /\ \A r \in Rows : f[r] <= SumFunctionOnSet(f, Rows)
      BY <2>3, RowsFinite, SumNat
    <2>6. m.count \in 0 .. MaxRows /\ \A r \in Rows : f[r] \in 0 .. MaxRows
      <3> DEFINE n == SumFunctionOnSet(f, Rows)
      <3>1. n \in Nat /\ n <= MaxRows
        BY <1>2, <1>3, <1>5, <2>4, <2>5
      <3>2. \A r \in Rows : f[r] \in Nat /\ f[r] <= n
        BY <2>3, <2>5
      <3>3. m.count = n
        BY <2>1
      <3> HIDE DEF n
      <3> QED BY <1>2, <3>1, <3>2, <3>3
    <2>7. f \in [Rows -> 0 .. MaxRows]
      BY <2>1, <2>6
    <2>8. m.sum = f
      BY DEF m, f
    <2>9. m \in Metrics
      BY <2>1, <2>6, <2>7, <2>8 DEF NatMetrics, Metrics
    <2> QED BY <2>9 DEF m
  <1>7. ASSUME NEW r \in Rows, NEW c \in Categories
        PROVE  /\ \A t \in Team : CountedIn(local[t], r, c) <= TimesCounted(r, c)
               /\ CountedIn(finalMap, r, c) <= TimesCounted(r, c)
    <2> DEFINE f == [t \in Team |-> CountedIn(local[t], r, c)]
               g == [t \in DOMAIN slots |-> CountedIn(slots[t], r, c)]
               o == CountedIn(finalMap, r, c)
               a == SumFunctionOnSet(f, Team)
               b == SumFunctionOnSet(g, Pending)
    <2>1. /\ IsFiniteSet(Team) /\ IsFiniteSet(Pending) /\ o \in Nat
          /\ \A t \in Team : f[t] \in Nat
          /\ \A t \in Pending : g[t] \in Nat
      BY CountNumbers
    <2>2. TimesCounted(r, c) = a + b + o
      BY DEF TimesCounted
    <2>3. \A t \in Team : f[t] = CountedIn(local[t], r, c)
      OBVIOUS
    <2> HIDE DEF f, g, o
    <2>4. a \in Nat /\ \A t \in Team : f[t] <= a
      BY <2>1, SumNat
    <2>5. b \in Nat
      BY <2>1, SumNat
    <2> HIDE DEF a, b
    <2>6. o <= TimesCounted(r, c) /\ a <= TimesCounted(r, c)
      BY <2>1, <2>2, <2>4, <2>5
    <2>7. TimesCounted(r, c) \in Nat
      BY <2>1, <2>2, <2>4, <2>5
    <2>8. \A t \in Team : f[t] <= TimesCounted(r, c)
      BY <2>1, <2>4, <2>6, <2>7
    <2> QED BY <2>3, <2>6, <2>8 DEF o
  <1> QED BY <1>6, <1>7 DEF MapsSound

LEMMA NoMapTyped == IsMap(NoMap)
  BY DEF IsMap, NoMap

-----------------------------------------------------------------------------
(* A call begins with nothing handed out and nothing counted. *)
LEMMA BeginInv ==
  ASSUME NEW n \in 1 .. MaxThreads, Begin(n), table \in Tables, cursor' = 0,
         input' \in Seq(Rows), Len(input') <= MaxRows, totalRows' = Len(input'),
         morselSize' \in Nat \ {0}, Divided(totalRows', morsels'),
         whole' \in BOOLEAN
  PROVE  GroupInv'
  <1>1. /\ n \in Nat /\ Team' = 0 .. (n - 1) /\ numThreads' = n
        /\ DOMAIN local' = Team' /\ \A t \in Team' : local'[t] = NoMap /\ pc'[t] = "single"
        /\ slots' = NoSlots /\ DOMAIN slots' = {} /\ finalMap' = NoMap /\ nextSlot' = 0
        /\ 0 \in Team' /\ table' = table
    BY TeamAssumption DEF Begin, Fork, Team, NoSlots
  <1>2. /\ Len(input') \in Nat /\ Len(morsels') \in Nat
        /\ morsels' \in Seq([id : Nat, start : 0 .. totalRows', end : 0 .. totalRows'])
    BY DEF Divided
  <1>3. ControlOK'
    <2>1. morsels' \in Seq([id : Nat, start : Nat, end : Nat])
      BY <1>2, TiledNat
    <2>2. pc' \in [Team' -> Labels]
      BY <1>1 DEF Begin, Fork, Labels
    <2>3. /\ cursor' \in 0 .. SizeMod - 1 /\ totalRows' \in Nat
          /\ numThreads' \in 1 .. MaxThreads /\ nextSlot' \in 0 .. numThreads'
      BY <1>1, <1>2, WidthAssumption
    <2>4. singleTaken' \in BOOLEAN /\ busy' \in BOOLEAN
      BY DEF Begin, Fork
    <2> QED BY <1>1, <2>1, <2>2, <2>3, <2>4 DEF ControlOK, Rows
  <1>4. WorkShared'
    <2>1. Gone' = {} /\ Cardinality(Gone') = 0
      BY <1>1, FS_EmptySet DEF Gone
    <2> QED BY <1>1, <1>2, <2>1 DEF WorkShared
  <1>5. SlotsFilled'
    BY <1>1 DEF SlotsFilled, NoMap
  <1>6. MapsOK'
    BY <1>1, NoMapTyped DEF MapsOK, IsMap, Metrics, Rows, NoMap
  <1>7. MapsSound'
    <2>1. DOMAIN NoMap = {}
      BY DEF NoMap
    <2> QED BY <1>1, <2>1 DEF MapsSound, SoundMap
  <1>8. PositionsSeen' = {}
    <2>1. Behind(morsels', cursor') = {}
      BY <1>2, BehindStart
    <2>2. PositionsSeen' = Behind(morsels', cursor')
      BY DEF PositionsSeen, IsMorsel, MorselAt, PositionsOf, Behind, Positions
    <2> QED BY <2>1, <2>2
  <1>9. RowsGroupedOnce'
    <2> SUFFICES ASSUME NEW r \in Rows, NEW c \in Categories
                 PROVE  /\ TimesCounted(r, c)' = 0
                        /\ Cardinality({k \in PositionsSeen' : input'[k] = r}) = 0
      BY DEF RowsGroupedOnce, Rows
    <2> DEFINE f == [t \in Team' |-> CountedIn(local'[t], r, c)]
               g == [t \in DOMAIN slots' |-> CountedIn(slots'[t], r, c)]
    <2>1. IsFiniteSet(Team') /\ \A t \in Team' : f[t] = 0
      <3>1. IsFiniteSet(Team')
        BY <1>1, TeamPart
      <3>2. \A t \in Team' : f[t] = 0
        BY <1>1, NoMapSound
      <3> QED BY <3>1, <3>2
    <2>2. Pending' = {}
      BY <1>1 DEF Pending
    <2>3. TimesCounted(r, c)' = SumFunctionOnSet(f, Team') + SumFunctionOnSet(g, Pending')
                                  + CountedIn(finalMap', r, c)
      BY DEF TimesCounted, CountedIn, Lookup, NewMetrics, Rows
    <2> HIDE DEF f, g
    <2>4. SumFunctionOnSet(f, Team') = 0
      BY <2>1, SumZero
    <2>5. SumFunctionOnSet(g, Pending') = 0 /\ CountedIn(finalMap', r, c) = 0
      BY <1>1, <2>2, SumEmpty, NoMapSound
    <2>6. Cardinality({k \in PositionsSeen' : input'[k] = r}) = 0
      BY <1>8, FS_EmptySet
    <2> QED BY <2>3, <2>4, <2>5, <2>6
  <1> QED BY <1>3, <1>4, <1>5, <1>6, <1>7, <1>9 DEF GroupInv

LEMMA CallInv ==
  ASSUME NEW n \in 1 .. MaxThreads, table \in Tables,
         \/ \E rows \in 0 .. MaxRows : CallTable(n, rows)
         \/ \E sel \in Selections : CallSelection(n, sel)
  PROVE  GroupInv'
  <1>1. ASSUME NEW rows \in 0 .. MaxRows, CallTable(n, rows) PROVE GroupInv'
    <2>1. rows \in Nat /\ MaxRows \in Nat
      BY GroupByAssumption
    <2>2. WholeTable(rows) \in [1 .. rows -> Rows]
      BY <2>1 DEF WholeTable, Rows
    <2>3. WholeTable(rows) \in Seq(Rows) /\ Len(WholeTable(rows)) = rows
      BY ONLY <2>1, <2>2, TupleIsSeq, Zenon
    <2>4. EffectiveSize(DefaultMorselSize) \in Nat \ {0}
      BY MorselAssumption DEF EffectiveSize
    <2>5. Divided(totalRows', morsels') /\ totalRows' = rows /\ cursor' = 0
          /\ morselSize' \in Nat \ {0}
      BY <1>1, <2>1, <2>4, TableTiled, TiledDivided DEF CallTable, Partition
    <2> QED BY <1>1, <2>1, <2>3, <2>5, BeginInv DEF CallTable
  <1>2. ASSUME NEW sel \in Selections, CallSelection(n, sel) PROVE GroupInv'
    <2>1. sel \in Seq(Rows) /\ Len(sel) <= MaxRows
      BY GroupByAssumption DEF Rows
    <2>2. Divided(totalRows', morsels') /\ totalRows' = Len(sel) /\ cursor' = 0
          /\ morselSize' \in Nat \ {0}
      BY <1>2, <2>1, LoopDivided DEF CallSelection
    <2> QED BY <1>2, <2>1, <2>2, BeginInv DEF CallSelection
  <1> QED BY <1>1, <1>2

LEMMA InitInv == Init => IInv
  <1> SUFFICES ASSUME Init PROVE IInv
    OBVIOUS
  <1>1. Team = {0} /\ MaxRows \in Nat /\ DOMAIN slots = {}
    BY GroupByAssumption DEF Init, Team, NoSlots
  <1>2. ControlOK
    <2>1. /\ morsels \in Seq([id : Nat, start : Nat, end : Nat]) /\ input \in Seq(Rows)
          /\ cursor \in 0 .. SizeMod - 1 /\ morselSize \in Nat \ {0} /\ totalRows \in Nat
      BY WidthAssumption, MorselAssumption DEF Init
    <2>2. numThreads \in 1 .. MaxThreads /\ nextSlot \in 0 .. numThreads
      BY TeamAssumption DEF Init
    <2>3. pc \in [Team -> Labels] /\ DOMAIN local = Team
      BY <1>1 DEF Init, Labels
    <2> QED BY <1>1, <2>1, <2>2, <2>3 DEF Init, ControlOK
  <1>3. WorkShared
    <2>1. Gone \in SUBSET (0 .. (1 - 1)) /\ Cardinality(Gone) \in Nat
      BY <1>1, TeamPart DEF Gone
    <2>2. Divided(0, <<>>)
      BY EmptyTiled, TiledDivided
    <2> QED BY <1>1, <2>1, <2>2 DEF Init, WorkShared, IsMorsel
  <1>4. SlotsFilled
    BY <1>1 DEF Init, SlotsFilled
  <1>5. TeamInv
    BY DEF Init, TeamInv, TeamOK, Team, Labels, Joined
  <1>6. MapsOK /\ MapsSound
    BY <1>1, NoMapTyped, NoMapSound DEF Init, MapsOK, MapsSound
  <1>7. RowsGroupedOnce
    BY DEF Init, RowsGroupedOnce
  <1> QED BY <1>2, <1>3, <1>4, <1>5, <1>6, <1>7 DEF IInv, GroupInv

-----------------------------------------------------------------------------
(* What Sound says of a map it says as long as the table stays. *)
LEMMA SoundKept ==
  ASSUME table' = table
  PROVE  \A map : SoundMap(map)' <=> SoundMap(map)
  <1>1. \A m : PricesIn(m)' = PricesIn(m)
    BY DEF PricesIn, Rows
  <1>2. \A m : Sound(m)' <=> Sound(m)
    BY <1>1 DEF Sound, NatMetrics, Rows
  <1> QED BY <1>2 DEF SoundMap

(* A step that moves no group and hands no row out keeps what is counted. *)
StillHeld ==
  /\ UNCHANGED <<local, slots, finalMap, nextSlot, numThreads, busy, input, table>>
  /\ PositionsSeen' = PositionsSeen

LEMMA HeldStill ==
  ASSUME MapsOK, MapsSound, RowsGroupedOnce, StillHeld
  PROVE  MapsOK' /\ MapsSound' /\ RowsGroupedOnce'
  <1>1. Team' = Team /\ Pending' = Pending
    BY DEF StillHeld, Team, Pending
  <1>2. \A r, c : TimesCounted(r, c)' = TimesCounted(r, c)
    BY <1>1 DEF StillHeld, TimesCounted, CountedIn, Lookup, NewMetrics, Rows
  <1>3. RowsGroupedOnce'
    BY <1>2 DEF StillHeld, RowsGroupedOnce, Rows
  <1>4. MapsOK'
    BY <1>1 DEF StillHeld, MapsOK, IsMap, Metrics, Rows
  <1>5. MapsSound'
    BY <1>1, SoundKept DEF StillHeld, MapsSound
  <1> QED BY <1>3, <1>4, <1>5

(* A thread that has not left the loop waits, passes or sizes nothing yet. *)
LEMMA ControlInv ==
  ASSUME IInv, NEW t, UNCHANGED <<allocatorVars, queryVars>>,
         WinSingle(t) \/ SkipSingle(t) \/ PassBarrier(t) \/ PassForEnd(t)
  PROVE  GroupInv'
  <1>1. ControlOK /\ MapsOK /\ MapsSound /\ WorkShared /\ SlotsFilled /\ RowsGroupedOnce
    BY DEF IInv, GroupInv
  <1>2. /\ UNCHANGED <<totalRows, morselSize, morsels, cursor, numThreads, local, slots>>
        /\ UNCHANGED <<busy, whole, input, table, finalMap, nextSlot>>
        /\ Team' = Team /\ t \in Team /\ pc[t] # "done" /\ singleTaken' \in BOOLEAN
    BY <1>1 DEF allocatorVars, queryVars, WinSingle, SkipSingle, PassBarrier, PassForEnd,
                At, Team, ControlOK
  <1>3. \E l \in {"resize", "barrier", "work", "publish"} :
          /\ pc' = [pc EXCEPT ![t] = l]
          /\ l = "publish" <=> pc[t] = "forEnd"
          /\ pc[t] # "publish"
    BY DEF WinSingle, SkipSingle, PassBarrier, PassForEnd, At, GoTo
  <1>4. PICK l \in {"resize", "barrier", "work", "publish"} :
          /\ pc' = [pc EXCEPT ![t] = l]
          /\ l = "publish" <=> pc[t] = "forEnd"
          /\ pc[t] # "publish"
    BY <1>3
  <1>5. /\ DOMAIN pc = Team /\ pc'[t] = l /\ \A u \in Team : u # t => pc'[u] = pc[u]
        /\ \A u \in Team : pc'[u] = "done" <=> pc[u] = "done"
    BY <1>1, <1>2, <1>4 DEF ControlOK
  <1>6. ControlOK'
    <2>1. pc' \in [Team -> Labels]
      BY <1>1, <1>2, <1>4 DEF ControlOK, Labels
    <2> QED BY <1>1, <1>2, <2>1 DEF ControlOK, Rows
  <1>7. Gone' = Gone
    BY <1>2, <1>4, <1>5 DEF Gone
  <1>8. WorkShared'
    BY <1>1, <1>2, <1>7 DEF WorkShared, IsMorsel
  <1>9. SlotsFilled'
    <2>1. DOMAIN slots \subseteq Team
      BY <1>1 DEF ControlOK
    <2> QED BY <1>1, <1>2, <1>5, <2>1 DEF SlotsFilled, Joined, NoMap
  <1>10. PositionsSeen' = PositionsSeen
    BY <1>2 DEF PositionsSeen, IsMorsel, MorselAt
  <1> QED BY <1>1, <1>2, <1>6, <1>8, <1>9, <1>10, HeldStill DEF GroupInv, StillHeld

(* thread_maps.resize(): the new slots are empty, as the old ones were. *)
LEMMA ResizeInv ==
  ASSUME IInv, NEW t, UNCHANGED <<allocatorVars, queryVars>>, Resize(t, NoMap)
  PROVE  GroupInv'
  <1>1. ControlOK /\ MapsOK /\ MapsSound /\ WorkShared /\ SlotsFilled /\ RowsGroupedOnce
    BY DEF IInv, GroupInv
  <1>2. /\ UNCHANGED <<totalRows, morselSize, morsels, cursor, numThreads, singleTaken, local>>
        /\ UNCHANGED <<busy, whole, input, table, finalMap, nextSlot>>
        /\ Team' = Team /\ t \in Team /\ pc[t] = "resize"
        /\ slots' = [u \in Team |-> NoMap] /\ pc' = [pc EXCEPT ![t] = "barrier"]
    BY DEF allocatorVars, queryVars, Resize, At, GoTo, Team
  <1>3. /\ DOMAIN pc = Team /\ pc'[t] = "barrier" /\ \A u \in Team : u # t => pc'[u] = pc[u]
    BY <1>1, <1>2 DEF ControlOK
  <1>4. busy /\ \A u \in Team : pc[u] # "done"
    BY <1>2 DEF IInv, TeamInv, Joined, BeyondBarrier, Before
  <1>5. ControlOK'
    <2>1. pc' \in [Team -> Labels]
      BY <1>1, <1>2 DEF ControlOK, Labels
    <2> QED BY <1>1, <1>2, <2>1 DEF ControlOK, Rows
  <1>6. Gone' = Gone
    BY <1>2, <1>3 DEF Gone
  <1>7. WorkShared'
    BY <1>1, <1>2, <1>6 DEF WorkShared, IsMorsel
  <1>8. DOMAIN slots' = Team /\ \A u \in Team : slots'[u] = NoMap
    BY <1>2
  <1>9. SlotsFilled'
    BY <1>1, <1>2, <1>3, <1>4, <1>8 DEF SlotsFilled, Joined, NoMap
  <1>10. PositionsSeen' = PositionsSeen
    BY <1>2 DEF PositionsSeen, IsMorsel, MorselAt
  <1>11. DOMAIN NoMap = {}
    BY DEF NoMap
  <1>12. MapsOK'
    BY <1>1, <1>2, <1>8, <1>11 DEF MapsOK, IsMap, Metrics, Rows
  <1>13. MapsSound'
    BY <1>1, <1>2, <1>8, <1>11, SoundKept, NoMapSound DEF MapsSound
  <1>14. \A u \in DOMAIN slots : slots[u] = NoMap
    <2>1. DOMAIN slots \subseteq Team
      BY <1>1 DEF ControlOK
    <2> QED BY <1>1, <1>4, <2>1 DEF SlotsFilled
  <1>15. ASSUME NEW r \in Rows, NEW c PROVE TimesCounted(r, c)' = TimesCounted(r, c)
    <2> DEFINE f == [u \in DOMAIN slots |-> CountedIn(slots[u], r, c)]
               g == [u \in DOMAIN slots' |-> CountedIn(slots'[u], r, c)]
               l == SumFunctionOnSet([u \in Team |-> CountedIn(local[u], r, c)], Team)
               o == CountedIn(finalMap, r, c)
    <2>1. /\ IsFiniteSet(Pending) /\ Pending \subseteq DOMAIN slots /\ IsFiniteSet(Team)
      BY <1>1, CountNumbers
    <2>2. IsFiniteSet(Pending') /\ Pending' \subseteq DOMAIN slots'
      <3>1. Pending' \subseteq Team
        BY <1>2 DEF Pending
      <3> QED BY <2>1, <3>1, FS_Subset DEF Pending
    <2>3. /\ \A u \in Pending : f[u] = 0
          /\ \A u \in Pending' : g[u] = 0
      BY <1>2, <1>8, <1>14, <2>1, <2>2, NoMapSound
    <2>4. TimesCounted(r, c) = l + SumFunctionOnSet(f, Pending) + o
      BY DEF TimesCounted
    <2>5. TimesCounted(r, c)' = l + SumFunctionOnSet(g, Pending') + o
      BY <1>2 DEF TimesCounted, CountedIn, Lookup, NewMetrics, Rows
    <2> HIDE DEF f, g, l, o
    <2>6. SumFunctionOnSet(f, Pending) = 0 /\ SumFunctionOnSet(g, Pending') = 0
      BY <2>1, <2>2, <2>3, SumZero
    <2> QED BY <2>4, <2>5, <2>6
  <1>16. RowsGroupedOnce'
    BY <1>1, <1>2, <1>10, <1>15 DEF RowsGroupedOnce, Rows
  <1> QED BY <1>5, <1>7, <1>9, <1>12, <1>13, <1>16 DEF GroupInv

(* The move into the slot: the slot gains what the local map loses. *)
LEMMA PublishInv ==
  ASSUME IInv, NEW t, UNCHANGED <<allocatorVars, queryVars>>, Publish(t, NoMap)
  PROVE  GroupInv'
  <1>1. ControlOK /\ MapsOK /\ MapsSound /\ WorkShared /\ SlotsFilled /\ RowsGroupedOnce
    BY DEF IInv, GroupInv
  <1>2. /\ UNCHANGED <<totalRows, morselSize, morsels, cursor, numThreads, singleTaken>>
        /\ UNCHANGED <<busy, whole, input, table, finalMap, nextSlot>>
        /\ Team' = Team /\ t \in Team /\ pc[t] = "publish"
        /\ slots' = [slots EXCEPT ![t] = local[t]] /\ local' = [local EXCEPT ![t] = NoMap]
        /\ pc' = [pc EXCEPT ![t] = "done"]
    BY DEF allocatorVars, queryVars, Publish, At, GoTo, Team
  <1>3. /\ DOMAIN pc = Team /\ pc'[t] = "done" /\ \A u \in Team : u # t => pc'[u] = pc[u]
    BY <1>1, <1>2 DEF ControlOK
  <1>4. busy /\ DOMAIN slots = Team /\ DOMAIN local = Team
    <2>1. busy
      BY <1>2 DEF IInv, TeamInv, Joined
    <2>2. \A u \in Team : pc[u] # "resize"
      BY <1>2, <2>1 DEF IInv, TeamInv, BeyondBarrier, Before
    <2> QED BY <1>1, <1>2, <2>1, <2>2 DEF IInv, TeamInv, SingleTaken, ControlOK
  <1>5. /\ DOMAIN slots' = Team /\ DOMAIN local' = Team /\ slots[t] = NoMap /\ nextSlot = 0
        /\ slots'[t] = local[t] /\ local'[t] = NoMap
        /\ \A u \in Team : u # t => slots'[u] = slots[u] /\ local'[u] = local[u]
    <2>1. slots[t] = NoMap /\ nextSlot = 0
      BY <1>1, <1>2, <1>4 DEF SlotsFilled, Joined
    <2> QED BY <1>2, <1>4, <2>1
  <1>6. ControlOK'
    <2>1. pc' \in [Team -> Labels]
      BY <1>1, <1>2 DEF ControlOK, Labels
    <2> QED BY <1>1, <1>2, <1>5, <2>1 DEF ControlOK, Rows
  <1>7. Gone' = Gone
    BY <1>2, <1>3 DEF Gone
  <1>8. WorkShared'
    BY <1>1, <1>2, <1>7 DEF WorkShared, IsMorsel
  <1>9. SlotsFilled'
    BY <1>1, <1>2, <1>3, <1>4, <1>5 DEF SlotsFilled, NoMap
  <1>10. PositionsSeen' = PositionsSeen
    BY <1>2 DEF PositionsSeen, IsMorsel, MorselAt
  <1>11. DOMAIN NoMap = {}
    BY DEF NoMap
  <1>12. MapsOK'
    BY <1>1, <1>2, <1>4, <1>5, <1>11 DEF MapsOK, IsMap, Metrics, Rows
  <1>13. MapsSound'
    BY <1>1, <1>2, <1>4, <1>5, <1>11, SoundKept, NoMapSound DEF MapsSound
  <1>14. ASSUME NEW r \in Rows, NEW c PROVE TimesCounted(r, c)' = TimesCounted(r, c)
    <2> DEFINE f == [u \in Team |-> CountedIn(local[u], r, c)]
               h == [u \in Team |-> CountedIn(local'[u], r, c)]
               g == [u \in Team |-> CountedIn(slots[u], r, c)]
               k == [u \in Team |-> CountedIn(slots'[u], r, c)]
               o == CountedIn(finalMap, r, c)
               n == CountedIn(local[t], r, c)
    <2>1. /\ IsFiniteSet(Team) /\ n \in Nat /\ o \in Nat
          /\ \A u \in Team : f[u] \in Int /\ g[u] \in Int
      <3>1. /\ IsFiniteSet(Team) /\ o \in Nat
            /\ \A u \in Team : CountedIn(local[u], r, c) \in Nat
            /\ \A u \in DOMAIN slots : CountedIn(slots[u], r, c) \in Nat
        BY <1>1, CountNumbers
      <3> QED BY <1>2, <1>4, <3>1
    <2>2. Pending = Team /\ Pending' = Team
      BY <1>1, <1>2, <1>4, <1>5 DEF Pending, Team, ControlOK
    <2>3. /\ f[t] = n /\ h[t] = 0 /\ g[t] = 0 /\ k[t] = n
          /\ \A u \in Team : u # t => h[u] = f[u] /\ k[u] = g[u]
      BY <1>2, <1>5, NoMapSound
    <2>4. \A u \in Team : h[u] \in Int /\ k[u] \in Int
      <3> HIDE DEF f, g, h, k, n
      <3> QED BY <2>1, <2>3
    <2>5. TimesCounted(r, c) = SumFunctionOnSet(f, Team) + SumFunctionOnSet(g, Team) + o
      BY <1>2, <1>4, <2>2 DEF TimesCounted
    <2>6. TimesCounted(r, c)' = SumFunctionOnSet(h, Team) + SumFunctionOnSet(k, Team) + o
      BY <1>2, <1>4, <1>5, <2>2 DEF TimesCounted, CountedIn, Lookup, NewMetrics, Rows
    <2> HIDE DEF f, g, h, k, o, n
    <2>7. /\ SumFunctionOnSet(h, Team) = SumFunctionOnSet(f, Team) + h[t] - f[t]
          /\ SumFunctionOnSet(k, Team) = SumFunctionOnSet(g, Team) + k[t] - g[t]
      <3>1. /\ \A u \in Team : u # t => f[u] = h[u] /\ g[u] = k[u]
            /\ \A u \in Team : f[u] \in Int /\ h[u] \in Int
            /\ \A u \in Team : g[u] \in Int /\ k[u] \in Int
        BY <2>1, <2>3, <2>4
      <3>2. SumFunctionOnSet(h, Team) = SumFunctionOnSet(f, Team) + h[t] - f[t]
        BY <1>2, <2>1, <3>1, SumChange
      <3>3. SumFunctionOnSet(k, Team) = SumFunctionOnSet(g, Team) + k[t] - g[t]
        BY <1>2, <2>1, <3>1, SumChange
      <3> QED BY <3>2, <3>3
    <2>8. SumFunctionOnSet(f, Team) \in Int /\ SumFunctionOnSet(g, Team) \in Int
      BY <2>1, SumInt
    <2> QED BY <2>1, <2>3, <2>5, <2>6, <2>7, <2>8
  <1>15. RowsGroupedOnce'
    BY <1>1, <1>2, <1>10, <1>14 DEF RowsGroupedOnce, Rows
  <1> QED BY <1>6, <1>8, <1>9, <1>12, <1>13, <1>15 DEF GroupInv

(* The last turn of the work loop finds nothing left. *)
LEMMA LeaveInv ==
  ASSUME IInv, NEW t, LeaveLoop(t)
  PROVE  GroupInv'
  <1> DEFINE l == IF whole THEN "publish" ELSE "forEnd"
  <1>1. ControlOK /\ MapsOK /\ MapsSound /\ WorkShared /\ SlotsFilled /\ RowsGroupedOnce
    BY DEF IInv, GroupInv
  <1>2. /\ UNCHANGED <<totalRows, morselSize, morsels, numThreads, singleTaken, local, slots>>
        /\ UNCHANGED <<busy, whole, input, table, finalMap, nextSlot>>
        /\ Team' = Team /\ t \in Team /\ pc[t] = "work" /\ ~(cursor < Len(morsels))
        /\ pc' = [pc EXCEPT ![t] = l]
    BY DEF queryVars, LeaveLoop, FetchAdd, IsMorsel, At, GoTo, Team
  <1>3. l \in {"publish", "forEnd"}
    OBVIOUS
  <1> HIDE DEF l
  <1>4. /\ DOMAIN pc = Team /\ pc'[t] = l /\ \A u \in Team : u # t => pc'[u] = pc[u]
    BY <1>1, <1>2 DEF ControlOK
  <1>5. cursor' = cursor + 1 /\ cursor' \in 0 .. SizeMod - 1
    BY <1>1, <1>2, CursorMoves DEF LeaveLoop
  <1>6. cursor \in Nat /\ Len(morsels) \in Nat /\ ~(cursor' < Len(morsels))
    BY <1>1, <1>2, <1>5, InputDivided
  <1>7. ControlOK'
    <2>1. pc' \in [Team -> Labels]
      BY <1>1, <1>2, <1>3 DEF ControlOK, Labels
    <2> QED BY <1>1, <1>2, <1>5, <2>1 DEF ControlOK, Rows
  <1>8. WorkShared'
    <2>1. Gone' = Gone \union {t} /\ t \notin Gone
      BY <1>2, <1>3, <1>4 DEF Gone
    <2>2. IsFiniteSet(Gone) /\ Cardinality(Gone) \in Nat
      <3>1. Gone \in SUBSET (0 .. (numThreads - 1)) /\ numThreads \in Nat
        BY <1>1, TeamAssumption DEF Gone, Team, ControlOK
      <3> QED BY <3>1, TeamPart
    <2> DEFINE g == Cardinality(Gone)
               h == Cardinality(Gone')
               n == Len(morsels)
    <2>3. h = g + 1
      BY <2>1, <2>2, FS_AddElement
    <2>4. cursor <= n + g /\ n \in Nat /\ g \in Nat
      BY <1>1, <1>6, <2>2 DEF WorkShared
    <2> HIDE DEF g, h, n
    <2>5. cursor' <= n + h
      BY <1>5, <1>6, <2>3, <2>4
    <2> QED BY <1>1, <1>2, <1>6, <2>5 DEF WorkShared, IsMorsel, n, h
  <1>9. SlotsFilled'
    <2>1. DOMAIN slots \subseteq Team
      BY <1>1 DEF ControlOK
    <2> QED BY <1>1, <1>2, <1>3, <1>4, <2>1 DEF SlotsFilled, Joined, NoMap
  <1>10. PositionsSeen' = PositionsSeen
    BY <1>2, <1>6 DEF PositionsSeen, IsMorsel, MorselAt
  <1> QED BY <1>1, <1>2, <1>7, <1>8, <1>9, <1>10, HeldStill DEF GroupInv, StillHeld

(* What LiveBounded says of the state after a step. *)
LEMMA LiveBoundedNext ==
  (ControlOK /\ WorkShared /\ MapsSound /\ RowsGroupedOnce /\ busy)'
    => ((\A t \in Team : IsMap(local[t])) /\ IsMap(finalMap))'
  BY LiveBounded, PTL

(* The groups of a morsel: its rows go into the thread's own map. *)
LEMMA WorkInv ==
  ASSUME IInv, NEW t, Work(t)
  PROVE  GroupInv'
  <1> DEFINE m == morsels[cursor + 1]
             first == m.start + 1
             here == first .. m.end
             q == GroupRows(local[t], first, m.end)
  <1>1. ControlOK /\ MapsOK /\ MapsSound /\ WorkShared /\ SlotsFilled /\ RowsGroupedOnce
    BY DEF IInv, GroupInv
  <1>2. /\ UNCHANGED <<totalRows, morselSize, morsels, numThreads, pc, singleTaken, slots>>
        /\ UNCHANGED <<busy, whole, input, table, finalMap, nextSlot>>
        /\ Team' = Team /\ t \in Team /\ pc[t] = "work" /\ cursor < Len(morsels)
        /\ local' = [local EXCEPT ![t] = q]
    BY DEF queryVars, Work, MorselAt, FetchAdd, IsMorsel, At, Team
  <1>3. busy /\ busy'
    BY <1>2 DEF IInv, TeamInv, Joined
  <1>4. cursor' = cursor + 1 /\ cursor' \in 0 .. SizeMod - 1
    BY <1>1, <1>2, CursorMoves DEF Work
  <1>5. /\ cursor \in Nat /\ Len(morsels) \in Nat /\ \A k \in DOMAIN input : input[k] \in Rows
    BY <1>1, InputDivided
  <1>6. DOMAIN local = Team /\ table \in Tables /\ SoundMap(local[t])
    BY <1>1, <1>2 DEF ControlOK, MapsSound
  <1>7. /\ DOMAIN local' = Team /\ local'[t] = q
        /\ \A u \in Team : u # t => local'[u] = local[u]
    BY <1>2, <1>6
  <1>8. /\ first \in Int /\ m.end \in Int /\ first - 1 <= m.end
        /\ here \subseteq DOMAIN input
        /\ Behind(morsels, cursor + 1) = PositionsSeen \union here
        /\ PositionsSeen \cap here = {} /\ PositionsSeen \subseteq DOMAIN input
        /\ IsFiniteSet(PositionsSeen) /\ IsFiniteSet(here)
    BY <1>1, <1>2, NextMorsel
  <1>9. PositionsSeen' = PositionsSeen \union here
    <2>1. PositionsSeen' = Behind(morsels, cursor + 1)
      BY <1>2, <1>4 DEF PositionsSeen, IsMorsel, MorselAt, PositionsOf, Behind, Positions
    <2> QED BY <1>8, <2>1
  <1> HIDE DEF m, first
  <1>10. SoundMap(q) /\ \A r \in Rows : \A c : Gains(q, local[t], here, r, c)
    <2>1. \A k \in first .. m.end : input[k] \in Rows
      BY <1>5, <1>8
    <2> DEFINE map == local[t]
               last == m.end
    <2>2. SoundMap(map) /\ first \in Int /\ last \in Int /\ first - 1 <= last
          /\ \A k \in first .. last : input[k] \in Rows
      BY <1>6, <1>8, <2>1
    <2> HIDE DEF map, last
    <2>3. SoundMap(GroupRows(map, first, last))
      BY <1>6, <2>2, GroupRowsCount
    <2>4. \A r \in Rows : \A c : Gains(GroupRows(map, first, last), map, first .. last, r, c)
      BY <1>6, <2>2, GroupRowsCount
    <2> QED BY <2>3, <2>4 DEF map, last
  <1> HIDE DEF q, here
  <1>11. ControlOK'
    BY <1>1, <1>2, <1>4, <1>7 DEF ControlOK, Rows
  <1>12. WorkShared'
    <2>1. Gone = {} /\ Gone' = Gone
      BY <1>1, <1>2 DEF WorkShared, IsMorsel, Gone
    <2>2. Cardinality(Gone') = 0
      BY <2>1, FS_EmptySet
    <2> QED BY <1>1, <1>2, <1>4, <1>5, <2>1, <2>2 DEF WorkShared
  <1>13. SlotsFilled'
    BY <1>1, <1>2, <1>7 DEF SlotsFilled, Joined, NoMap
  <1>14. MapsSound'
    BY <1>1, <1>2, <1>7, <1>10, SoundKept DEF MapsSound
  <1>15. ASSUME NEW r \in Rows, NEW c \in Categories
         PROVE  TimesCounted(r, c)' =
                  IF c = table.category[r]
                  THEN Cardinality({k \in PositionsSeen' : input[k] = r}) ELSE 0
    <2> DEFINE f == [u \in Team |-> CountedIn(local[u], r, c)]
               h == [u \in Team |-> CountedIn(local'[u], r, c)]
               s == SumFunctionOnSet([u \in DOMAIN slots |-> CountedIn(slots[u], r, c)], Pending)
               o == CountedIn(finalMap, r, c)
               n == CountedIn(local[t], r, c)
               add == Occurs(here, input, r)
               seen == Occurs(PositionsSeen, input, r)
               met == Occurs(PositionsSeen', input, r)
    <2>1. /\ IsFiniteSet(Team) /\ n \in Nat /\ o \in Nat /\ \A u \in Team : f[u] \in Int
          /\ s \in Int
      <3>1. /\ IsFiniteSet(Team) /\ o \in Nat
            /\ \A u \in Team : CountedIn(local[u], r, c) \in Nat
            /\ \A u \in DOMAIN slots : CountedIn(slots[u], r, c) \in Nat
            /\ IsFiniteSet(Pending) /\ Pending \subseteq DOMAIN slots
        BY <1>1, CountNumbers
      <3>2. s \in Int
        BY <3>1, SumInt
      <3> QED BY <1>2, <3>1, <3>2
    <2>2. met = seen + add /\ add \in Nat
      <3>1. met = seen + add
        BY <1>8, <1>9, OccurrencesAdd
      <3>2. add \in Nat
        BY <1>8, FS_Subset, FS_CardinalityType DEF Occurs
      <3> QED BY <3>1, <3>2
    <2>3. TimesCounted(r, c) = SumFunctionOnSet(f, Team) + s + o
      BY DEF TimesCounted
    <2>4. TimesCounted(r, c)' = SumFunctionOnSet(h, Team) + s + o
      <3>1. Pending' = Pending
        BY <1>2 DEF Pending
      <3> QED BY <1>2, <3>1 DEF TimesCounted, CountedIn, Lookup, NewMetrics, Rows
    <2>5. TimesCounted(r, c) = IF c = table.category[r] THEN seen ELSE 0
      BY <1>1, <1>3 DEF RowsGroupedOnce, Occurs
    <2>6. /\ f[t] = n /\ h[t] = n + (IF c = table.category[r] THEN add ELSE 0)
          /\ \A u \in Team : u # t => f[u] = h[u]
      BY <1>2, <1>7, <1>10 DEF Gains
    <2> HIDE DEF f, h, s, o, n, add, seen, met
    <2>7. \A u \in Team : f[u] \in Int /\ h[u] \in Int
      <3>1. h[t] \in Int
        BY <2>1, <2>2, <2>6
      <3> QED BY <2>1, <2>6, <3>1
    <2>8. SumFunctionOnSet(h, Team) = SumFunctionOnSet(f, Team) + h[t] - f[t]
      BY <1>2, <2>1, <2>6, <2>7, SumChange
    <2>9. SumFunctionOnSet(f, Team) \in Int
      BY <2>1, SumInt
    <2>10. TimesCounted(r, c)' = IF c = table.category[r] THEN met ELSE 0
      BY <2>1, <2>2, <2>3, <2>4, <2>5, <2>6, <2>8, <2>9
    <2> QED BY <2>10 DEF met, Occurs
  <1>16. RowsGroupedOnce'
    BY <1>2, <1>15 DEF RowsGroupedOnce, Rows
  <1>17. MapsOK'
    <2>1. (\A u \in Team' : IsMap(local[u])') /\ IsMap(finalMap)'
      BY <1>3, <1>11, <1>12, <1>14, <1>16, LiveBoundedNext
    <2>2. \A u \in DOMAIN slots' : IsMap(slots[u])'
      BY <1>1, <1>2 DEF MapsOK, IsMap, Metrics, Rows
    <2> QED BY <2>1, <2>2 DEF MapsOK
  <1> QED BY <1>11, <1>12, <1>13, <1>14, <1>16, <1>17 DEF GroupInv

(* One slot is merged: the final map gains what is no longer pending. *)
LEMMA MergeInv ==
  ASSUME IInv, MergeSlot
  PROVE  GroupInv'
  <1>1. ControlOK /\ MapsOK /\ MapsSound /\ WorkShared /\ SlotsFilled /\ RowsGroupedOnce
    BY DEF IInv, GroupInv
  <1>2. /\ UNCHANGED <<totalRows, morselSize, morsels, cursor, numThreads, pc, singleTaken>>
        /\ UNCHANGED <<local, slots, busy, whole, input, table>>
        /\ Team' = Team /\ busy /\ Joined /\ nextSlot < numThreads
        /\ finalMap' = MergeMaps(finalMap, slots[nextSlot]) /\ nextSlot' = nextSlot + 1
    BY DEF MergeSlot, allocatorVars, teamVars, Team
  <1>3. nextSlot \in Nat /\ numThreads \in Nat /\ nextSlot \in Team /\ 0 \in Team
    BY <1>1, <1>2, TeamAssumption DEF ControlOK, Team
  <1>4. DOMAIN slots = Team
    <2>1. \A u \in Team : pc[u] = "done"
      BY <1>2 DEF Joined
    <2> QED BY <1>2, <1>3, <2>1 DEF IInv, TeamInv, SingleTaken
  <1>5. SoundMap(finalMap) /\ SoundMap(slots[nextSlot]) /\ table \in Tables
    BY <1>1, <1>3, <1>4 DEF ControlOK, MapsSound
  <1>6. /\ SoundMap(MergeMaps(finalMap, slots[nextSlot]))
        /\ \A r \in Rows : \A c :
             CountedIn(MergeMaps(finalMap, slots[nextSlot]), r, c) =
               CountedIn(finalMap, r, c) + CountedIn(slots[nextSlot], r, c)
    BY <1>5, MergeSound
  <1>7. ControlOK'
    <2>1. nextSlot' \in 0 .. numThreads
      BY <1>2, <1>3
    <2> QED BY <1>1, <1>2, <2>1 DEF ControlOK, Rows
  <1>8. WorkShared'
    <2>1. Gone' = Gone
      BY <1>2 DEF Gone
    <2> QED BY <1>1, <1>2, <2>1 DEF WorkShared, IsMorsel
  <1>9. SlotsFilled'
    BY <1>1, <1>2 DEF SlotsFilled, Joined, NoMap
  <1>10. MapsSound'
    BY <1>1, <1>2, <1>6, SoundKept DEF MapsSound
  <1>11. PositionsSeen' = PositionsSeen
    BY <1>2 DEF PositionsSeen, IsMorsel, MorselAt
  <1>12. ASSUME NEW r \in Rows, NEW c PROVE TimesCounted(r, c)' = TimesCounted(r, c)
    <2> DEFINE g == [u \in DOMAIN slots |-> CountedIn(slots[u], r, c)]
               l == SumFunctionOnSet([u \in Team |-> CountedIn(local[u], r, c)], Team)
               o == CountedIn(finalMap, r, c)
               p == CountedIn(finalMap', r, c)
               n == CountedIn(slots[nextSlot], r, c)
    <2>1. /\ IsFiniteSet(Pending) /\ Pending \subseteq DOMAIN slots /\ IsFiniteSet(Team)
          /\ \A u \in Team : CountedIn(local[u], r, c) \in Nat
          /\ \A u \in DOMAIN slots : CountedIn(slots[u], r, c) \in Nat
          /\ o \in Nat
      BY <1>1, CountNumbers
    <2>2. nextSlot \in Pending /\ Pending' = Pending \ {nextSlot}
      BY <1>2, <1>3, <1>4 DEF Pending, Team
    <2>3. p = o + n
      BY <1>2, <1>6
    <2>4. TimesCounted(r, c) = l + SumFunctionOnSet(g, Pending) + o
      BY DEF TimesCounted
    <2>5. TimesCounted(r, c)' = l + SumFunctionOnSet(g, Pending') + p
      BY <1>2 DEF TimesCounted, CountedIn, Lookup, NewMetrics, Rows
    <2>6. l \in Int
      BY <2>1, SumInt
    <2>7. \A u \in Pending : g[u] \in Int
      BY <2>1
    <2>8. g[nextSlot] = n /\ n \in Nat
      BY <1>3, <1>4, <2>1
    <2> HIDE DEF g, l, o, p, n
    <2>9. SumFunctionOnSet(g, Pending) = g[nextSlot] + SumFunctionOnSet(g, Pending \ {nextSlot})
      BY <2>1, <2>2, <2>7, SumTakeOut
    <2>10. SumFunctionOnSet(g, Pending') \in Int
      <3>1. IsFiniteSet(Pending') /\ \A u \in Pending' : g[u] \in Int
        BY <2>1, <2>2, <2>7, FS_Subset
      <3> QED BY <3>1, SumInt
    <2> QED BY <2>1, <2>2, <2>3, <2>4, <2>5, <2>6, <2>8, <2>9, <2>10
  <1>13. RowsGroupedOnce'
    BY <1>1, <1>2, <1>11, <1>12 DEF RowsGroupedOnce, Rows
  <1>14. MapsOK'
    <2>1. (\A u \in Team' : IsMap(local[u])') /\ IsMap(finalMap)'
      BY <1>2, <1>7, <1>8, <1>10, <1>13, LiveBoundedNext
    <2>2. \A u \in DOMAIN slots' : IsMap(slots[u])'
      BY <1>1, <1>2 DEF MapsOK, IsMap, Metrics, Rows
    <2> QED BY <2>1, <2>2 DEF MapsOK
  <1> QED BY <1>7, <1>8, <1>9, <1>10, <1>13, <1>14 DEF GroupInv

LEMMA ReturnInv ==
  ASSUME IInv, Return
  PROVE  GroupInv'
  <1>1. ControlOK /\ MapsOK /\ MapsSound /\ WorkShared /\ SlotsFilled
    BY DEF IInv, GroupInv
  <1>2. /\ UNCHANGED <<totalRows, morselSize, morsels, cursor, numThreads, pc, singleTaken>>
        /\ UNCHANGED <<local, whole, input, table, nextSlot>> /\ finalMap' = NoMap
        /\ Team' = Team /\ Joined /\ busy' = FALSE /\ slots' = NoSlots /\ DOMAIN slots' = {}
    BY DEF Return, Release, allocatorVars, Team, NoSlots
  <1>3. ControlOK'
    BY <1>1, <1>2 DEF ControlOK, Rows
  <1>4. WorkShared'
    <2>1. Gone' = Gone
      BY <1>2 DEF Gone
    <2> QED BY <1>1, <1>2, <2>1 DEF WorkShared, IsMorsel
  <1>5. SlotsFilled'
    BY <1>1, <1>2 DEF SlotsFilled, Joined, NoMap
  <1>6. DOMAIN NoMap = {}
    BY DEF NoMap
  <1>7. MapsOK'
    BY <1>1, <1>2, <1>6 DEF MapsOK, IsMap, Metrics, Rows
  <1>8. MapsSound'
    BY <1>1, <1>2, SoundKept, NoMapSound DEF MapsSound
  <1> QED BY <1>2, <1>3, <1>4, <1>5, <1>7, <1>8 DEF GroupInv, RowsGroupedOnce

LEMMA StutterInv ==
  ASSUME IInv, UNCHANGED vars
  PROVE  GroupInv'
  <1>1. ControlOK /\ MapsOK /\ MapsSound /\ WorkShared /\ SlotsFilled /\ RowsGroupedOnce
    BY DEF IInv, GroupInv
  <1>2. /\ UNCHANGED <<totalRows, morselSize, morsels, cursor, numThreads, pc, singleTaken>>
        /\ UNCHANGED <<local, slots, busy, whole, input, table, finalMap, nextSlot>>
        /\ Team' = Team
    BY DEF vars, allocatorVars, teamVars, queryVars, Team
  <1>3. ControlOK'
    BY <1>1, <1>2 DEF ControlOK, Rows
  <1>4. WorkShared'
    <2>1. Gone' = Gone
      BY <1>2 DEF Gone
    <2> QED BY <1>1, <1>2, <2>1 DEF WorkShared, IsMorsel
  <1>5. SlotsFilled'
    BY <1>1, <1>2 DEF SlotsFilled, Joined, NoMap
  <1>6. PositionsSeen' = PositionsSeen
    BY <1>2 DEF PositionsSeen, IsMorsel, MorselAt
  <1> QED BY <1>1, <1>2, <1>3, <1>4, <1>5, <1>6, HeldStill DEF GroupInv, StillHeld

(* The invariant holds in every state of every execution. *)
THEOREM GroupByInvariance == Spec => []IInv
  <1>1. IInv /\ [Next]_vars => IInv'
    <2> SUFFICES ASSUME IInv, [Next]_vars PROVE IInv'
      OBVIOUS
    <2>1. CASE \/ \E n \in 1 .. MaxThreads, rows \in 0 .. MaxRows : CallTable(n, rows)
               \/ \E n \in 1 .. MaxThreads, s \in Selections : CallSelection(n, s)
      <3>1. PICK n \in 1 .. MaxThreads :
              \/ \E rows \in 0 .. MaxRows : CallTable(n, rows)
              \/ \E s \in Selections : CallSelection(n, s)
        BY <2>1
      <3>2. n \in Nat \ {0} /\ Begin(n)
        BY <3>1, TeamAssumption DEF CallTable, CallSelection
      <3>3. table \in Tables
        BY DEF IInv, GroupInv, ControlOK
      <3> QED BY <3>1, <3>2, <3>3, CallInv, ForkedTeamInv DEF IInv
    <2>2. ASSUME NEW t, TeamStep(t) PROVE IInv'
      <3>1. UNCHANGED <<allocatorVars, queryVars>>
        BY <2>2 DEF TeamStep
      <3>2. GroupInv'
        BY <2>2, <3>1, ControlInv, ResizeInv, PublishInv DEF TeamStep
      <3> QED BY <2>2, <3>2, StepTeamInv DEF IInv
    <2>3. ASSUME NEW t, Work(t) \/ LeaveLoop(t) PROVE IInv'
      BY <2>3, WorkInv, LeaveInv, WorkTeamInv DEF IInv
    <2>4. CASE MergeSlot \/ Return \/ UNCHANGED vars
      BY <2>4, MergeInv, ReturnInv, StutterInv, CallerTeamInv DEF IInv
    <2> QED BY <2>1, <2>2, <2>3, <2>4 DEF Next
  <1> QED BY InitInv, <1>1, PTL DEF Spec

-----------------------------------------------------------------------------
(* Whatever the threads do, a map has groups of the table's categories, no
   count goes beyond the rows of a table, and the cursor does not wrap.     *)
THEOREM GroupByTypeCorrect == Spec => []TypeOK
  <1>1. IInv => TypeOK
    BY TypeParts DEF IInv, GroupInv
  <1> QED BY GroupByInvariance, <1>1, PTL

(* However the threads interleave their rows, the moves of their maps and the
   merge, each row that has been handed out is counted in the group of its
   category exactly as often as the input has it, and in no other group.    *)
THEOREM RowsCountedOnce == Spec => []RowsGroupedOnce
  BY GroupByInvariance, PTL DEF IInv, GroupInv

(* A group agrees with itself in every map that has not been merged: its
   count is that of its rows, and its extrema are theirs.                   *)
THEOREM GroupsAgree == Spec => []GroupsConsistent
  <1>1. IInv => GroupsConsistent
    <2> SUFFICES ASSUME IInv, NEW map \in LiveMaps, NEW c \in DOMAIN map
                 PROVE  /\ map[c].count > 0
                        /\ map[c].count = SumFunctionOnSet(map[c].sum, Rows)
                        /\ map[c].min = Min(PricesIn(map[c]))
                        /\ map[c].max = Max(PricesIn(map[c]))
      BY DEF GroupsConsistent, PricesIn
    <2>1. SoundMap(map) /\ table \in Tables
      BY DEF IInv, GroupInv, MapsSound, LiveMaps, Pending, ControlOK
    <2>2. Sound(map[c]) /\ map[c].count > 0
      BY <2>1 DEF SoundMap
    <2>3. map[c].count = SumFunctionOnSet(map[c].sum, Rows)
      BY <2>2 DEF Sound
    <2> QED BY <2>1, <2>2, <2>3, SoundExtrema
  <1> QED BY GroupByInvariance, <1>1, PTL

-----------------------------------------------------------------------------
(***************************************************************************)
(* Every step of a parallel GROUP BY is a step of the sequential           *)
(* specification, or none.  What is left of ImplementsSequentialGroupBy is *)
(* that every call returns.                                                *)
(***************************************************************************)
AnswersAgree == G!Init /\ [][G!Call \/ G!Return]_(G!groupVars)

IsAscending(s, S) ==
  /\ s \in [1 .. Cardinality(S) -> S]
  /\ Range(s) = S
  /\ \A i, j \in DOMAIN s : i < j => s[i] < s[j]

(* A finite set of integers can be sorted. *)
LEMMA AscendingExists ==
  ASSUME NEW S, IsFiniteSet(S), S \subseteq Int
  PROVE  IsAscending(Ascending(S), S) /\ Cardinality(S) \in Nat
  <1> DEFINE good == {T \in SUBSET S : \E s : IsAscending(s, T)}
  <1>1. ASSUME NEW T \in SUBSET S, \A U \in SUBSET T : U # T => U \in good
        PROVE  T \in good
    <2>1. CASE T = {}
      <3>1. Cardinality(T) = 0
        BY <2>1, FS_EmptySet
      <3>2. IsAscending([k \in 1 .. 0 |-> k], T)
        BY <2>1, <3>1 DEF IsAscending, Range
      <3> QED BY <3>2
    <2>2. CASE T # {}
      <3>1. IsFiniteSet(T)
        BY FS_Subset
      <3>2. PICK m : IsGreatest(m, T)
        BY <2>2, <3>1, GreatestExists
      <3> DEFINE U == T \ {m}
                 n == Cardinality(U)
      <3>3. m \in T /\ U \in SUBSET T /\ U # T /\ IsFiniteSet(U) /\ T = U \union {m}
            /\ \A x \in U : x \in Int /\ m \in Int /\ x < m
        BY <3>1, <3>2, FS_Subset DEF IsGreatest
      <3>4. PICK s : IsAscending(s, U)
        BY <1>1, <3>3
      <3>5. n \in Nat /\ Cardinality(T) = n + 1
        BY <3>3, FS_CardinalityType, FS_AddElement
      <3>6. /\ s \in [1 .. n -> U] /\ DOMAIN s = 1 .. n /\ {s[i] : i \in 1 .. n} = U
            /\ \A i, j \in 1 .. n : i < j => s[i] < s[j]
        BY <3>4 DEF IsAscending, Range
      <3> HIDE DEF U, n
      <3> DEFINE h == [k \in 1 .. (n + 1) |-> IF k = n + 1 THEN m ELSE s[k]]
      <3>7. /\ DOMAIN h = 1 .. (n + 1) /\ h[n + 1] = m
            /\ \A k \in 1 .. n : k \in 1 .. (n + 1) /\ h[k] = s[k]
            /\ \A k \in 1 .. (n + 1) : k = n + 1 \/ k \in 1 .. n
            /\ n + 1 \in 1 .. (n + 1)
        BY <3>5
      <3> HIDE DEF h
      <3>8. \A k \in 1 .. (n + 1) : h[k] \in T
        BY <3>3, <3>6, <3>7
      <3>9. h \in [1 .. (n + 1) -> T]
        <4>1. h = [k \in 1 .. (n + 1) |-> h[k]]
          BY DEF h
        <4> QED BY <3>8, <4>1
      <3>10. Range(h) = T
        <4>1. ASSUME NEW x \in T PROVE \E k \in 1 .. (n + 1) : h[k] = x
          <5>1. CASE x = m
            BY <3>7, <5>1
          <5>2. CASE x # m
            <6>1. x \in U
              BY <3>3, <5>2
            <6>2. PICK k \in 1 .. n : s[k] = x
              BY <3>6, <6>1
            <6> QED BY <3>7, <6>2
          <5> QED BY <5>1, <5>2
        <4> QED BY <3>7, <3>8, <4>1 DEF Range
      <3>11. ASSUME NEW i \in DOMAIN h, NEW j \in DOMAIN h, i < j PROVE h[i] < h[j]
        <4>1. i \in 1 .. n
          BY <3>5, <3>7, <3>11
        <4>2. CASE j = n + 1
          <5>1. s[i] \in U /\ h[i] = s[i] /\ h[j] = m
            BY <3>6, <3>7, <4>1, <4>2
          <5> QED BY <3>3, <5>1
        <4>3. CASE j \in 1 .. n
          BY <3>6, <3>7, <3>11, <4>1, <4>3
        <4> QED BY <3>7, <4>2, <4>3
      <3>12. IsAscending(h, T)
        BY <3>5, <3>9, <3>10, <3>11 DEF IsAscending
      <3> QED BY <3>12
    <2> QED BY <2>1, <2>2
  <1> HIDE DEF good
  <1>2. \A T \in SUBSET S : T \in good
    BY <1>1, SubsetInduction
  <1>3. S \in good
    BY <1>2
  <1>4. \E s : IsAscending(s, S)
    BY <1>3 DEF good
  <1>5. \E s \in [1 .. Cardinality(S) -> S] :
          Range(s) = S /\ \A i, j \in DOMAIN s : i < j => s[i] < s[j]
    BY <1>4 DEF IsAscending
  <1> QED BY <1>5, FS_CardinalityType DEF Ascending, IsAscending

(* When all the slots are merged, the final map has counted the input. *)
LEMMA AllCounted ==
  ASSUME IInv, busy, Joined, nextSlot = numThreads, NEW r \in Rows, NEW c \in Categories
  PROVE  CountedIn(finalMap, r, c) =
           IF c = table.category[r] THEN Occurs(DOMAIN input, input, r) ELSE 0
  <1> DEFINE f == [t \in Team |-> CountedIn(local[t], r, c)]
             g == [t \in DOMAIN slots |-> CountedIn(slots[t], r, c)]
             o == CountedIn(finalMap, r, c)
  <1>1. ControlOK /\ MapsOK /\ MapsSound /\ WorkShared /\ SlotsFilled /\ RowsGroupedOnce
    BY DEF IInv, GroupInv
  <1>2. \A t \in Team : pc[t] = "done"
    BY DEF Joined
  <1>3. /\ cursor \in Nat /\ Len(input) \in Nat /\ DOMAIN input = 1 .. Len(input)
        /\ Divided(Len(input), morsels)
    BY <1>1, InputDivided
  <1>4. PositionsSeen = DOMAIN input
    <2>1. 0 \in Team
      BY <1>1, TeamAssumption DEF ControlOK, Team
    <2>2. ~(cursor < Len(morsels))
      BY <1>1, <1>2, <2>1 DEF WorkShared, IsMorsel, Gone
    <2> QED BY <1>3, <2>2, BehindEnd, SeenIsBehind
  <1>5. IsFiniteSet(Team) /\ DOMAIN slots \subseteq Team /\ o \in Nat
        /\ numThreads \in Nat /\ Team = 0 .. (numThreads - 1)
    BY <1>1, CountNumbers
  <1>6. \A t \in Team : f[t] = 0
    BY <1>1, <1>2, NoMapSound DEF SlotsFilled
  <1>7. Pending = {}
    BY <1>5 DEF Pending
  <1>8. TimesCounted(r, c) = SumFunctionOnSet(f, Team) + SumFunctionOnSet(g, Pending) + o
    BY DEF TimesCounted
  <1>9. TimesCounted(r, c) = IF c = table.category[r] THEN Occurs(DOMAIN input, input, r) ELSE 0
    BY <1>1, <1>4 DEF RowsGroupedOnce, Occurs
  <1> HIDE DEF f, g, o
  <1>10. SumFunctionOnSet(f, Team) = 0 /\ SumFunctionOnSet(g, Pending) = 0
    BY <1>5, <1>6, <1>7, SumZero, SumEmpty
  <1>11. o = TimesCounted(r, c)
    BY <1>5, <1>8, <1>10
  <1> QED BY <1>9, <1>11 DEF o

LEMMA OccursAtLeastOnce ==
  ASSUME NEW P, IsFiniteSet(P), NEW s, NEW r
  PROVE  /\ Occurs(P, s, r) \in Nat
         /\ Occurs(P, s, r) > 0 <=> \E k \in P : s[k] = r
  <1> DEFINE A == {k \in P : s[k] = r}
  <1>1. IsFiniteSet(A)
    BY FS_Subset
  <1>2. Cardinality(A) \in Nat /\ (Cardinality(A) = 0 <=> A = {})
    BY <1>1, FS_CardinalityType, FS_EmptySet
  <1> QED BY <1>2 DEF Occurs

(* The group of a category, when all has been merged, is the one the
   sequential engine computes.                                              *)
LEMMA GroupIsRight ==
  ASSUME IInv, busy, Joined, nextSlot = numThreads, NEW c \in DOMAIN finalMap
  PROVE  G!IsGroup(GroupResult(finalMap, c))
  <1> DEFINE m == finalMap[c]
             here == {k \in DOMAIN input : table.category[input[k]] = c}
             prices == {table.price[input[k]] : k \in here}
             n == [r \in Rows |-> Occurs(here, input, r)]
  <1>1. ControlOK /\ MapsSound /\ WorkShared /\ table \in Tables
    BY DEF IInv, GroupInv, ControlOK
  <1>2. c \in Categories /\ Sound(m) /\ m.count > 0
    BY <1>1 DEF MapsSound, SoundMap
  <1>3. /\ DOMAIN input = 1 .. Len(input) /\ Len(input) \in Nat
        /\ \A k \in DOMAIN input : input[k] \in Rows
    BY <1>1, InputDivided
  <1>4. IsFiniteSet(DOMAIN input)
    BY <1>3, FS_Interval
  <1>5. IsFiniteSet(here) /\ \A k \in here : input[k] \in Rows
    BY <1>3, <1>4, FS_Subset
  <1>6. ASSUME NEW r \in Rows PROVE m.sum[r] = Occurs(here, input, r)
    <2>1. m.sum[r] = CountedIn(finalMap, r, c)
      BY DEF CountedIn, Lookup
    <2>2. CASE c = table.category[r]
      <3>1. {k \in DOMAIN input : input[k] = r} = {k \in here : input[k] = r}
        BY <2>2
      <3>2. m.sum[r] = Occurs(DOMAIN input, input, r)
        BY <1>2, <2>1, <2>2, AllCounted
      <3> QED BY <3>1, <3>2 DEF Occurs
    <2>3. CASE c # table.category[r]
      <3>1. {k \in here : input[k] = r} = {}
        BY <2>3
      <3>2. m.sum[r] = 0
        BY <1>2, <2>1, <2>3, AllCounted
      <3> QED BY <3>1, <3>2, FS_EmptySet DEF Occurs
    <2> QED BY <2>2, <2>3
  <1>7. m.sum \in [Rows -> Nat] /\ m.count = SumFunctionOnSet(m.sum, Rows)
    BY <1>2 DEF Sound, NatMetrics
  <1>8. m.sum = n
    BY <1>6, <1>7
  <1>9. m.count = Cardinality(here)
    <2>1. Cardinality(here) = SumFunctionOnSet(n, Rows)
      <3> HIDE DEF here
      <3> QED BY <1>5, RowsFinite, CountByValue
    <2> QED BY <1>7, <1>8, <2>1
  <1>10. here # {}
    BY <1>2, <1>9, FS_EmptySet
  <1>11. PricesIn(m) = prices
    <2> HIDE DEF here, m
    <2>1. \A r \in Rows : m.sum[r] > 0 <=> \E k \in here : input[k] = r
      BY <1>5, <1>6, OccursAtLeastOnce
    <2>2. PricesIn(m) \subseteq prices
      BY <2>1 DEF PricesIn
    <2>3. prices \subseteq PricesIn(m)
      BY <1>5, <2>1 DEF PricesIn
    <2> QED BY <2>2, <2>3
  <1>12. IsLeast(m.min, prices) /\ IsGreatest(m.max, prices)
    <2>1. IsLeast(m.min, PricesIn(m)) /\ IsGreatest(m.max, PricesIn(m))
      BY <1>1, <1>2, SoundExtrema
    <2> QED BY <1>11, <2>1
  <1>13. \A p \in prices : p \in Int
    BY <1>1, <1>11, PricesTyped
  <1>14. /\ \A p \in prices : m.min <= p
         /\ \A p \in prices : m.max >= p
         /\ m.min \in prices /\ m.max \in prices
    BY <1>12 DEF IsLeast, IsGreatest
  <1> DEFINE row == GroupResult(finalMap, c)
  <1>15. /\ row.category = c /\ row.count = m.count /\ row.sum = m.sum
         /\ row.min = m.min /\ row.max = m.max
    BY DEF GroupResult
  <1>16. G!Positions(row.category) = here
    BY <1>15 DEF G!Positions
  <1>17. \A S : G!Cardinality(S) = Cardinality(S)
    BY DEF G!Cardinality, Cardinality
  <1>18. row.sum = [r \in G!Rows |-> G!Cardinality({k \in here : input[k] = r})]
    BY <1>8, <1>15, <1>17 DEF G!Rows, Rows, Occurs
  <1> HIDE DEF m, here, prices, n, row
  <1>19. G!IsGroup(row)
    BY <1>9, <1>10, <1>14, <1>15, <1>16, <1>17, <1>18 DEF G!IsGroup, prices
  <1> QED BY <1>19 DEF row

(* What is returned has a row for each category of the input, ascending. *)
LEMMA ReturnAgrees ==
  ASSUME IInv, Return
  PROVE  G!Return
  <1> DEFINE S == DOMAIN finalMap
             n == Cardinality(S)
             order == Ascending(S)
             cats == {table.category[input[k]] : k \in DOMAIN input}
  <1>1. /\ busy /\ busy' = FALSE /\ Joined /\ nextSlot = numThreads
        /\ UNCHANGED <<input, table>>
        /\ result' = [i \in 1 .. n |-> GroupResult(finalMap, order[i])]
    BY DEF Return, SortedRows
  <1>2. ControlOK /\ MapsSound /\ WorkShared /\ table \in Tables
    BY DEF IInv, GroupInv, ControlOK
  <1>3. /\ DOMAIN input = 1 .. Len(input) /\ Len(input) \in Nat
        /\ \A k \in DOMAIN input : input[k] \in Rows
    BY <1>2, InputDivided
  <1>4. S \subseteq cats
    <2> SUFFICES ASSUME NEW c \in S PROVE c \in cats
      OBVIOUS
    <2>1. G!IsGroup(GroupResult(finalMap, c))
      BY <1>1, GroupIsRight
    <2>2. GroupResult(finalMap, c).category = c
      BY DEF GroupResult
    <2>3. G!Positions(c) # {}
      BY <2>1, <2>2 DEF G!IsGroup
    <2> QED BY <2>3 DEF G!Positions
  <1>5. cats \subseteq S
    <2> SUFFICES ASSUME NEW k \in DOMAIN input PROVE table.category[input[k]] \in S
      OBVIOUS
    <2> DEFINE r == input[k]
               c == table.category[r]
    <2>1. r \in Rows /\ c \in Categories
      BY <1>2, <1>3, TableColumns
    <2>2. IsFiniteSet(DOMAIN input)
      BY <1>3, FS_Interval
    <2>3. Occurs(DOMAIN input, input, r) > 0
      BY <2>2, OccursAtLeastOnce
    <2>4. CountedIn(finalMap, r, c) = Occurs(DOMAIN input, input, r)
      BY <1>1, <2>1, AllCounted
    <2>5. CountedIn(finalMap, r, c) # 0
      BY <2>2, <2>3, <2>4, OccursAtLeastOnce
    <2> QED BY <2>1, <2>5, CountedHasGroup
  <1>6. S \subseteq Int /\ IsFiniteSet(S)
    <2>1. S \subseteq Int
      BY <1>2, GroupByAssumption DEF MapsSound, SoundMap
    <2>2. IsFiniteSet(DOMAIN input)
      BY <1>3, FS_Interval
    <2>3. IsFiniteSet(cats)
      <3> DEFINE f == [k \in DOMAIN input |-> table.category[input[k]]]
      <3>1. f \in [DOMAIN input -> cats] /\ \A x \in cats : \E k \in DOMAIN input : f[k] = x
        OBVIOUS
      <3> HIDE DEF f, cats
      <3>2. f \in Surjection(DOMAIN input, cats)
        BY <3>1, Fun_IsSurj
      <3> QED BY <2>2, <3>2, FS_Surjection
    <2> QED BY <1>4, <2>1, <2>3, FS_Subset
  <1>7. IsAscending(order, S) /\ n \in Nat
    BY <1>6, AscendingExists
  <1>8. /\ order \in [1 .. n -> S] /\ DOMAIN order = 1 .. n /\ {order[i] : i \in 1 .. n} = S
        /\ \A i, j \in 1 .. n : i < j => order[i] < order[j]
    BY <1>7 DEF IsAscending, Range
  <1>9. /\ DOMAIN result' = 1 .. n
        /\ \A i \in 1 .. n : result'[i] = GroupResult(finalMap, order[i])
        /\ \A i \in 1 .. n : result'[i].category = order[i] /\ order[i] \in S
    BY <1>1, <1>8 DEF GroupResult
  <1>10. \A i \in DOMAIN result' : G!IsGroup(result'[i])
    BY <1>1, <1>9, GroupIsRight
  <1> HIDE DEF S, n, order, cats
  <1>11. {result'[i].category : i \in DOMAIN result'} = cats
    BY <1>4, <1>5, <1>8, <1>9
  <1>12. \A i, j \in DOMAIN result' : i < j => result'[i].category < result'[j].category
    BY <1>8, <1>9
  <1>13. G!IsGrouping(result')
    BY <1>10, <1>11, <1>12 DEF G!IsGrouping, cats
  <1> QED BY <1>1, <1>13 DEF G!Return

(* For every team, table, selection and interleaving a parallel GROUP BY
   answers with the very rows the sequential one answers with, sorted.      *)
THEOREM AnswersAreSequential == Spec => AnswersAgree
  <1>1. Init => G!Init
    BY DEF Init, G!Init
  <1>2. IInv /\ [Next]_vars => [G!Call \/ G!Return]_(G!groupVars)
    <2> SUFFICES ASSUME IInv, [Next]_vars
                 PROVE  G!Call \/ G!Return \/ UNCHANGED G!groupVars
      OBVIOUS
    <2>1. ASSUME NEW n \in 1 .. MaxThreads, Begin(n) PROVE G!Call
      BY <2>1 DEF Begin, G!Call
    <2>2. ASSUME NEW n \in 1 .. MaxThreads, NEW rows \in 0 .. MaxRows, CallTable(n, rows)
          PROVE  G!Call
      BY <2>1, <2>2 DEF CallTable
    <2>3. ASSUME NEW n \in 1 .. MaxThreads, NEW s \in Selections, CallSelection(n, s)
          PROVE  G!Call
      BY <2>1, <2>3 DEF CallSelection
    <2>4. ASSUME NEW t, TeamStep(t) \/ Work(t) \/ LeaveLoop(t) PROVE UNCHANGED G!groupVars
      <3>1. UNCHANGED queryVars
        BY <2>4 DEF TeamStep, Work, LeaveLoop
      <3> QED BY <3>1 DEF queryVars, G!groupVars
    <2>5. CASE MergeSlot
      BY <2>5 DEF MergeSlot, G!groupVars
    <2>6. CASE Return
      BY <2>6, ReturnAgrees
    <2>7. CASE UNCHANGED vars
      BY <2>7 DEF vars, queryVars, G!groupVars
    <2> QED BY <2>2, <2>3, <2>4, <2>5, <2>6, <2>7 DEF Next
  <1> QED BY GroupByInvariance, <1>1, <1>2, PTL DEF Spec, AnswersAgree
===============================================================================
