----------------------------- MODULE CommonLemmas -----------------------------
(***************************************************************************)
(* Facts the proofs of several components need, none of which is about the *)
(* code: induction over the subsets of a finite set, the sum of a function *)
(* over a finite set, and the division of an interval into tiles of one    *)
(* size, of which only the last may be shorter.                            *)
(***************************************************************************)
EXTENDS Integers, Sequences, Functions, FiniteSetTheorems, TLAPS


(* What holds of a finite set whenever it holds of all its strict subsets
   holds of every finite set: good is the set of those of which it holds.   *)
LEMMA SubsetInduction ==
  ASSUME NEW S, IsFiniteSet(S), NEW good,
         \A T \in SUBSET S : (\A U \in SUBSET T : U # T => U \in good) => T \in good
  PROVE  \A T \in SUBSET S : T \in good
  <1> DEFINE bad == {T \in SUBSET S : T \notin good}
  <1> SUFFICES ASSUME bad # {} PROVE FALSE
    OBVIOUS
  <1>1. bad \subseteq FiniteSubsetsOf(S)
    BY FS_Subset DEF FiniteSubsetsOf
  <1>2. IsWellFoundedOn(StrictSubsetOrdering(S), FiniteSubsetsOf(S))
    BY FS_StrictSubsetOrderingWellFounded
  <1> HIDE DEF bad
  <1>3. PICK T \in bad : \A U \in bad : ~ (<<U, T>> \in StrictSubsetOrdering(S))
    BY <1>1, <1>2, WFMin
  <1>4. \A U \in SUBSET T : U # T => U \in good
    BY <1>3 DEF bad, StrictSubsetOrdering
  <1> QED BY <1>3, <1>4 DEF bad
-----------------------------------------------------------------------------
(* The function that SumFunctionOnSet(f, S) evaluates at S. *)
Some(T) == CHOOSE x \in T : TRUE

IsSum(g, f, S) ==
  g = [T \in SUBSET S |->
         IF T = {} THEN 0 ELSE f[Some(T)] + g[T \ {Some(T)}]]

LEMMA SumUnique ==
  ASSUME NEW S, IsFiniteSet(S), NEW R \in SUBSET S, NEW f, NEW g, NEW h,
         IsSum(g, f, S), IsSum(h, f, R)
  PROVE  \A T \in SUBSET R : g[T] = h[T]
  <1> DEFINE good == {T \in SUBSET R : g[T] = h[T]}
  <1>1. IsFiniteSet(R)
    BY FS_Subset
  <1>2. ASSUME NEW T \in SUBSET R, \A U \in SUBSET T : U # T => U \in good
        PROVE  T \in good
    <2>1. CASE T = {}
      BY <2>1 DEF IsSum
    <2>2. CASE T # {}
      <3>1. Some(T) \in T
        BY <2>2 DEF Some
      <3>2. T \ {Some(T)} \in good
        BY <1>2, <3>1
      <3>3. /\ g[T] = f[Some(T)] + g[T \ {Some(T)}]
            /\ h[T] = f[Some(T)] + h[T \ {Some(T)}]
        BY <2>2 DEF IsSum
      <3> QED BY <3>2, <3>3
    <2> QED BY <2>1, <2>2
  <1> HIDE DEF good
  <1>3. \A T \in SUBSET R : T \in good
    BY <1>1, <1>2, SubsetInduction
  <1> QED BY <1>3 DEF good

LEMMA SumExists ==
  ASSUME NEW S, IsFiniteSet(S), NEW f
  PROVE  \E g : IsSum(g, f, S)
  <1> DEFINE good == {T \in SUBSET S : \E g : IsSum(g, f, T)}
             G(U) == CHOOSE g : IsSum(g, f, U)
  <1>1. ASSUME NEW T \in SUBSET S, \A U \in SUBSET T : U # T => U \in good
        PROVE  T \in good
    <2> DEFINE h == [s \in SUBSET T |->
                       IF s = {} THEN 0
                       ELSE f[Some(s)] + G(s \ {Some(s)})[s \ {Some(s)}]]
    <2>1. ASSUME NEW U \in SUBSET T, U # T
          PROVE  IsSum(G(U), f, U)
      BY <1>1, <2>1
    <2>2. ASSUME NEW s \in SUBSET T, s # {}
          PROVE  h[s \ {Some(s)}] = G(s \ {Some(s)})[s \ {Some(s)}]
      <3> DEFINE U == s \ {Some(s)}
      <3>1. Some(s) \in s /\ U \in SUBSET T /\ U # T
        BY <2>2 DEF Some
      <3>2. IsSum(G(U), f, U)
        BY <2>1, <3>1
      <3>3. CASE U = {}
        <4>1. h[U] = 0
          BY <3>1, <3>3
        <4> HIDE DEF G, h
        <4>2. G(U)[U] = 0
          BY <3>2, <3>3 DEF IsSum
        <4> QED BY <4>1, <4>2
      <3>4. CASE U # {}
        <4> DEFINE V == U \ {Some(U)}
        <4>1. Some(U) \in U /\ V \in SUBSET U /\ V # T /\ V \in SUBSET T
          BY <3>1, <3>4 DEF Some
        <4>2. IsSum(G(V), f, V)
          BY <2>1, <4>1
        <4>3. h[U] = f[Some(U)] + G(V)[V]
          BY <3>1, <3>4
        <4> HIDE DEF h, G, V
        <4>4. G(U)[U] = f[Some(U)] + G(U)[V]
          BY <3>2, <3>4 DEF IsSum, V
        <4>5. IsFiniteSet(U)
          BY <3>1, FS_Subset
        <4>6. G(U)[V] = G(V)[V]
          BY <3>2, <4>1, <4>2, <4>5, SumUnique
        <4> QED BY <4>3, <4>4, <4>6
      <3> QED BY <3>3, <3>4
    <2> HIDE DEF G
    <2>3. IsSum(h, f, T)
      <3>1. h = [s \in SUBSET T |->
                   IF s = {} THEN 0 ELSE f[Some(s)] + h[s \ {Some(s)}]]
        BY <2>2
      <3> QED BY <3>1 DEF IsSum
    <2> QED BY <2>3
  <1> HIDE DEF good
  <1>2. \A T \in SUBSET S : T \in good
    BY <1>1, SubsetInduction
  <1> QED BY <1>2 DEF good

(* The sum of the values at one element and at the others. *)
LEMMA SumDef ==
  ASSUME NEW S, IsFiniteSet(S), NEW f
  PROVE  SumFunctionOnSet(f, S) =
           IF S = {} THEN 0
           ELSE f[Some(S)] + SumFunctionOnSet(f, S \ {Some(S)})
  <1> DEFINE G(U) == CHOOSE g : IsSum(g, f, U)
  <1>1. ASSUME NEW U
        PROVE  SumFunctionOnSet(f, U) = G(U)[U]
    BY DEF SumFunctionOnSet, FoldFunctionOnSet, MapThenFoldSet, IsSum, Some
  <1>2. PICK g : IsSum(g, f, S)
    BY SumExists
  <1>3. IsSum(G(S), f, S)
    BY <1>2
  <1>4. CASE S = {}
    <2> HIDE DEF G
    <2> QED BY <1>1, <1>3, <1>4 DEF IsSum
  <1>5. CASE S # {}
    <2> DEFINE R == S \ {Some(S)}
    <2>1. R \in SUBSET S /\ IsFiniteSet(R)
      BY FS_Subset
    <2>2. \E h : IsSum(h, f, R)
      BY <2>1, SumExists
    <2>3. IsSum(G(R), f, R)
      BY <2>2
    <2> HIDE DEF G, R
    <2>4. G(S)[R] = G(R)[R]
      BY <1>3, <2>1, <2>3, SumUnique
    <2>5. G(S)[S] = f[Some(S)] + G(S)[R]
      BY <1>3, <1>5 DEF IsSum, R
    <2> QED BY <1>1, <1>5, <2>4, <2>5 DEF R
  <1> QED BY <1>4, <1>5
LEMMA SumEmpty ==
  ASSUME NEW f
  PROVE  SumFunctionOnSet(f, {}) = 0
  BY SumDef, FS_EmptySet

LEMMA SumInt ==
  ASSUME NEW S, IsFiniteSet(S), NEW f, \A x \in S : f[x] \in Int
  PROVE  SumFunctionOnSet(f, S) \in Int
  <1> DEFINE good == {T \in SUBSET S : SumFunctionOnSet(f, T) \in Int}
  <1>1. ASSUME NEW T \in SUBSET S, \A U \in SUBSET T : U # T => U \in good
        PROVE  T \in good
    <2>1. IsFiniteSet(T)
      BY FS_Subset
    <2>2. CASE T = {}
      BY <2>2, SumEmpty
    <2>3. CASE T # {}
      <3>1. Some(T) \in T
        BY <2>3 DEF Some
      <3>2. SumFunctionOnSet(f, T) = f[Some(T)] + SumFunctionOnSet(f, T \ {Some(T)})
        BY <2>1, <2>3, SumDef
      <3>3. SumFunctionOnSet(f, T \ {Some(T)}) \in Int
        BY <1>1, <3>1
      <3> QED BY <3>1, <3>2, <3>3
    <2> QED BY <2>2, <2>3
  <1> HIDE DEF good
  <1>2. \A T \in SUBSET S : T \in good
    BY <1>1, SubsetInduction
  <1> QED BY <1>2 DEF good

(* The order in which a sum is taken does not matter. *)
LEMMA SumTakeOut ==
  ASSUME NEW S, IsFiniteSet(S), NEW f, \A x \in S : f[x] \in Int, NEW y \in S
  PROVE  SumFunctionOnSet(f, S) = f[y] + SumFunctionOnSet(f, S \ {y})
  <1> DEFINE Sum(T) == SumFunctionOnSet(f, T)
             good == {T \in SUBSET S : \A x \in T : Sum(T) = f[x] + Sum(T \ {x})}
  <1>1. ASSUME NEW T \in SUBSET S
        PROVE  IsFiniteSet(T) /\ Sum(T) \in Int
    BY FS_Subset, SumInt
  <1>2. ASSUME NEW T \in SUBSET S, T # {}
        PROVE  Some(T) \in T /\ Sum(T) = f[Some(T)] + Sum(T \ {Some(T)})
    BY <1>1, <1>2, SumDef DEF Some
  <1> HIDE DEF Sum
  <1>3. ASSUME NEW T \in SUBSET S, \A U \in SUBSET T : U # T => U \in good
        PROVE  T \in good
    <2> SUFFICES ASSUME NEW x \in T PROVE Sum(T) = f[x] + Sum(T \ {x})
      OBVIOUS
    <2> DEFINE c == Some(T)
               U == T \ {c}
               V == T \ {x}
    <2>1. c \in T /\ Sum(T) = f[c] + Sum(U)
      BY <1>2
    <2>2. CASE c = x
      BY <2>1, <2>2
    <2>3. CASE c # x
      <3>1. U \in good /\ V \in good /\ x \in U /\ c \in V
        BY <1>3, <2>1, <2>3
      <3>2. U \ {x} = V \ {c} /\ U \ {x} \in SUBSET S
        OBVIOUS
      <3>3. Sum(U) = f[x] + Sum(U \ {x}) /\ Sum(V) = f[c] + Sum(U \ {x})
        BY <3>1, <3>2
      <3>4. Sum(U \ {x}) \in Int /\ f[x] \in Int /\ f[c] \in Int
        BY <1>1, <2>1, <3>2
      <3> HIDE DEF c, U
      <3> QED BY <2>1, <3>3, <3>4
    <2> QED BY <2>2, <2>3
  <1> HIDE DEF good
  <1>4. \A T \in SUBSET S : T \in good
    BY <1>3, SubsetInduction
  <1> QED BY <1>4 DEF good, Sum

LEMMA SumNat ==
  ASSUME NEW S, IsFiniteSet(S), NEW f, \A x \in S : f[x] \in Nat
  PROVE  /\ SumFunctionOnSet(f, S) \in Nat
         /\ \A x \in S : f[x] <= SumFunctionOnSet(f, S)
  <1> DEFINE good == {T \in SUBSET S : SumFunctionOnSet(f, T) >= 0}
  <1>1. ASSUME NEW T \in SUBSET S
        PROVE  /\ IsFiniteSet(T) /\ SumFunctionOnSet(f, T) \in Int
               /\ \A x \in T : SumFunctionOnSet(f, T) = f[x] + SumFunctionOnSet(f, T \ {x})
    BY FS_Subset, SumInt, SumTakeOut
  <1>2. ASSUME NEW T \in SUBSET S, \A U \in SUBSET T : U # T => U \in good
        PROVE  T \in good
    <2>1. CASE T = {}
      BY <2>1, SumEmpty
    <2>2. ASSUME NEW x \in T PROVE T \in good
      <3>1. SumFunctionOnSet(f, T \ {x}) >= 0
        BY <1>2
      <3>2. SumFunctionOnSet(f, T \ {x}) \in Int
        BY <1>1
      <3> QED BY <1>1, <3>1, <3>2
    <2> QED BY <2>1, <2>2
  <1> HIDE DEF good
  <1>3. \A T \in SUBSET S : T \in good
    BY <1>2, SubsetInduction
  <1>4. ASSUME NEW x \in S
        PROVE  f[x] <= SumFunctionOnSet(f, S)
    <2>1. SumFunctionOnSet(f, S \ {x}) >= 0 /\ SumFunctionOnSet(f, S \ {x}) \in Int
      BY <1>1, <1>3 DEF good
    <2> QED BY <1>1, <2>1
  <1> QED BY <1>1, <1>3, <1>4 DEF good

LEMMA SumZero ==
  ASSUME NEW S, IsFiniteSet(S), NEW f, \A x \in S : f[x] = 0
  PROVE  SumFunctionOnSet(f, S) = 0
  <1> DEFINE good == {T \in SUBSET S : SumFunctionOnSet(f, T) = 0}
  <1>1. ASSUME NEW T \in SUBSET S, \A U \in SUBSET T : U # T => U \in good
        PROVE  T \in good
    <2>1. CASE T = {}
      BY <2>1, SumEmpty
    <2>2. ASSUME NEW x \in T PROVE T \in good
      <3>1. T \ {x} \in good /\ f[x] = 0 /\ IsFiniteSet(T)
        BY <1>1, FS_Subset
      <3>2. SumFunctionOnSet(f, T) = f[x] + SumFunctionOnSet(f, T \ {x})
        BY <3>1, SumTakeOut
      <3> QED BY <3>1, <3>2
    <2> QED BY <2>1, <2>2
  <1> HIDE DEF good
  <1>2. \A T \in SUBSET S : T \in good
    BY <1>1, SubsetInduction
  <1> QED BY <1>2 DEF good

(* Only the values at the elements of the set matter. *)
LEMMA SumSame ==
  ASSUME NEW S, IsFiniteSet(S), NEW f, NEW g, \A x \in S : f[x] = g[x]
  PROVE  SumFunctionOnSet(f, S) = SumFunctionOnSet(g, S)
  <1> DEFINE good == {T \in SUBSET S : SumFunctionOnSet(f, T) = SumFunctionOnSet(g, T)}
  <1>1. ASSUME NEW T \in SUBSET S, \A U \in SUBSET T : U # T => U \in good
        PROVE  T \in good
    <2>1. IsFiniteSet(T)
      BY FS_Subset
    <2>2. CASE T = {}
      BY <2>2, SumEmpty
    <2>3. CASE T # {}
      <3>1. Some(T) \in T
        BY <2>3 DEF Some
      <3>2. /\ SumFunctionOnSet(f, T) = f[Some(T)] + SumFunctionOnSet(f, T \ {Some(T)})
            /\ SumFunctionOnSet(g, T) = g[Some(T)] + SumFunctionOnSet(g, T \ {Some(T)})
        BY <2>1, <2>3, SumDef
      <3>3. T \ {Some(T)} \in good
        BY <1>1, <3>1
      <3> QED BY <3>1, <3>2, <3>3
    <2> QED BY <2>2, <2>3
  <1> HIDE DEF good
  <1>2. \A T \in SUBSET S : T \in good
    BY <1>1, SubsetInduction
  <1> QED BY <1>2 DEF good

(* One value changes. *)
LEMMA SumChange ==
  ASSUME NEW S, IsFiniteSet(S), NEW y \in S, NEW f, NEW g,
         \A x \in S : f[x] \in Int /\ g[x] \in Int,
         \A x \in S : x # y => f[x] = g[x]
  PROVE  SumFunctionOnSet(g, S) = SumFunctionOnSet(f, S) + g[y] - f[y]
  <1>1. /\ SumFunctionOnSet(f, S) = f[y] + SumFunctionOnSet(f, S \ {y})
        /\ SumFunctionOnSet(g, S) = g[y] + SumFunctionOnSet(g, S \ {y})
    BY SumTakeOut
  <1>2. IsFiniteSet(S \ {y}) /\ \A x \in S \ {y} : f[x] = g[x]
    BY FS_Subset
  <1>3. SumFunctionOnSet(f, S \ {y}) = SumFunctionOnSet(g, S \ {y})
    BY <1>2, SumSame
  <1>4. SumFunctionOnSet(f, S \ {y}) \in Int
    BY <1>2, SumInt
  <1> QED BY <1>1, <1>3, <1>4

-----------------------------------------------------------------------------
(* Earlier morsels end before later ones start. *)
LEMMA ProductGap ==
  ASSUME NEW i \in Nat, NEW j \in Nat, NEW s \in Nat, i < j
  PROVE  i * s + s <= j * s
  <1>1. PICK d \in Nat : j = i + 1 + d
    <2>1. j - i - 1 \in Nat /\ j = i + 1 + (j - i - 1)
      OBVIOUS
    <2> QED BY <2>1
  <1>2. j * s = i * s + s + d * s
    BY <1>1
  <1>3. d * s >= 0
    BY <1>1
  <1>4. i * s \in Nat /\ d * s \in Nat
    OBVIOUS
  <1> QED BY <1>2, <1>3, <1>4

(* Division by a positive number, the quotient and its remainder. *)
LEMMA Quotient ==
  ASSUME NEW a \in Nat, NEW s \in Nat \ {0}
  PROVE  /\ a \div s \in Nat
         /\ (a \div s) * s <= a
         /\ a < (a \div s) * s + s
  OBVIOUS

(* A value below the modulus is not changed by it. *)
LEMMA NoWrap ==
  ASSUME NEW a \in Nat, NEW m \in Nat \ {0}, a < m
  PROVE  a % m = a
  OBVIOUS

-----------------------------------------------------------------------------
(* The tiles of the rows 0 .. total-1, and the rows of one. *)
Span(m) == m.start .. (m.end - 1)

Tiled(total, size, ms) ==
  /\ ms \in Seq([id : Nat, start : 0 .. total, end : 0 .. total])
  /\ Len(ms) <= total
  /\ total <= Len(ms) * size
  /\ \A i \in 0 .. Len(ms) - 1 :
       /\ i * size < total
       /\ ms[i + 1].start = i * size
       /\ ms[i + 1].end = IF i * size + size < total THEN i * size + size ELSE total

(* A function on 1 .. n is a sequence of length n. *)
LEMMA TupleIsSeq ==
  ASSUME NEW S, NEW n \in Nat, NEW f \in [1 .. n -> S]
  PROVE  f \in Seq(S) /\ Len(f) = n
  OBVIOUS

(* A bound of rows that all have an identifier is an identifier. *)
LEMMA TiledTyped ==
  ASSUME NEW total \in Nat, NEW size, NEW ms, Tiled(total, size, ms),
         NEW mod \in Nat, total < mod
  PROVE  ms \in Seq([id : Nat, start : 0 .. mod - 1, end : 0 .. mod - 1])
  <1> DEFINE S == [id : Nat, start : 0 .. total, end : 0 .. total]
             R == [id : Nat, start : 0 .. mod - 1, end : 0 .. mod - 1]
  <1>1. ms \in Seq(S)
    BY DEF Tiled
  <1>2. \A m \in S : m \in R
    OBVIOUS
  <1> HIDE DEF S, R
  <1>3. Len(ms) \in Nat /\ ms \in [1 .. Len(ms) -> S]
    BY <1>1
  <1>4. ms \in [1 .. Len(ms) -> R]
    BY <1>2, <1>3
  <1>5. ms \in Seq(R)
    BY <1>3, <1>4, TupleIsSeq
  <1> QED BY <1>5 DEF R

LEMMA TiledNat ==
  ASSUME NEW total \in Nat,
         NEW ms \in Seq([id : Nat, start : 0 .. total, end : 0 .. total])
  PROVE  ms \in Seq([id : Nat, start : Nat, end : Nat])
  <1> DEFINE S == [id : Nat, start : 0 .. total, end : 0 .. total]
             R == [id : Nat, start : Nat, end : Nat]
  <1>1. ms \in Seq(S)
    OBVIOUS
  <1>2. \A m \in S : m \in R
    OBVIOUS
  <1> HIDE DEF S, R
  <1>3. Len(ms) \in Nat /\ ms \in [1 .. Len(ms) -> S]
    BY <1>1
  <1>4. ms \in [1 .. Len(ms) -> R]
    BY <1>2, <1>3
  <1>5. ms \in Seq(R)
    BY <1>3, <1>4, TupleIsSeq
  <1> QED BY <1>5 DEF R

LEMMA EmptyTiled ==
  ASSUME NEW size \in Nat \ {0}
  PROVE  Tiled(0, size, <<>>)
  BY DEF Tiled

(* So many tiles of the size cover the rows, each begins inside. *)
LEMMA TileCount ==
  ASSUME NEW total \in Nat, NEW size \in Nat \ {0}, NEW n,
         n = (total + size - 1) \div size
  PROVE  /\ n \in Nat /\ n <= total /\ total <= n * size
         /\ \A i \in 0 .. n - 1 : i * size \in Nat /\ i * size < total
  <1>1. n \in Nat /\ n * size \in Nat /\ n * size <= total + size - 1 /\ total <= n * size
    <2>1. /\ n \in Nat /\ n * size <= total + size - 1
          /\ total + size - 1 < n * size + size
      BY Quotient
    <2>2. n * size \in Nat
      BY <2>1
    <2> QED BY <2>1, <2>2
  <1>2. n <= total
    <2> SUFFICES ASSUME total < n PROVE FALSE
      BY <1>1
    <2>1. total * size + size <= n * size
      BY <1>1, ProductGap
    <2>2. total * size >= total /\ total * size \in Nat
      OBVIOUS
    <2> QED BY <1>1, <2>1, <2>2
  <1>3. ASSUME NEW i \in 0 .. n - 1
        PROVE  i * size \in Nat /\ i * size < total
    <2>1. i \in Nat /\ i < n /\ i * size \in Nat
      BY <1>1
    <2>2. i * size + size <= n * size
      BY <1>1, <2>1, ProductGap
    <2> QED BY <1>1, <2>1, <2>2
  <1> QED BY <1>1, <1>2, <1>3

(* The bounds of the tile that starts at p, computed in unsigned types. *)
NarrowStart(p, sizeMod, rowMod) == (p % sizeMod) % rowMod

NarrowEnd(first, total, size, sizeMod, rowMod) ==
  (IF (first + size) % sizeMod < total THEN (first + size) % sizeMod ELSE total) % rowMod

(* The types hold every number on the way. *)
LEMMA TileBounds ==
  ASSUME NEW total \in Nat, NEW size \in Nat \ {0}, NEW p \in Nat,
         NEW sizeMod \in Nat \ {0}, NEW rowMod \in 1 .. sizeMod,
         p < total, total + size - 1 < sizeMod, total < rowMod
  PROVE  /\ NarrowStart(p, sizeMod, rowMod) = p
         /\ NarrowEnd(NarrowStart(p, sizeMod, rowMod), total, size, sizeMod, rowMod)
              = IF p + size < total THEN p + size ELSE total
  <1> DEFINE first == NarrowStart(p, sizeMod, rowMod)
             stop == (first + size) % sizeMod
  <1>1. first = (p % sizeMod) % rowMod
    BY DEF NarrowStart
  <1> HIDE DEF first
  <1>2. p % sizeMod = p /\ p % rowMod = p
    BY NoWrap
  <1>3. first = p
    BY <1>1, <1>2
  <1>4. stop = p + size
    <2>1. p + size < sizeMod /\ p + size \in Nat
      OBVIOUS
    <2> QED BY <1>3, <2>1, NoWrap
  <1>5. NarrowEnd(first, total, size, sizeMod, rowMod)
          = IF p + size < total THEN p + size ELSE total
    <2> DEFINE e == IF stop < total THEN stop ELSE total
    <2>1. e \in Nat /\ e < rowMod
      BY <1>4
    <2>2. NarrowEnd(first, total, size, sizeMod, rowMod) = e % rowMod
      BY DEF NarrowEnd
    <2> HIDE DEF e
    <2>3. e % rowMod = e
      BY <2>1, NoWrap
    <2> QED BY <1>4, <2>2, <2>3 DEF e
  <1> QED BY <1>3, <1>5 DEF first

(* Such tiles, given one by one. *)
LEMMA TiledBy ==
  ASSUME NEW total \in Nat, NEW size \in Nat \ {0},
         NEW n, n = (total + size - 1) \div size, NEW ms,
         ms = [k \in 1 .. n |->
                 [id |-> k - 1, start |-> (k - 1) * size,
                  end |-> IF (k - 1) * size + size < total THEN (k - 1) * size + size
                                                           ELSE total]]
  PROVE  Tiled(total, size, ms)
  <1>1. /\ n \in Nat /\ n <= total /\ total <= n * size
        /\ \A i \in 0 .. n - 1 : i * size \in Nat /\ i * size < total
    BY TileCount
  <1> DEFINE S == [id : Nat, start : 0 .. total, end : 0 .. total]
             Stop(i) == IF i * size + size < total THEN i * size + size ELSE total
  <1>2. ASSUME NEW k \in 1 .. n
        PROVE  [id |-> k - 1, start |-> (k - 1) * size, end |-> Stop(k - 1)] \in S
    <2> DEFINE p == (k - 1) * size
    <2>1. k - 1 \in 0 .. n - 1 /\ k - 1 \in Nat
      BY <1>1
    <2>2. p \in Nat /\ p < total
      BY <1>1, <2>1
    <2>3. Stop(k - 1) = IF p + size < total THEN p + size ELSE total
      OBVIOUS
    <2> HIDE DEF p, Stop
    <2>4. p \in 0 .. total /\ Stop(k - 1) \in 0 .. total
      BY <2>2, <2>3
    <2> QED BY <2>1, <2>4 DEF p
  <1>3. ms \in [1 .. n -> S]
    BY <1>2
  <1> HIDE DEF S
  <1>4. ms \in Seq(S) /\ Len(ms) = n
    <2>1. n \in Nat
      BY <1>1
    <2> QED BY ONLY Zenon, <2>1, <1>3, TupleIsSeq
  <1>5. ASSUME NEW i \in 0 .. n - 1
        PROVE  ms[i + 1].start = i * size /\ ms[i + 1].end = Stop(i)
    <2>1. i + 1 \in 1 .. n /\ (i + 1) - 1 = i
      BY <1>1
    <2> QED BY <2>1
  <1> HIDE DEF Stop
  <1>6. \A i \in 0 .. n - 1 :
          /\ i * size < total
          /\ ms[i + 1].start = i * size
          /\ ms[i + 1].end = IF i * size + size < total THEN i * size + size ELSE total
    BY <1>1, <1>5 DEF Stop
  <1> QED BY <1>1, <1>4, <1>6 DEF Tiled, S

(* partition() with types that hold every number it needs. *)
LEMMA CutTiled ==
  ASSUME NEW total \in Nat, NEW size \in Nat \ {0}, NEW sizeMod \in Nat \ {0},
         NEW rowMod \in 1 .. sizeMod, total + size - 1 < sizeMod, total < rowMod,
         NEW n, n = ((total + size - 1) % sizeMod) \div size, NEW ms,
         ms = [k \in 1 .. n |->
                 [id |-> k - 1, start |-> NarrowStart((k - 1) * size, sizeMod, rowMod),
                  end |-> NarrowEnd(NarrowStart((k - 1) * size, sizeMod, rowMod), total, size, sizeMod, rowMod)]]
  PROVE  Tiled(total, size, ms)
  <1> DEFINE Beyond(i) == IF i * size + size < total THEN i * size + size ELSE total
  <1>1. n = (total + size - 1) \div size
    <2>1. (total + size - 1) \in Nat
      OBVIOUS
    <2> QED BY <2>1, NoWrap
  <1>2. n \in Nat /\ \A i \in 0 .. n - 1 : i * size \in Nat /\ i * size < total
    BY <1>1, TileCount
  <1>3. ASSUME NEW i \in 0 .. n - 1
        PROVE  /\ NarrowStart(i * size, sizeMod, rowMod) = i * size
               /\ NarrowEnd(NarrowStart(i * size, sizeMod, rowMod), total, size, sizeMod, rowMod)
                    = Beyond(i)
    <2> DEFINE p == i * size
    <2>1. p \in Nat /\ p < total
      BY <1>2
    <2>2. Beyond(i) = IF p + size < total THEN p + size ELSE total
      OBVIOUS
    <2> HIDE DEF p, Beyond
    <2>3. /\ NarrowStart(p, sizeMod, rowMod) = p
          /\ NarrowEnd(NarrowStart(p, sizeMod, rowMod), total, size, sizeMod, rowMod)
               = IF p + size < total THEN p + size ELSE total
      BY <2>1, TileBounds
    <2> QED BY <2>2, <2>3 DEF p
  <1>4. \A k \in 1 .. n : k - 1 \in 0 .. n - 1
    BY <1>2
  <1>5. ms = [k \in 1 .. n |-> [id |-> k - 1, start |-> (k - 1) * size, end |-> Beyond(k - 1)]]
    BY <1>3, <1>4
  <1> QED BY <1>1, <1>5, TiledBy

(* The chunks of a dynamic loop. *)
LEMMA ChunksTiled ==
  ASSUME NEW total \in Nat, NEW size \in Nat \ {0},
         NEW n, n = (total + size - 1) \div size, NEW ms,
         ms = [k \in 1 .. n |->
                 [id |-> k - 1, start |-> (k - 1) * size,
                  end |-> IF k * size < total THEN k * size ELSE total]]
  PROVE  Tiled(total, size, ms)
  <1>1. n \in Nat
    BY TileCount
  <1>2. \A k \in 1 .. n : k * size = (k - 1) * size + size
    BY <1>1
  <1>3. ms = [k \in 1 .. n |->
                [id |-> k - 1, start |-> (k - 1) * size,
                 end |-> IF (k - 1) * size + size < total THEN (k - 1) * size + size
                                                          ELSE total]]
    BY <1>2
  <1> QED BY <1>3, TiledBy

(* The bounds of one morsel, given by the row it starts at. *)
IsTile(m, p, total, size) ==
  /\ p < total
  /\ m.start = p
  /\ m.end = IF p + size < total THEN p + size ELSE total

LEMMA TileShape ==
  ASSUME NEW total \in Nat, NEW size \in Nat \ {0}, NEW ms,
         Tiled(total, size, ms), NEW i \in 0 .. Len(ms) - 1
  PROVE  \E p \in Nat : p = i * size /\ IsTile(ms[i + 1], p, total, size)
  <1>1. Len(ms) \in Nat
    BY DEF Tiled
  <1>2. i \in Nat
    BY <1>1
  <1>3. i * size \in Nat
    BY <1>2
  <1>4. IsTile(ms[i + 1], i * size, total, size)
    BY Zenon DEF Tiled, IsTile
  <1> QED BY <1>3, <1>4

(* Different morsels share no row. *)
LEMMA TilesDisjoint ==
  ASSUME NEW total \in Nat, NEW size \in Nat \ {0}, NEW ms,
         Tiled(total, size, ms),
         NEW i \in 0 .. Len(ms) - 1, NEW j \in 0 .. Len(ms) - 1, i # j
  PROVE  Span(ms[i + 1]) \cap Span(ms[j + 1]) = {}
  <1>1. Len(ms) \in Nat
    BY DEF Tiled
  <1>2. ASSUME NEW k \in 0 .. Len(ms) - 1, NEW l \in 0 .. Len(ms) - 1, k < l
        PROVE  Span(ms[k + 1]) \cap Span(ms[l + 1]) = {}
    <2>1. PICK p \in Nat : p = k * size /\ IsTile(ms[k + 1], p, total, size)
      BY TileShape
    <2>2. PICK q \in Nat : q = l * size /\ IsTile(ms[l + 1], q, total, size)
      BY TileShape
    <2>3. k * size + size <= l * size
      BY <1>1, <1>2, ProductGap
    <2>4. p + size <= q
      BY <2>1, <2>2, <2>3, Zenon
    <2>5. /\ IsTile(ms[k + 1], p, total, size)
          /\ IsTile(ms[l + 1], q, total, size)
      BY <2>1, <2>2
    <2> QED BY <2>4, <2>5 DEF Span, IsTile
  <1>3. CASE i < j
    BY <1>2, <1>3
  <1>4. CASE j < i
    BY <1>2, <1>4
  <1> QED BY <1>1, <1>3, <1>4

(* Every row is in a morsel. *)
LEMMA TileOfRow ==
  ASSUME NEW total \in Nat, NEW size \in Nat \ {0}, NEW ms,
         Tiled(total, size, ms), NEW r \in 0 .. total - 1
  PROVE  \E i \in 0 .. Len(ms) - 1 : r \in Span(ms[i + 1])
  <1> DEFINE i == r \div size
             n == Len(ms)
  <1>1. i \in Nat /\ i * size <= r /\ r < i * size + size
    BY Quotient
  <1>2. n \in Nat /\ total <= n * size
    BY DEF Tiled
  <1> HIDE DEF i, n
  <1>3. i < n
    <2> SUFFICES ASSUME n <= i PROVE FALSE
      BY <1>1, <1>2
    <2>1. n * size \in Nat /\ i * size \in Nat
      BY <1>1, <1>2
    <2>2. n * size <= i * size
      <3>1. CASE n = i
        BY <3>1, <2>1
      <3>2. CASE n < i
        <4>1. n * size + size <= i * size
          BY <3>2, <1>1, <1>2, ProductGap
        <4> QED BY <4>1, <2>1
      <3> QED BY <3>1, <3>2, <1>1, <1>2
    <2> QED BY <1>1, <1>2, <2>1, <2>2
  <1>4. i \in 0 .. Len(ms) - 1
    BY <1>1, <1>2, <1>3 DEF n
  <1>5. PICK p \in Nat : p = i * size /\ IsTile(ms[i + 1], p, total, size)
    BY <1>4, TileShape
  <1>6. p <= r /\ r < p + size
    BY <1>1, <1>5, Zenon
  <1>7. IsTile(ms[i + 1], p, total, size)
    BY <1>5
  <1>8. r \in Span(ms[i + 1])
    BY <1>6, <1>7 DEF Span, IsTile
  <1> QED BY <1>4, <1>8

(* A morsel is not empty and has rows of the table only. *)
LEMMA TileInTable ==
  ASSUME NEW total \in Nat, NEW size \in Nat \ {0}, NEW ms,
         Tiled(total, size, ms), NEW i \in 0 .. Len(ms) - 1
  PROVE  Span(ms[i + 1]) \subseteq 0 .. total - 1 /\ Span(ms[i + 1]) # {}
  <1>1. PICK p \in Nat : p = i * size /\ IsTile(ms[i + 1], p, total, size)
    BY TileShape
  <1>2. IsTile(ms[i + 1], p, total, size)
    BY <1>1
  <1>3. p \in Span(ms[i + 1])
    BY <1>2 DEF Span, IsTile
  <1>4. Span(ms[i + 1]) \subseteq 0 .. total - 1
    BY <1>2 DEF Span, IsTile
  <1> QED BY <1>3, <1>4

(* The rows 0 .. total-1 divided into morsels that come in any order: the
   chunks of a dynamic loop, or tiles.                                      *)
Divided(total, ms) ==
  /\ ms \in Seq([id : Nat, start : 0 .. total, end : 0 .. total])
  /\ Len(ms) <= total
  /\ \A i \in 1 .. Len(ms) : ms[i].start < ms[i].end
  /\ \A i, j \in 1 .. Len(ms) : i # j => Span(ms[i]) \cap Span(ms[j]) = {}
  /\ \A r \in 0 .. total - 1 : \E i \in 1 .. Len(ms) : r \in Span(ms[i])

LEMMA TiledDivided ==
  ASSUME NEW total \in Nat, NEW size \in Nat \ {0}, NEW ms, Tiled(total, size, ms)
  PROVE  Divided(total, ms)
  <1>1. /\ ms \in Seq([id : Nat, start : 0 .. total, end : 0 .. total])
        /\ Len(ms) <= total /\ Len(ms) \in Nat
    BY DEF Tiled
  <1>2. \A i \in 1 .. Len(ms) : i - 1 \in 0 .. Len(ms) - 1 /\ (i - 1) + 1 = i
    BY <1>1
  <1>3. ASSUME NEW i \in 1 .. Len(ms)
        PROVE  ms[i].start < ms[i].end
    <2>1. PICK p \in Nat : p = (i - 1) * size /\ IsTile(ms[(i - 1) + 1], p, total, size)
      BY <1>2, TileShape
    <2>2. IsTile(ms[i], p, total, size)
      BY <1>2, <2>1
    <2> QED BY <2>2 DEF IsTile
  <1>4. ASSUME NEW i \in 1 .. Len(ms), NEW j \in 1 .. Len(ms), i # j
        PROVE  Span(ms[i]) \cap Span(ms[j]) = {}
    <2>1. i - 1 # j - 1
      BY <1>1, <1>4
    <2>2. Span(ms[(i - 1) + 1]) \cap Span(ms[(j - 1) + 1]) = {}
      BY <1>2, <2>1, TilesDisjoint
    <2> QED BY <1>2, <2>2
  <1>5. ASSUME NEW r \in 0 .. total - 1
        PROVE  \E i \in 1 .. Len(ms) : r \in Span(ms[i])
    <2>1. PICK i \in 0 .. Len(ms) - 1 : r \in Span(ms[i + 1])
      BY TileOfRow
    <2>2. i + 1 \in 1 .. Len(ms)
      BY <1>1
    <2> QED BY <2>1, <2>2
  <1> QED BY <1>1, <1>3, <1>4, <1>5 DEF Divided

LEMMA DividedTyped ==
  ASSUME NEW total \in Nat, NEW ms, Divided(total, ms)
  PROVE  /\ Len(ms) \in Nat
         /\ ms \in [1 .. Len(ms) -> [id : Nat, start : 0 .. total, end : 0 .. total]]
  <1> DEFINE S == [id : Nat, start : 0 .. total, end : 0 .. total]
  <1>1. ms \in Seq(S)
    BY DEF Divided
  <1> HIDE DEF S
  <1>2. Len(ms) \in Nat /\ ms \in [1 .. Len(ms) -> S]
    BY <1>1
  <1> QED BY <1>2 DEF S

(* The order in which they come does not matter. *)
LEMMA ReorderedDivided ==
  ASSUME NEW total \in Nat, NEW ms, Divided(total, ms), NEW n, n = Len(ms),
         NEW order \in Bijection(1 .. n, 1 .. n)
  PROVE  Divided(total, [k \in 1 .. n |-> ms[order[k]]])
  <1> DEFINE S == [id : Nat, start : 0 .. total, end : 0 .. total]
             new == [k \in 1 .. n |-> ms[order[k]]]
  <1>1. n \in Nat /\ ms \in [1 .. n -> S] /\ n <= total
    BY DividedTyped DEF Divided
  <1>2. /\ \A k \in 1 .. n : order[k] \in 1 .. n
        /\ \A k, l \in 1 .. n : order[k] = order[l] => k = l
        /\ \A i \in 1 .. n : \E k \in 1 .. n : order[k] = i
    BY DEF Bijection, Injection, Surjection, IsInjective
  <1>3. \A k \in 1 .. n : new[k] = ms[order[k]]
    OBVIOUS
  <1>4. new \in [1 .. n -> S]
    BY <1>1, <1>2
  <1> HIDE DEF S, new
  <1>5. new \in Seq(S) /\ Len(new) = n
    BY <1>1, <1>4, TupleIsSeq
  <1>6. \A k \in 1 .. n : new[k].start < new[k].end
    BY <1>2, <1>3 DEF Divided
  <1>7. \A k, l \in 1 .. n : k # l => Span(new[k]) \cap Span(new[l]) = {}
    <2> SUFFICES ASSUME NEW k \in 1 .. n, NEW l \in 1 .. n, k # l
                 PROVE  Span(new[k]) \cap Span(new[l]) = {}
      OBVIOUS
    <2>1. order[k] \in 1 .. n /\ order[l] \in 1 .. n /\ order[k] # order[l]
      BY <1>2
    <2>2. Span(ms[order[k]]) \cap Span(ms[order[l]]) = {}
      BY <2>1, Zenon DEF Divided
    <2> QED BY <1>3, <2>2
  <1>8. \A r \in 0 .. total - 1 : \E k \in 1 .. n : r \in Span(new[k])
    <2> SUFFICES ASSUME NEW r \in 0 .. total - 1
                 PROVE  \E k \in 1 .. n : r \in Span(new[k])
      OBVIOUS
    <2>1. PICK i \in 1 .. n : r \in Span(ms[i])
      BY DEF Divided
    <2>2. PICK k \in 1 .. n : order[k] = i
      BY <1>2
    <2> QED BY <1>3, <2>1, <2>2
  <1>9. Divided(total, new)
    BY <1>1, <1>5, <1>6, <1>7, <1>8 DEF Divided, S
  <1> QED BY <1>9 DEF new

(* The positions 1 .. total of a sequence that the rows of a morsel are at. *)
Positions(m) == (m.start + 1) .. m.end

(* Those of the first c morsels, or of all if there are fewer. *)
Behind(ms, c) ==
  UNION {Positions(ms[i + 1]) : i \in 0 .. (IF c < Len(ms) THEN c ELSE Len(ms)) - 1}

LEMMA PositionRow ==
  ASSUME NEW total \in Nat, NEW ms, Divided(total, ms), NEW i \in 1 .. Len(ms)
  PROVE  /\ Positions(ms[i]) \subseteq 1 .. total
         /\ \A k \in 1 .. total : k \in Positions(ms[i]) <=> k - 1 \in Span(ms[i])
  <1>1. ms[i] \in [id : Nat, start : 0 .. total, end : 0 .. total]
    BY ONLY DividedTyped, Divided(total, ms), total \in Nat, i \in 1 .. Len(ms)
  <1>2. ms[i].start \in 0 .. total /\ ms[i].end \in 0 .. total
    BY <1>1
  <1> QED BY <1>2 DEF Positions, Span

LEMMA BehindStart ==
  ASSUME NEW ms, Len(ms) \in Nat
  PROVE  Behind(ms, 0) = {}
  BY DEF Behind

LEMMA BehindBounds ==
  ASSUME NEW total \in Nat, NEW ms, Divided(total, ms), NEW c \in Nat
  PROVE  /\ Behind(ms, c) \subseteq 1 .. total
         /\ IsFiniteSet(Behind(ms, c))
         /\ Cardinality(Behind(ms, c)) \in Nat
         /\ Cardinality(Behind(ms, c)) <= total
  <1>1. Len(ms) \in Nat
    BY DEF Divided
  <1>2. Behind(ms, c) \subseteq 1 .. total
    <2> SUFFICES ASSUME NEW k \in Behind(ms, c) PROVE k \in 1 .. total
      OBVIOUS
    <2>1. PICK i \in 0 .. Len(ms) - 1 : k \in Positions(ms[i + 1])
      BY <1>1 DEF Behind
    <2>2. i + 1 \in 1 .. Len(ms)
      BY <1>1
    <2> QED BY <2>1, <2>2, PositionRow
  <1>3. IsFiniteSet(1 .. total) /\ Cardinality(1 .. total) = total
    BY FS_Interval
  <1> QED BY <1>2, <1>3, FS_Subset, FS_CardinalityType

(* The morsel that is taken next is new. *)
LEMMA BehindNext ==
  ASSUME NEW total \in Nat, NEW ms, Divided(total, ms), NEW c \in Nat, c < Len(ms)
  PROVE  /\ Behind(ms, c + 1) = Behind(ms, c) \union Positions(ms[c + 1])
         /\ Behind(ms, c) \cap Positions(ms[c + 1]) = {}
         /\ Positions(ms[c + 1]) \subseteq 1 .. total
  <1>1. Len(ms) \in Nat /\ c + 1 \in 1 .. Len(ms)
    BY DEF Divided
  <1>2. Behind(ms, c) = UNION {Positions(ms[i + 1]) : i \in 0 .. c - 1}
    BY DEF Behind
  <1>3. Behind(ms, c + 1) = UNION {Positions(ms[i + 1]) : i \in 0 .. c}
    <2>1. (IF c + 1 < Len(ms) THEN c + 1 ELSE Len(ms)) - 1 = c
      BY <1>1
    <2> QED BY <2>1 DEF Behind
  <1>4. 0 .. c = (0 .. c - 1) \union {c}
    OBVIOUS
  <1>5. ASSUME NEW k \in Behind(ms, c), k \in Positions(ms[c + 1]) PROVE FALSE
    <2>1. PICK i \in 0 .. c - 1 : k \in Positions(ms[i + 1])
      BY <1>2, <1>5
    <2>2. i + 1 \in 1 .. Len(ms) /\ i + 1 # c + 1
      BY <1>1
    <2>3. k - 1 \in Span(ms[i + 1]) /\ k - 1 \in Span(ms[c + 1])
      BY <1>1, <1>5, <2>1, <2>2, PositionRow
    <2> QED BY <1>1, <2>2, <2>3 DEF Divided
  <1>6. Behind(ms, c + 1) = Behind(ms, c) \union Positions(ms[c + 1])
    BY <1>2, <1>3, <1>4
  <1> QED BY <1>1, <1>5, <1>6, PositionRow

(* Of tiles, those behind come before those of the next. *)
LEMMA BehindBelow ==
  ASSUME NEW total \in Nat, NEW size \in Nat \ {0}, NEW ms,
         Tiled(total, size, ms), NEW c \in Nat, c < Len(ms)
  PROVE  \A k \in Behind(ms, c) : k < ms[c + 1].start + 1
  <1>1. Len(ms) \in Nat /\ c \in 0 .. Len(ms) - 1
    BY DEF Tiled
  <1> SUFFICES ASSUME NEW k \in Behind(ms, c) PROVE k < ms[c + 1].start + 1
    OBVIOUS
  <1>2. PICK i \in 0 .. c - 1 : k \in Positions(ms[i + 1])
    BY DEF Behind
  <1>3. i \in 0 .. Len(ms) - 1 /\ i \in Nat /\ i < c
    BY <1>1
  <1>4. PICK p \in Nat : p = i * size /\ IsTile(ms[i + 1], p, total, size)
    BY <1>3, TileShape
  <1>5. PICK q \in Nat : q = c * size /\ IsTile(ms[c + 1], q, total, size)
    BY <1>1, TileShape
  <1>6. i * size + size <= c * size
    BY <1>3, ProductGap
  <1>7. p + size <= q
    BY <1>4, <1>5, <1>6, Zenon
  <1>8. IsTile(ms[i + 1], p, total, size) /\ IsTile(ms[c + 1], q, total, size)
    BY <1>4, <1>5
  <1> QED BY <1>2, <1>7, <1>8 DEF IsTile, Positions

(* When the morsels are all taken, so are the positions. *)
LEMMA BehindEnd ==
  ASSUME NEW total \in Nat, NEW ms, Divided(total, ms), NEW c \in Nat, ~ c < Len(ms)
  PROVE  Behind(ms, c) = 1 .. total
  <1>1. /\ Behind(ms, c) = UNION {Positions(ms[i + 1]) : i \in 0 .. Len(ms) - 1}
        /\ Len(ms) \in Nat
    BY DEF Behind, Divided
  <1>2. ASSUME NEW k \in 1 .. total PROVE k \in Behind(ms, c)
    <2>1. k - 1 \in 0 .. total - 1
      OBVIOUS
    <2>2. PICK i \in 1 .. Len(ms) : k - 1 \in Span(ms[i])
      BY <2>1 DEF Divided
    <2>3. k \in Positions(ms[i])
      BY <2>2, PositionRow
    <2>4. i - 1 \in 0 .. Len(ms) - 1 /\ (i - 1) + 1 = i
      BY <1>1
    <2> QED BY <1>1, <2>3, <2>4
  <1>3. Behind(ms, c) \subseteq 1 .. total
    BY BehindBounds
  <1> QED BY <1>2, <1>3

-----------------------------------------------------------------------------
(* Extrema of finite sets of integers. *)
IsLeast(m, S) == m \in S /\ \A x \in S : m <= x

IsGreatest(m, S) == m \in S /\ \A x \in S : m >= x

LEMMA LeastExists ==
  ASSUME NEW S, IsFiniteSet(S), S \subseteq Int, S # {}
  PROVE  \E m : IsLeast(m, S)
  <1> DEFINE good == {T \in SUBSET S : T = {} \/ \E m : IsLeast(m, T)}
  <1>1. ASSUME NEW T \in SUBSET S, \A U \in SUBSET T : U # T => U \in good
        PROVE  T \in good
    <2> SUFFICES ASSUME NEW x \in T PROVE \E m : IsLeast(m, T)
      OBVIOUS
    <2>1. T \ {x} \in good /\ x \in Int
      BY <1>1
    <2>2. CASE T \ {x} = {}
      BY <2>1, <2>2 DEF IsLeast
    <2>3. CASE T \ {x} # {}
      <3>1. PICK m : IsLeast(m, T \ {x})
        BY <2>1, <2>3
      <3>2. \A y \in T : y \in Int
        OBVIOUS
      <3> QED BY <2>1, <3>1, <3>2 DEF IsLeast
    <2> QED BY <2>2, <2>3
  <1> HIDE DEF good
  <1>2. \A T \in SUBSET S : T \in good
    BY <1>1, SubsetInduction
  <1> QED BY <1>2 DEF good

(* What holds at a, and at the successor of a number at which it holds, holds
   from a to b.                                                             *)
LEMMA UpwardInduction ==
  ASSUME NEW a \in Int, NEW b \in Int, NEW good, a \in good,
         \A k \in a .. (b - 1) : k \in good => k + 1 \in good
  PROVE  \A k \in a .. b : k \in good
  <1> DEFINE bad == {k \in a .. b : k \notin good}
  <1> SUFFICES ASSUME bad # {} PROVE FALSE
    OBVIOUS
  <1>1. IsFiniteSet(bad) /\ bad \subseteq Int
    BY FS_Interval, FS_Subset
  <1>2. PICK m : IsLeast(m, bad)
    BY <1>1, LeastExists
  <1>3. m \in a .. b /\ m \notin good /\ m # a
    BY <1>2 DEF IsLeast
  <1>4. m - 1 \in a .. (b - 1) /\ (m - 1) + 1 = m /\ m - 1 \notin bad
    BY <1>2, <1>3 DEF IsLeast
  <1> QED BY <1>3, <1>4

LEMMA GreatestExists ==
  ASSUME NEW S, IsFiniteSet(S), S \subseteq Int, S # {}
  PROVE  \E m : IsGreatest(m, S)
  <1> DEFINE good == {T \in SUBSET S : T = {} \/ \E m : IsGreatest(m, T)}
  <1>1. ASSUME NEW T \in SUBSET S, \A U \in SUBSET T : U # T => U \in good
        PROVE  T \in good
    <2> SUFFICES ASSUME NEW x \in T PROVE \E m : IsGreatest(m, T)
      OBVIOUS
    <2>1. T \ {x} \in good /\ x \in Int
      BY <1>1
    <2>2. CASE T \ {x} = {}
      BY <2>1, <2>2 DEF IsGreatest
    <2>3. CASE T \ {x} # {}
      <3>1. PICK m : IsGreatest(m, T \ {x})
        BY <2>1, <2>3
      <3>2. \A y \in T : y \in Int
        OBVIOUS
      <3> QED BY <2>1, <3>1, <3>2 DEF IsGreatest
    <2> QED BY <2>2, <2>3
  <1> HIDE DEF good
  <1>2. \A T \in SUBSET S : T \in good
    BY <1>1, SubsetInduction
  <1> QED BY <1>2 DEF good

LEMMA ImageFinite ==
  ASSUME NEW S, IsFiniteSet(S), NEW f
  PROVE  IsFiniteSet({f[x] : x \in S})
  <1> DEFINE g == [x \in S |-> f[x]]
  <1>1. g \in Surjection(S, {f[x] : x \in S})
    BY DEF Surjection
  <1> QED BY <1>1, FS_Surjection

(* No part of a sum of numbers is greater than the whole. *)
LEMMA PartBounded ==
  ASSUME NEW S, IsFiniteSet(S), NEW f, \A x \in S : f[x] \in Nat,
         NEW a \in Nat, NEW whole, a + SumFunctionOnSet(f, S) = whole
  PROVE  a <= whole /\ \A x \in S : f[x] <= whole
  <1>1. SumFunctionOnSet(f, S) \in Nat /\ \A x \in S : f[x] <= SumFunctionOnSet(f, S)
    BY SumNat
  <1> QED BY <1>1

(* How often a value occurs at two disjoint sets of positions. *)
Occurs(P, s, r) == Cardinality({k \in P : s[k] = r})

LEMMA OccurrencesAdd ==
  ASSUME NEW P, IsFiniteSet(P), NEW Q, IsFiniteSet(Q), P \cap Q = {}, NEW s, NEW r
  PROVE  Occurs(P \union Q, s, r) = Occurs(P, s, r) + Occurs(Q, s, r)
  <1> DEFINE A == {k \in P : s[k] = r}
             B == {k \in Q : s[k] = r}
  <1>1. IsFiniteSet(A) /\ IsFiniteSet(B)
    BY FS_Subset
  <1>2. A \cap B = {} /\ {k \in P \union Q : s[k] = r} = A \union B
    OBVIOUS
  <1>3. Cardinality(A) \in Nat /\ Cardinality(B) \in Nat
    BY <1>1, FS_CardinalityType
  <1> HIDE DEF A, B
  <1>4. Cardinality(A \union B) = Cardinality(A) + Cardinality(B) - Cardinality(A \cap B)
    BY <1>1, FS_Union
  <1>5. Cardinality(A \cap B) = 0
    BY <1>2, FS_EmptySet
  <1>6. Cardinality(A \union B) = Cardinality(A) + Cardinality(B)
    BY <1>3, <1>4, <1>5
  <1> QED BY <1>2, <1>6 DEF Occurs, A, B

(* The elements of a finite set, counted by their values. *)
LEMMA CountByValue ==
  ASSUME NEW S, IsFiniteSet(S), NEW P, IsFiniteSet(P), NEW s, \A k \in P : s[k] \in S
  PROVE  Cardinality(P) = SumFunctionOnSet([r \in S |-> Occurs(P, s, r)], S)
  <1> DEFINE f(T) == [r \in S |-> Occurs(T, s, r)]
             good == {T \in SUBSET P : Cardinality(T) = SumFunctionOnSet(f(T), S)}
  <1>1. ASSUME NEW T \in SUBSET P, \A U \in SUBSET T : U # T => U \in good
        PROVE  T \in good
    <2>1. CASE T = {}
      <3>1. \A r \in S : f(T)[r] = 0
        <4>1. \A r \in S : Occurs(T, s, r) = Cardinality({})
          BY <2>1 DEF Occurs
        <4> QED BY <4>1, FS_EmptySet
      <3> HIDE DEF f
      <3>2. SumFunctionOnSet(f(T), S) = 0
        BY <3>1, SumZero
      <3> QED BY <2>1, <3>2, FS_EmptySet
    <2>2. ASSUME NEW x \in T PROVE T \in good
      <3> DEFINE U == T \ {x}
      <3>1. /\ IsFiniteSet(T) /\ IsFiniteSet(U) /\ U \in good
            /\ Cardinality(U) \in Nat /\ Cardinality(T) = Cardinality(U) + 1
        <4>1. IsFiniteSet(T) /\ IsFiniteSet(U)
          BY FS_Subset
        <4>2. Cardinality(U) \in Nat /\ Cardinality(U \union {x}) = Cardinality(U) + 1
          BY <4>1, FS_AddElement, FS_CardinalityType
        <4>3. U \union {x} = T /\ U \in SUBSET T /\ U # T
          OBVIOUS
        <4>4. U \in good
          BY ONLY <1>1, <4>3, Zenon
        <4> QED BY <4>1, <4>2, <4>3, <4>4
      <3>2. s[x] \in S
        OBVIOUS
      <3>3. \A r \in S : Occurs(T, s, r) = Occurs(U, s, r) + IF s[x] = r THEN 1 ELSE 0
        <4> SUFFICES ASSUME NEW r \in S
                     PROVE  Occurs(T, s, r) = Occurs(U, s, r) + IF s[x] = r THEN 1 ELSE 0
          OBVIOUS
        <4> DEFINE A == {k \in U : s[k] = r}
                   B == {k \in T : s[k] = r}
        <4>1. IsFiniteSet(A) /\ x \notin A /\ Cardinality(A) \in Nat
          BY <3>1, FS_Subset, FS_CardinalityType
        <4>2. B = IF s[x] = r THEN A \union {x} ELSE A
          OBVIOUS
        <4> HIDE DEF A, B
        <4>3. CASE s[x] = r
          BY <4>1, <4>2, <4>3, FS_AddElement DEF Occurs, A, B
        <4>4. CASE s[x] # r
          BY <4>1, <4>2, <4>4 DEF Occurs, A, B
        <4> QED BY <4>3, <4>4
      <3>4. \A r \in S : Occurs(U, s, r) \in Int
        BY <3>1, FS_Subset, FS_CardinalityType DEF Occurs
      <3>5. /\ \A r \in S : f(U)[r] \in Int /\ f(T)[r] \in Int
            /\ \A r \in S : r # s[x] => f(U)[r] = f(T)[r]
            /\ f(T)[s[x]] = f(U)[s[x]] + 1
        <4>1. \A r \in S : f(U)[r] = Occurs(U, s, r) /\ f(T)[r] = Occurs(T, s, r)
          OBVIOUS
        <4> HIDE DEF f, U
        <4> QED BY <3>2, <3>3, <3>4, <4>1
      <3> HIDE DEF f, U
      <3>6. SumFunctionOnSet(f(T), S) =
              SumFunctionOnSet(f(U), S) + f(T)[s[x]] - f(U)[s[x]]
        BY <3>2, <3>5, SumChange
      <3>7. SumFunctionOnSet(f(U), S) = Cardinality(U)
        BY <3>1
      <3>8. f(U)[s[x]] \in Int
        BY <3>2, <3>5
      <3>9. SumFunctionOnSet(f(T), S) = Cardinality(T)
        BY <3>1, <3>5, <3>6, <3>7, <3>8
      <3> QED BY <3>9
    <2> HIDE DEF good
    <2> QED BY <2>1, <2>2
  <1> HIDE DEF good
  <1>2. \A T \in SUBSET P : T \in good
    BY <1>1, SubsetInduction
  <1>3. P \in good
    BY <1>2
  <1> QED BY <1>3 DEF good

(* Two sums are added term by term. *)
LEMMA SumAdd ==
  ASSUME NEW S, IsFiniteSet(S), NEW f, NEW g, \A x \in S : f[x] \in Int /\ g[x] \in Int
  PROVE  SumFunctionOnSet([x \in S |-> f[x] + g[x]], S) =
           SumFunctionOnSet(f, S) + SumFunctionOnSet(g, S)
  <1> DEFINE h == [x \in S |-> f[x] + g[x]]
             good == {T \in SUBSET S : SumFunctionOnSet(h, T) =
                                         SumFunctionOnSet(f, T) + SumFunctionOnSet(g, T)}
  <1>1. \A x \in S : h[x] = f[x] + g[x] /\ h[x] \in Int
    OBVIOUS
  <1> HIDE DEF h
  <1>2. ASSUME NEW T \in SUBSET S, \A U \in SUBSET T : U # T => U \in good
        PROVE  T \in good
    <2>1. CASE T = {}
      <3>1. /\ SumFunctionOnSet(f, T) = 0 /\ SumFunctionOnSet(g, T) = 0
            /\ SumFunctionOnSet(h, T) = 0
        BY <2>1, SumEmpty
      <3> QED BY <3>1
    <2>2. ASSUME NEW x \in T PROVE T \in good
      <3> DEFINE U == T \ {x}
      <3>1. IsFiniteSet(T) /\ IsFiniteSet(U) /\ U \in good
        BY <1>2, FS_Subset
      <3>2. /\ SumFunctionOnSet(f, T) = f[x] + SumFunctionOnSet(f, U)
            /\ SumFunctionOnSet(g, T) = g[x] + SumFunctionOnSet(g, U)
            /\ SumFunctionOnSet(h, T) = h[x] + SumFunctionOnSet(h, U)
        BY <1>1, <3>1, SumTakeOut
      <3>3. SumFunctionOnSet(f, U) \in Int /\ SumFunctionOnSet(g, U) \in Int
        BY <3>1, SumInt
      <3>4. SumFunctionOnSet(h, U) = SumFunctionOnSet(f, U) + SumFunctionOnSet(g, U)
        BY <3>1
      <3>5. f[x] \in Int /\ g[x] \in Int /\ h[x] = f[x] + g[x]
        BY <1>1
      <3> HIDE DEF U
      <3>6. SumFunctionOnSet(h, T) = SumFunctionOnSet(f, T) + SumFunctionOnSet(g, T)
        BY <3>2, <3>3, <3>4, <3>5
      <3> QED BY <3>6
    <2> HIDE DEF good
    <2> QED BY <2>1, <2>2
  <1> HIDE DEF good
  <1>3. S \in good
    BY <1>2, SubsetInduction
  <1> QED BY <1>3 DEF good, h

(* The elements of sets no two of which have one in common. *)
LEMMA DisjointUnion ==
  ASSUME NEW S, IsFiniteSet(S), NEW P, \A x \in S : IsFiniteSet(P[x]),
         \A x, y \in S : x # y => P[x] \cap P[y] = {}
  PROVE  /\ IsFiniteSet(UNION {P[x] : x \in S})
         /\ Cardinality(UNION {P[x] : x \in S}) =
              SumFunctionOnSet([x \in S |-> Cardinality(P[x])], S)
  <1> DEFINE f == [x \in S |-> Cardinality(P[x])]
             Joint(T) == UNION {P[x] : x \in T}
             good == {T \in SUBSET S : /\ IsFiniteSet(Joint(T))
                                       /\ Cardinality(Joint(T)) = SumFunctionOnSet(f, T)}
  <1>1. \A x \in S : f[x] = Cardinality(P[x]) /\ f[x] \in Int
    BY FS_CardinalityType
  <1> HIDE DEF f
  <1>2. ASSUME NEW T \in SUBSET S, \A U \in SUBSET T : U # T => U \in good
        PROVE  T \in good
    <2>1. CASE T = {}
      <3>1. Joint(T) = {} /\ SumFunctionOnSet(f, T) = 0
        BY <2>1, SumEmpty
      <3> QED BY <3>1, FS_EmptySet
    <2>2. ASSUME NEW x \in T PROVE T \in good
      <3> DEFINE U == T \ {x}
                 A == Joint(U)
                 B == P[x]
      <3>1. IsFiniteSet(T) /\ U \in good
        BY <1>2, FS_Subset
      <3>2. SumFunctionOnSet(f, T) = f[x] + SumFunctionOnSet(f, U)
        BY <1>1, <3>1, SumTakeOut
      <3>3. Joint(T) = A \union B /\ A \cap B = {}
        OBVIOUS
      <3>4. IsFiniteSet(A) /\ IsFiniteSet(B) /\ Cardinality(A) = SumFunctionOnSet(f, U)
        BY <3>1
      <3>5. f[x] = Cardinality(B)
        BY <1>1
      <3> HIDE DEF A, B, U, Joint
      <3>6. /\ IsFiniteSet(A \union B)
            /\ Cardinality(A \union B) = Cardinality(A) + Cardinality(B) - Cardinality(A \cap B)
        BY <3>4, FS_Union
      <3>7. /\ Cardinality(A \cap B) = 0 /\ Cardinality(A) \in Nat /\ Cardinality(B) \in Nat
        BY <3>3, <3>4, FS_EmptySet, FS_CardinalityType
      <3>8. IsFiniteSet(Joint(T)) /\ Cardinality(Joint(T)) = SumFunctionOnSet(f, T)
        BY <3>2, <3>3, <3>4, <3>5, <3>6, <3>7
      <3> QED BY <3>8
    <2> HIDE DEF good
    <2> QED BY <2>1, <2>2
  <1> HIDE DEF good
  <1>3. S \in good
    BY <1>2, SubsetInduction
  <1> QED BY <1>3 DEF good, f

(* How often a value occurs in such sets of positions. *)
LEMMA DisjointOccurs ==
  ASSUME NEW S, IsFiniteSet(S), NEW P, \A x \in S : IsFiniteSet(P[x]),
         \A x, y \in S : x # y => P[x] \cap P[y] = {}, NEW s, NEW r
  PROVE  Occurs(UNION {P[x] : x \in S}, s, r) =
           SumFunctionOnSet([x \in S |-> Occurs(P[x], s, r)], S)
  <1> DEFINE Q == [x \in S |-> {k \in P[x] : s[k] = r}]
             U == UNION {Q[x] : x \in S}
             f == [x \in S |-> Cardinality(Q[x])]
  <1>1. \A x \in S : Q[x] \subseteq P[x] /\ IsFiniteSet(Q[x])
    BY FS_Subset
  <1>2. \A x, y \in S : x # y => Q[x] \cap Q[y] = {}
    OBVIOUS
  <1>3. {k \in UNION {P[x] : x \in S} : s[k] = r} = U
    OBVIOUS
  <1>4. f = [x \in S |-> Occurs(P[x], s, r)]
    BY DEF Occurs
  <1> HIDE DEF Q
  <1>5. Cardinality(U) = SumFunctionOnSet(f, S)
    BY <1>1, <1>2, DisjointUnion
  <1> QED BY <1>3, <1>4, <1>5 DEF Occurs

-----------------------------------------------------------------------------
(* Threads of a team of n. *)
LEMMA TeamPart ==
  ASSUME NEW n \in Nat, NEW S \in SUBSET (0 .. (n - 1))
  PROVE  IsFiniteSet(S) /\ Cardinality(S) \in Nat /\ Cardinality(S) <= n
  <1>1. IsFiniteSet(0 .. (n - 1)) /\ Cardinality(0 .. (n - 1)) = n
    BY FS_Interval
  <1> QED BY <1>1, FS_Subset, FS_CardinalityType

(* A cursor that has passed its len tiles once for each thread that has gone
   has room for one thread more.                                            *)
LEMMA RoomForOneMore ==
  ASSUME NEW n \in Nat, NEW gone \in SUBSET (0 .. (n - 1)), NEW t \in 0 .. (n - 1), t \notin gone,
         NEW len \in Nat, NEW cursor \in Nat, cursor <= len + Cardinality(gone),
         NEW mod \in Nat \ {0}, len + n < mod
  PROVE  (cursor + 1) % mod = cursor + 1 /\ cursor + 1 < mod
  <1> DEFINE g == Cardinality(gone)
             h == Cardinality(gone \union {t})
  <1>1. IsFiniteSet(gone) /\ g \in Nat
    BY TeamPart
  <1>2. h = g + 1
    BY <1>1, FS_AddElement
  <1>3. h <= n
    <2>1. gone \union {t} \in SUBSET (0 .. (n - 1))
      OBVIOUS
    <2> QED BY ONLY <2>1, n \in Nat, TeamPart, Zenon
  <1>4. cursor <= len + g
    OBVIOUS
  <1> HIDE DEF g, h
  <1>5. cursor + 1 < mod /\ cursor + 1 \in Nat
    BY <1>1, <1>2, <1>3, <1>4
  <1> QED BY <1>5, NoWrap
===============================================================================
