--------------------------- MODULE OmpFilterProofs ---------------------------
(***************************************************************************)
(* Safety of the parallel filters, and that they implement the sequential  *)
(* ones step by step, for every team, table, selection, predicate, size of *)
(* the morsels and width of the types that satisfy the assumptions of      *)
(* OmpFilter.                                                              *)
(***************************************************************************)
EXTENDS OmpFilter, CommonLemmas, FunctionTheorems

-----------------------------------------------------------------------------
(* The loop of push_back() over the rows of a morsel. *)

(* The function that PushMatches evaluates at last. *)
IsLoop(g, found, rows, first, last, wanted) ==
  g = [k \in (first - 1) .. last |->
         IF k = first - 1 THEN found
         ELSE IF rows[k] \in wanted THEN Append(g[k - 1], rows[k])
         ELSE g[k - 1]]

LEMMA LoopExists ==
  ASSUME NEW found, NEW rows, NEW first \in Int, NEW last \in Int, NEW wanted
  PROVE  \A n \in (first - 1) .. last : \E g : IsLoop(g, found, rows, first, n, wanted)
  <1> DEFINE a == first - 1
             good == {n \in a .. last : \E g : IsLoop(g, found, rows, first, n, wanted)}
  <1>1. ASSUME a <= last PROVE a \in good
    <2>1. IsLoop([k \in a .. a |-> found], found, rows, first, a, wanted)
      BY DEF IsLoop
    <2> QED BY <1>1, <2>1
  <1>2. ASSUME NEW n \in a .. (last - 1), n \in good PROVE n + 1 \in good
    <2>1. PICK g : IsLoop(g, found, rows, first, n, wanted)
      BY <1>2
    <2> DEFINE h == [k \in a .. (n + 1) |->
                       IF k = n + 1
                       THEN IF rows[k] \in wanted THEN Append(g[n], rows[k]) ELSE g[n]
                       ELSE g[k]]
    <2>2. \A k \in a .. n : h[k] = g[k]
      OBVIOUS
    <2>3. h = [k \in a .. (n + 1) |->
                 IF k = a THEN found
                 ELSE IF rows[k] \in wanted THEN Append(h[k - 1], rows[k])
                 ELSE h[k - 1]]
      <3>1. ASSUME NEW k \in a .. (n + 1), k # n + 1
            PROVE  h[k] = IF k = a THEN found
                          ELSE IF rows[k] \in wanted THEN Append(h[k - 1], rows[k])
                          ELSE h[k - 1]
        <4>1. k \in a .. n /\ (k # a => k - 1 \in a .. n)
          BY <3>1
        <4>2. g[k] = IF k = a THEN found
                     ELSE IF rows[k] \in wanted THEN Append(g[k - 1], rows[k])
                     ELSE g[k - 1]
          BY <2>1, <4>1 DEF IsLoop
        <4> HIDE DEF h
        <4> QED BY <2>2, <4>1, <4>2
      <3>2. /\ n + 1 \in a .. (n + 1) /\ n + 1 # a /\ (n + 1) - 1 = n
            /\ h[n + 1] = IF rows[n + 1] \in wanted THEN Append(h[n], rows[n + 1]) ELSE h[n]
        BY <2>2
      <3> QED BY <3>1, <3>2
    <2>4. IsLoop(h, found, rows, first, n + 1, wanted)
      BY <2>3 DEF IsLoop
    <2>5. n + 1 \in a .. last
      OBVIOUS
    <2> HIDE DEF h
    <2> QED BY <2>4, <2>5
  <1> SUFFICES ASSUME NEW n \in a .. last PROVE n \in good
    OBVIOUS
  <1> HIDE DEF good
  <1>3. a \in Int /\ a <= last
    OBVIOUS
  <1> QED BY <1>1, <1>2, <1>3, UpwardInduction

LEMMA LoopUnique ==
  ASSUME NEW found, NEW rows, NEW first \in Int, NEW m \in Int, NEW n \in Int, NEW wanted,
         NEW g, IsLoop(g, found, rows, first, m, wanted),
         NEW h, IsLoop(h, found, rows, first, n, wanted), first - 1 <= m, m <= n
  PROVE  g[m] = h[m]
  <1> DEFINE a == first - 1
             good == {k \in a .. m : g[k] = h[k]}
  <1>1. a \in good
    BY DEF IsLoop
  <1>2. ASSUME NEW k \in a .. (m - 1), k \in good PROVE k + 1 \in good
    <2>1. k + 1 \in a .. m /\ k + 1 \in a .. n /\ k + 1 # a /\ (k + 1) - 1 = k
      OBVIOUS
    <2>2. g[k + 1] = IF rows[k + 1] \in wanted THEN Append(g[k], rows[k + 1]) ELSE g[k]
      BY <2>1 DEF IsLoop
    <2>3. h[k + 1] = IF rows[k + 1] \in wanted THEN Append(h[k], rows[k + 1]) ELSE h[k]
      BY <2>1 DEF IsLoop
    <2> QED BY <1>2, <2>1, <2>2, <2>3
  <1> HIDE DEF good
  <1>3. \A k \in a .. m : k \in good
    BY <1>1, <1>2, UpwardInduction
  <1> QED BY <1>3 DEF good

(* The loop, turn by turn. *)
LEMMA PushStep ==
  ASSUME NEW found, NEW rows, NEW first \in Int, NEW n \in Int, NEW wanted,
         first - 1 <= n
  PROVE  /\ PushMatches(found, rows, first, first - 1, wanted) = found
         /\ PushMatches(found, rows, first, n + 1, wanted) =
              IF rows[n + 1] \in wanted
              THEN Append(PushMatches(found, rows, first, n, wanted), rows[n + 1])
              ELSE PushMatches(found, rows, first, n, wanted)
  <1> DEFINE G(k) == CHOOSE g : IsLoop(g, found, rows, first, k, wanted)
             a == first - 1
  <1>1. ASSUME NEW k
        PROVE  PushMatches(found, rows, first, k, wanted) = G(k)[k]
    BY DEF PushMatches, IsLoop
  <1>2. ASSUME NEW k \in Int, a <= k
        PROVE  IsLoop(G(k), found, rows, first, k, wanted)
    <2>1. k \in a .. k
      BY <1>2
    <2> QED BY <2>1, LoopExists
  <1> HIDE DEF G
  <1>3. G(a)[a] = found
    BY <1>2 DEF IsLoop
  <1>4. /\ n + 1 \in a .. (n + 1) /\ n + 1 # a /\ (n + 1) - 1 = n
        /\ n + 1 \in Int /\ a <= n + 1 /\ n <= n + 1
    OBVIOUS
  <1>5. IsLoop(G(n), found, rows, first, n, wanted)
    BY <1>2
  <1>6. IsLoop(G(n + 1), found, rows, first, n + 1, wanted)
    BY <1>2, <1>4
  <1>7. G(n + 1)[n + 1] = IF rows[n + 1] \in wanted
                          THEN Append(G(n + 1)[n], rows[n + 1]) ELSE G(n + 1)[n]
    BY <1>4, <1>6 DEF IsLoop
  <1>8. G(n)[n] = G(n + 1)[n]
    BY <1>4, <1>5, <1>6, LoopUnique
  <1> QED BY <1>1, <1>3, <1>7, <1>8

LEMMA AppendOccurs ==
  ASSUME NEW S, NEW s \in Seq(S), NEW x \in S, NEW r
  PROVE  Occurrences(Append(s, x), r) = Occurrences(s, r) + IF x = r THEN 1 ELSE 0
  <1> DEFINE n == Len(s)
             A == {k \in DOMAIN s : s[k] = r}
             B == {k \in DOMAIN Append(s, x) : Append(s, x)[k] = r}
  <1>1. /\ n \in Nat /\ DOMAIN s = 1 .. n /\ DOMAIN Append(s, x) = 1 .. (n + 1)
        /\ \A k \in 1 .. n : Append(s, x)[k] = s[k]
        /\ Append(s, x)[n + 1] = x
    OBVIOUS
  <1>2. IsFiniteSet(A) /\ n + 1 \notin A /\ Cardinality(A) \in Nat
    <2>1. IsFiniteSet(1 .. n)
      BY <1>1, FS_Interval
    <2> QED BY <1>1, <2>1, FS_Subset, FS_CardinalityType
  <1>3. 1 .. (n + 1) = (1 .. n) \union {n + 1}
    BY <1>1
  <1>4. B = IF x = r THEN A \union {n + 1} ELSE A
    BY <1>1, <1>3
  <1>5. Occurrences(s, r) = Cardinality(A) /\ Occurrences(Append(s, x), r) = Cardinality(B)
    BY DEF Occurrences
  <1> HIDE DEF A, B, n
  <1>6. Cardinality(B) = Cardinality(A) + IF x = r THEN 1 ELSE 0
    <2>1. Cardinality(A \union {n + 1}) = Cardinality(A) + 1
      BY ONLY <1>2, FS_AddElement
    <2>2. CASE x = r
      BY ONLY <1>4, <2>1, <2>2
    <2>3. CASE x # r
      BY ONLY <1>2, <1>4, <2>3
    <2> QED BY ONLY <2>2, <2>3
  <1> QED BY ONLY <1>5, <1>6

(* The loop over the positions P appends each wanted row as often as it
   meets it: from found it has made s.                                      *)
Gains(s, found, rows, P, wanted, r) ==
  Occurrences(s, r) =
    Occurrences(found, r) + (IF r \in wanted THEN Occurs(P, rows, r) ELSE 0)

LEMMA PushOccurs ==
  ASSUME NEW S, NEW found \in Seq(S), NEW rows, NEW first \in Int, NEW last \in Int,
         first - 1 <= last, \A k \in first .. last : rows[k] \in S, NEW wanted, NEW r
  PROVE  /\ PushMatches(found, rows, first, last, wanted) \in Seq(S)
         /\ Gains(PushMatches(found, rows, first, last, wanted), found, rows, first .. last,
                  wanted, r)
  <1> DEFINE P(k) == PushMatches(found, rows, first, k, wanted)
             a == first - 1
             good == {k \in a .. last :
                        /\ P(k) \in Seq(S)
                        /\ Occurrences(P(k), r) =
                             Occurrences(found, r)
                               + (IF r \in wanted THEN Occurs(first .. k, rows, r) ELSE 0)}
  <1>1. a \in good
    <2>1. P(a) = found /\ first .. a = {} /\ a \in a .. last
      BY PushStep
    <2>2. Occurs(first .. a, rows, r) = 0
      BY <2>1, FS_EmptySet DEF Occurs
    <2>3. Occurrences(found, r) \in Nat
      <3>1. IsFiniteSet(DOMAIN found)
        BY FS_Interval
      <3> QED BY <3>1, FS_Subset, FS_CardinalityType DEF Occurrences
    <2> HIDE DEF P
    <2> QED BY <2>1, <2>2, <2>3
  <1>2. ASSUME NEW k \in a .. (last - 1), k \in good PROVE k + 1 \in good
    <2>1. /\ k + 1 \in a .. last /\ k + 1 \in first .. last /\ k \in Int /\ a <= k
          /\ first .. (k + 1) = (first .. k) \union {k + 1}
          /\ (first .. k) \cap {k + 1} = {}
      OBVIOUS
    <2>2. P(k + 1) = IF rows[k + 1] \in wanted THEN Append(P(k), rows[k + 1]) ELSE P(k)
      BY <2>1, PushStep
    <2>3. rows[k + 1] \in S
      BY <2>1
    <2>4. /\ P(k) \in Seq(S)
          /\ Occurrences(P(k), r) =
               Occurrences(found, r)
                 + (IF r \in wanted THEN Occurs(first .. k, rows, r) ELSE 0)
      BY <1>2
    <2> HIDE DEF P, good
    <2>5. P(k + 1) \in Seq(S)
      <3> DEFINE p == P(k)
                 q == P(k + 1)
                 x == rows[k + 1]
      <3>1. (q = Append(p, x) \/ q = p) /\ x \in S /\ p \in Seq(S)
        BY <2>2, <2>3, <2>4
      <3> HIDE DEF p, q, x
      <3>2. q \in Seq(S)
        BY ONLY <3>1
      <3> QED BY <3>2 DEF q
    <2>6. Occurrences(P(k + 1), r) =
            Occurrences(found, r)
              + (IF r \in wanted THEN Occurs(first .. (k + 1), rows, r) ELSE 0)
      <3> DEFINE o == Occurrences(found, r)
                 p == Occurrences(P(k), r)
                 q == Occurrences(P(k + 1), r)
                 c == Occurs(first .. k, rows, r)
                 d == Occurs({k + 1}, rows, r)
                 e == Occurs(first .. (k + 1), rows, r)
      <3>1. IsFiniteSet(first .. k) /\ IsFiniteSet({k + 1}) /\ IsFiniteSet(DOMAIN found)
        <4>1. DOMAIN found = 1 .. Len(found) /\ Len(found) \in Int /\ 1 \in Int
          OBVIOUS
        <4>2. IsFiniteSet(DOMAIN found)
          BY ONLY <4>1, FS_Interval, Zenon
        <4>3. IsFiniteSet(first .. k)
          BY ONLY <2>1, first \in Int, FS_Interval, Zenon
        <4>4. IsFiniteSet({k + 1})
          BY ONLY FS_Singleton, Zenon
        <4> QED BY ONLY <4>2, <4>3, <4>4
      <3>2. e = c + d
        BY <2>1, <3>1, OccurrencesAdd
      <3>3. c \in Nat /\ o \in Nat
        BY <3>1, FS_Subset, FS_CardinalityType DEF Occurs, Occurrences
      <3>4. d = IF rows[k + 1] = r THEN 1 ELSE 0
        <4>1. CASE rows[k + 1] = r
          <5>1. {l \in {k + 1} : rows[l] = r} = {k + 1}
            BY <4>1
          <5> QED BY <4>1, <5>1, FS_Singleton DEF Occurs
        <4>2. CASE rows[k + 1] # r
          <5>1. {l \in {k + 1} : rows[l] = r} = {}
            BY <4>2
          <5> QED BY <4>2, <5>1, FS_EmptySet DEF Occurs
        <4> QED BY <4>1, <4>2
      <3>5. p = o + (IF r \in wanted THEN c ELSE 0)
        BY <2>4
      <3>6. q = IF rows[k + 1] \in wanted
                THEN p + (IF rows[k + 1] = r THEN 1 ELSE 0) ELSE p
        BY <2>2, <2>3, <2>4, AppendOccurs
      <3> HIDE DEF o, p, q, c, d, e
      <3>7. q = o + (IF r \in wanted THEN e ELSE 0)
        BY <3>2, <3>3, <3>4, <3>5, <3>6
      <3> QED BY <3>7 DEF o, q, e
    <2> QED BY <2>1, <2>5, <2>6 DEF good
  <1> HIDE DEF good
  <1>3. \A k \in a .. last : k \in good
    BY <1>1, <1>2, UpwardInduction
  <1>4. last \in good
    BY <1>3
  <1> QED BY <1>4 DEF good, Gains

(* s has rows of the positions P only, in the order of the positions. *)
InOrder(s, rows, P) ==
  /\ \A k \in DOMAIN s : \E p \in P : rows[p] = s[k]
  /\ \A k, l \in DOMAIN s : k < l =>
       \A p, q \in DOMAIN rows : rows[p] = s[k] /\ rows[q] = s[l] => p < q

LEMMA InOrderMore ==
  ASSUME NEW s, NEW rows, NEW P, NEW Q, InOrder(s, rows, P), P \subseteq Q
  PROVE  InOrder(s, rows, Q)
  BY DEF InOrder

(* The loop keeps the order of the positions. *)
LEMMA PushOrdered ==
  ASSUME NEW S, NEW rows, IsInjective(rows), NEW P, P \subseteq Int,
         NEW found \in Seq(S), InOrder(found, rows, P),
         NEW first \in Int, NEW last \in Int, first - 1 <= last,
         first .. last \subseteq DOMAIN rows, P \subseteq DOMAIN rows,
         \A k \in first .. last : rows[k] \in S, \A p \in P : p < first, NEW wanted
  PROVE  InOrder(PushMatches(found, rows, first, last, wanted), rows, P \union (first .. last))
  <1> DEFINE G(k) == PushMatches(found, rows, first, k, wanted)
             a == first - 1
             good == {k \in a .. last : InOrder(G(k), rows, P \union (first .. k))}
  <1>1. a \in good
    <2>1. G(a) = found /\ first .. a = {} /\ a \in a .. last
      BY PushStep
    <2>2. P \union (first .. a) = P
      BY <2>1
    <2> HIDE DEF G
    <2> QED BY <2>1, <2>2
  <1>2. ASSUME NEW k \in a .. (last - 1), k \in good PROVE k + 1 \in good
    <2>1. /\ k + 1 \in a .. last /\ k + 1 \in first .. last /\ k \in Int /\ a <= k
          /\ first .. (k + 1) = (first .. k) \union {k + 1}
          /\ k <= last /\ \A l \in first .. k : l \in first .. last
      OBVIOUS
    <2>2. G(k + 1) = IF rows[k + 1] \in wanted THEN Append(G(k), rows[k + 1]) ELSE G(k)
      BY <2>1, PushStep
    <2>3. G(k) \in Seq(S) /\ rows[k + 1] \in S
      BY <2>1, PushOccurs
    <2>4. InOrder(G(k), rows, P \union (first .. k))
      BY <1>2
    <2> HIDE DEF G, good
    <2>5. \A p \in P \union (first .. k) : p \in DOMAIN rows /\ p < k + 1 /\ p \in Int
      BY <2>1
    <2>6. CASE rows[k + 1] \notin wanted
      <3>1. P \union (first .. k) \subseteq P \union (first .. (k + 1))
        BY <2>1
      <3>2. InOrder(G(k + 1), rows, P \union (first .. (k + 1)))
        BY <2>2, <2>4, <2>6, <3>1, InOrderMore
      <3> QED BY <2>1, <3>2 DEF good
    <2>7. CASE rows[k + 1] \in wanted
      <3> DEFINE s == G(k)
                 u == G(k + 1)
                 n == Len(s)
      <3>1. /\ n \in Nat /\ DOMAIN s = 1 .. n /\ DOMAIN u = 1 .. (n + 1)
            /\ \A l \in 1 .. n : u[l] = s[l]
            /\ u[n + 1] = rows[k + 1]
        BY <2>2, <2>3, <2>7
      <3>2. k + 1 \in DOMAIN rows /\ k + 1 \in P \union (first .. (k + 1))
        BY <2>1
      <3> HIDE DEF n, s, u
      <3>3. InOrder(s, rows, P \union (first .. k))
        BY <2>4 DEF s
      <3>4. ASSUME NEW l \in DOMAIN u
            PROVE  \E p \in P \union (first .. (k + 1)) : rows[p] = u[l]
        <4>1. CASE l = n + 1
          BY <3>1, <3>2, <4>1
        <4>2. CASE l # n + 1
          <5>1. l \in DOMAIN s /\ u[l] = s[l]
            BY <3>1, <4>2
          <5> QED BY <2>1, <3>3, <5>1 DEF InOrder
        <4> QED BY <4>1, <4>2
      <3>5. ASSUME NEW i \in DOMAIN u, NEW j \in DOMAIN u, i < j,
                   NEW p \in DOMAIN rows, NEW q \in DOMAIN rows,
                   rows[p] = u[i], rows[q] = u[j]
            PROVE  p < q
        <4>1. i \in DOMAIN s /\ u[i] = s[i]
          BY <3>1, <3>5
        <4>2. CASE j = n + 1
          <5>1. q = k + 1
            BY <3>1, <3>2, <3>5, <4>2 DEF IsInjective
          <5>2. PICK x \in P \union (first .. k) : rows[x] = s[i]
            BY <3>3, <4>1 DEF InOrder
          <5>3. x = p
            BY <2>5, <3>5, <4>1, <5>2 DEF IsInjective
          <5> QED BY <2>5, <5>1, <5>3
        <4>3. CASE j # n + 1
          <5>1. j \in DOMAIN s /\ u[j] = s[j]
            BY <3>1, <4>3
          <5> QED BY <3>3, <3>5, <4>1, <5>1 DEF InOrder
        <4> QED BY <4>2, <4>3
      <3>6. InOrder(u, rows, P \union (first .. (k + 1)))
        BY <3>4, <3>5 DEF InOrder
      <3> QED BY <2>1, <3>6 DEF u, good
    <2> QED BY <2>6, <2>7
  <1> HIDE DEF good
  <1>3. \A k \in a .. last : k \in good
    BY <1>1, <1>2, UpwardInduction
  <1>4. last \in good
    BY <1>3
  <1> QED BY <1>4 DEF good

(* Vectors of the same rows, equally often, have the same length. *)
LEMMA EquallyLong ==
  ASSUME NEW S, IsFiniteSet(S), NEW s \in Seq(S), NEW u \in Seq(S),
         \A r \in S : Occurrences(s, r) = Occurrences(u, r)
  PROVE  Len(s) = Len(u)
  <1>1. ASSUME NEW v \in Seq(S)
        PROVE  Len(v) = SumFunctionOnSet([r \in S |-> Occurrences(v, r)], S)
    <2>1. /\ IsFiniteSet(DOMAIN v) /\ Cardinality(DOMAIN v) = Len(v)
          /\ \A k \in DOMAIN v : v[k] \in S
      <3>1. Len(v) \in Nat /\ DOMAIN v = 1 .. Len(v)
        OBVIOUS
      <3>2. ASSUME NEW n \in Nat PROVE IsFiniteSet(1 .. n) /\ Cardinality(1 .. n) = n
        BY FS_Interval
      <3> QED BY <3>1, <3>2
    <2>2. [r \in S |-> Occurrences(v, r)] = [r \in S |-> Occurs(DOMAIN v, v, r)]
      BY DEF Occurrences, Occurs
    <2>3. Cardinality(DOMAIN v) = SumFunctionOnSet([r \in S |-> Occurs(DOMAIN v, v, r)], S)
      BY ONLY <2>1, CountByValue, IsFiniteSet(S), Zenon
    <2> QED BY <2>1, <2>2, <2>3
  <1>2. [r \in S |-> Occurrences(s, r)] = [r \in S |-> Occurrences(u, r)]
    OBVIOUS
  <1> QED BY <1>1, <1>2
-----------------------------------------------------------------------------
(***************************************************************************)
(* The control of the team.  Once somebody has entered the single, either  *)
(* that thread is still at the resize or the slots are those of the team;  *)
(* and beyond the barrier nobody is before or in the single.               *)
(***************************************************************************)
Labels == {"single", "resize", "barrier", "work", "forEnd", "publish", "done"}

Before == {"single", "resize"}

TeamOK ==
  /\ numThreads \in Nat \ {0}
  /\ pc \in [Team -> Labels]

OneResizes == \A t, u \in Team : pc[t] = "resize" /\ pc[u] = "resize" => t = u

SingleTaken ==
  /\ \A t \in Team : pc[t] # "single" => singleTaken
  /\ singleTaken => DOMAIN slots = Team \/ \E t \in Team : pc[t] = "resize"

BeyondBarrier ==
  \A t, u \in Team : pc[t] \in {"work", "forEnd", "publish", "done"} => pc[u] \notin Before

TeamInv ==
  /\ TeamOK
  /\ ~busy => Joined
  /\ busy => OneResizes /\ SingleTaken /\ BeyondBarrier

-----------------------------------------------------------------------------
LEMMA ForkedTeamInv ==
  ASSUME NEW n \in Nat \ {0}, Begin(n)
  PROVE  TeamInv'
  <1>1. /\ numThreads' = n /\ Team' = 0 .. (n - 1) /\ busy' = TRUE
        /\ pc' = [t \in 0 .. (n - 1) |-> "single"] /\ singleTaken' = FALSE
    BY DEF Begin, Fork, Team
  <1> QED BY <1>1 DEF TeamInv, TeamOK, Labels, OneResizes, SingleTaken, BeyondBarrier, Before

(* The steps of the threads: only one of them changes its place at a time. *)
LEMMA StepTeamInv ==
  ASSUME TeamInv, NEW t, TeamStep(t)
  PROVE  TeamInv'
  <1>1. t \in Team /\ pc[t] # "done" /\ numThreads' = numThreads /\ busy' = busy
    BY DEF TeamStep, WinSingle, SkipSingle, Resize, PassBarrier, PassForEnd, Publish,
           At, queryVars
  <1>2. busy /\ Team' = Team
    BY <1>1 DEF TeamInv, Joined, Team
  <1> USE DEF At, GoTo, TeamInv, TeamOK, Labels, OneResizes, SingleTaken, BeyondBarrier, Before
  <1>3. CASE WinSingle(t)
    BY <1>1, <1>2, <1>3 DEF WinSingle
  <1>4. CASE SkipSingle(t)
    BY <1>1, <1>2, <1>4 DEF SkipSingle
  <1>5. CASE Resize(t, <<>>)
    BY <1>1, <1>2, <1>5 DEF Resize
  <1>6. CASE PassBarrier(t)
    BY <1>1, <1>2, <1>6 DEF PassBarrier
  <1>7. CASE PassForEnd(t)
    BY <1>1, <1>2, <1>7 DEF PassForEnd
  <1>8. CASE Publish(t, <<>>)
    BY <1>1, <1>2, <1>8 DEF Publish
  <1> QED BY <1>3, <1>4, <1>5, <1>6, <1>7, <1>8 DEF TeamStep

LEMMA WorkTeamInv ==
  ASSUME TeamInv, NEW t, Work(t) \/ LeaveLoop(t)
  PROVE  TeamInv'
  <1>1. /\ t \in Team /\ pc[t] = "work" /\ busy' = busy
        /\ UNCHANGED <<numThreads, singleTaken, slots>>
        /\ \/ pc' = pc
           \/ pc' = [pc EXCEPT ![t] = "publish"]
           \/ pc' = [pc EXCEPT ![t] = "forEnd"]
    BY DEF Work, LeaveLoop, At, GoTo, queryVars
  <1>2. busy /\ Team' = Team
    BY <1>1 DEF TeamInv, Joined, Team
  <1> QED BY <1>1, <1>2 DEF TeamInv, TeamOK, Labels, OneResizes, SingleTaken, BeyondBarrier, Before

LEMMA CallerTeamInv ==
  ASSUME TeamInv, AppendSlot \/ Return \/ UNCHANGED vars
  PROVE  TeamInv'
  <1> USE DEF TeamInv, TeamOK, OneResizes, SingleTaken, BeyondBarrier, Joined, Team
  <1>1. CASE AppendSlot
    BY <1>1 DEF AppendSlot, teamVars
  <1>2. CASE Return
    BY <1>2 DEF Return, Release
  <1>3. CASE UNCHANGED vars
    BY <1>3 DEF vars, teamVars, queryVars
  <1> QED BY <1>1, <1>2, <1>3

-----------------------------------------------------------------------------
(***************************************************************************)
(* The inductive invariant of what the threads hold.  MatchesHeldOnce      *)
(* needs that the morsels divide the input, in whatever order they come,   *)
(* and that the cursor, which goes on counting the threads that found      *)
(* nothing left, does not wrap into them again; that a slot is empty until *)
(* its thread is done and a local vector after; and that the concatenation *)
(* begins when all are done.  SlicesInOrder speaks of rows that are in a   *)
(* slice; that the next morsel keeps the order rests on where those rows   *)
(* come from (SlicesSeen) and on the allocator's morsels being tiles in    *)
(* the order of the table.                                                 *)
(***************************************************************************)
Gone == {t \in Team : pc[t] \in {"forEnd", "publish", "done"}}

WorkShared ==
  /\ totalRows = Len(input) /\ totalRows <= MaxRows
  /\ Divided(totalRows, morsels)
  /\ whole => Tiled(totalRows, morselSize, morsels) /\ input = WholeTable(totalRows)
  /\ cursor <= Len(morsels) + Cardinality(Gone)
  /\ \A t \in Gone : ~IsMorsel(cursor)

SlotsFilled ==
  /\ \A t \in DOMAIN slots : pc[t] # "done" => slots[t] = <<>>
  /\ \A t \in Team : pc[t] = "done" => local[t] = <<>>
  /\ ~Joined => nextSlot = 0

SlicesSeen ==
  busy /\ whole =>
    /\ \A t \in Team : InOrder(local[t], input, PositionsSeen)
    /\ \A t \in DOMAIN slots : InOrder(slots[t], input, PositionsSeen)

FilterInv == TypeOK /\ WorkShared /\ SlotsFilled /\ MatchesHeldOnce /\ SlicesSeen

IInv == TeamInv /\ FilterInv

-----------------------------------------------------------------------------
(* partition() tiles the table. *)
LEMMA TableTiled ==
  ASSUME NEW n \in 0 .. MaxRows
  PROVE  Tiled(n, EffectiveSize(DefaultMorselSize),
               IF n = 0 THEN <<>> ELSE Cut(n, EffectiveSize(DefaultMorselSize)))
  <1>1. /\ EffectiveSize(DefaultMorselSize) = DefaultMorselSize
        /\ DefaultMorselSize \in Nat \ {0} /\ n \in Nat /\ n < RowMod
        /\ n + DefaultMorselSize - 1 < SizeMod
    BY MorselAssumption, FilterAssumption, WidthAssumption DEF EffectiveSize
  <1>2. Tiled(n, DefaultMorselSize, Cut(n, DefaultMorselSize))
    BY ONLY <1>1, WidthAssumption, CutTiled, Zenon
       DEF Cut, MorselCount, StartRow, EndRow, NarrowStart, NarrowEnd
  <1> QED BY <1>1, <1>2, EmptyTiled

(* The dynamic loop divides the selection, in whatever order the chunks come. *)
LEMMA LoopDivided ==
  ASSUME NEW n \in Nat, ShareLoop(n)
  PROVE  /\ Divided(n, morsels') /\ totalRows' = n /\ cursor' = 0
         /\ morselSize' \in Nat \ {0}
  <1> DEFINE c == Chunks(n)
  <1>1. Tiled(n, ChunkSize, c) /\ ChunkSize \in Nat \ {0}
    BY ONLY n \in Nat, ChunkAssumption, ChunksTiled, Zenon DEF Chunks
  <1> HIDE DEF c
  <1>2. Divided(n, c)
    BY ONLY n \in Nat, <1>1, TiledDivided
  <1>3. DOMAIN c = 1 .. Len(c)
    BY <1>2, DividedTyped
  <1>4. PICK order \in Bijection(1 .. Len(c), 1 .. Len(c)) :
          morsels' = [k \in 1 .. Len(c) |-> c[order[k]]]
    BY <1>3 DEF ShareLoop, c
  <1>5. Divided(n, morsels')
    BY <1>2, <1>4, ReorderedDivided
  <1> QED BY <1>1, <1>5 DEF ShareLoop

LEMMA SeenIsBehind == PositionsSeen = Behind(morsels, cursor)
  BY DEF PositionsSeen, IsMorsel, MorselAt, PositionsOf, Behind, Positions

(* What a call works on, as the lemmas about morsels take it. *)
LEMMA InputDivided ==
  ASSUME TypeOK, WorkShared
  PROVE  /\ cursor \in Nat /\ Len(input) \in Nat /\ DOMAIN input = 1 .. Len(input)
         /\ Divided(Len(input), morsels)
         /\ Len(morsels) \in Nat
         /\ \A k \in DOMAIN input : input[k] \in Rows
  BY DEF TypeOK, WorkShared

(* The cursor does not wrap: besides the morsels it counts the threads that
   have found none left.                                                    *)
LEMMA CursorMoves ==
  ASSUME TypeOK, WorkShared, NEW t \in Team, pc[t] = "work", FetchAdd
  PROVE  cursor' = cursor + 1 /\ cursor' \in 0 .. SizeMod - 1
  <1> DEFINE len == Len(morsels)
  <1>1. /\ numThreads \in Nat /\ numThreads <= MaxThreads /\ MaxThreads \in Nat
        /\ cursor \in Nat /\ MaxRows \in Nat /\ MaxRows + MaxThreads < SizeMod
        /\ SizeMod \in Nat \ {0}
    BY FilterAssumption, TeamAssumption, WidthAssumption DEF TypeOK
  <1>2. len \in Nat /\ len <= MaxRows /\ cursor <= len + Cardinality(Gone)
    BY <1>1 DEF WorkShared, Divided, TypeOK
  <1>3. Gone \in SUBSET (0 .. (numThreads - 1)) /\ t \in 0 .. (numThreads - 1) /\ t \notin Gone
    BY DEF Gone, Team
  <1> HIDE DEF len
  <1>4. len + numThreads < SizeMod
    BY <1>1, <1>2
  <1>5. (cursor + 1) % SizeMod = cursor + 1 /\ cursor + 1 < SizeMod
    BY ONLY <1>1, <1>2, <1>3, <1>4, RoomForOneMore, Zenon
  <1> QED BY <1>1, <1>5 DEF FetchAdd

(* How often a row is held is a number, and an empty vector holds none. *)
LEMMA OccurrencesNat ==
  ASSUME NEW S, NEW s \in Seq(S), NEW r
  PROVE  Occurrences(s, r) \in Nat
  <1>1. IsFiniteSet(DOMAIN s)
    BY FS_Interval
  <1> QED BY <1>1, FS_Subset, FS_CardinalityType DEF Occurrences

LEMMA NoneInEmpty ==
  ASSUME NEW r
  PROVE  Occurrences(<<>>, r) = 0
  <1>1. {k \in DOMAIN <<>> : <<>>[k] = r} = {}
    OBVIOUS
  <1> QED BY <1>1, FS_EmptySet DEF Occurrences

LEMMA ConcatOccurs ==
  ASSUME NEW S, NEW s \in Seq(S), NEW u \in Seq(S), NEW r
  PROVE  Occurrences(s \o u, r) = Occurrences(s, r) + Occurrences(u, r)
  <1> DEFINE n == Len(s)
             m == Len(u)
             A == {k \in 1 .. n : s[k] = r}
             B == {k \in 1 .. m : u[k] = r}
             C == {k \in (n + 1) .. (n + m) : u[k - n] = r}
             D == {k \in DOMAIN (s \o u) : (s \o u)[k] = r}
             f == [k \in B |-> k + n]
  <1>1. /\ n \in Nat /\ m \in Nat /\ DOMAIN s = 1 .. n /\ DOMAIN u = 1 .. m
        /\ DOMAIN (s \o u) = 1 .. (n + m)
        /\ \A k \in 1 .. n : (s \o u)[k] = s[k]
        /\ \A k \in (n + 1) .. (n + m) : (s \o u)[k] = u[k - n]
    OBVIOUS
  <1>2. /\ Occurrences(s, r) = Cardinality(A) /\ Occurrences(u, r) = Cardinality(B)
        /\ Occurrences(s \o u, r) = Cardinality(D)
    BY <1>1 DEF Occurrences
  <1> HIDE DEF n, m
  <1>3. D = A \union C /\ A \cap C = {}
    <2>1. 1 .. (n + m) = (1 .. n) \union ((n + 1) .. (n + m))
      BY <1>1
    <2>2. D = {k \in 1 .. (n + m) : (s \o u)[k] = r}
      BY <1>1
    <2>3. A \cap C = {}
      BY <1>1
    <2> HIDE DEF D
    <2> QED BY <1>1, <2>1, <2>2, <2>3
  <1>4. IsFiniteSet(A) /\ IsFiniteSet(B)
    <2>1. IsFiniteSet(1 .. n) /\ IsFiniteSet(1 .. m)
      BY <1>1, FS_Interval
    <2> QED BY <2>1, FS_Subset
  <1>5. f \in Bijection(B, C)
    <2>1. f \in [B -> C]
      BY <1>1
    <2>2. \A a, b \in B : f[a] = f[b] => a = b
      BY <1>1
    <2>3. \A k \in C : \E a \in B : f[a] = k
      <3> TAKE k \in C
      <3>1. k - n \in B /\ f[k - n] = k
        BY <1>1
      <3> QED BY <3>1
    <2> HIDE DEF f, B, C
    <2> QED BY <2>1, <2>2, <2>3, Fun_IsBij
  <1> HIDE DEF A, B, C, D, f
  <1>6. IsFiniteSet(C) /\ Cardinality(C) = Cardinality(B)
    <2>1. ExistsBijection(B, C)
      BY <1>5 DEF ExistsBijection
    <2> QED BY <1>4, <2>1, FS_Bijection
  <1>7. Cardinality(A \cap C) = 0
    BY <1>3, FS_EmptySet
  <1>8. Cardinality(A) \in Nat /\ Cardinality(B) \in Nat
    BY <1>4, FS_CardinalityType
  <1>9. Cardinality(A \union C) = Cardinality(A) + Cardinality(C) - Cardinality(A \cap C)
    BY <1>4, <1>6, FS_Union
  <1>10. Cardinality(D) = Cardinality(A) + Cardinality(B)
    BY <1>3, <1>6, <1>7, <1>8, <1>9
  <1> QED BY <1>2, <1>10

(* The threads' counts, as the sums in Held take them. *)
LEMMA HeldNumbers ==
  ASSUME TypeOK, NEW r
  PROVE  /\ numThreads \in Nat /\ Team = 0 .. (numThreads - 1) /\ IsFiniteSet(Team)
         /\ DOMAIN local = Team /\ DOMAIN slots \subseteq Team
         /\ IsFiniteSet(DOMAIN slots) /\ IsFiniteSet(Pending) /\ Pending \subseteq DOMAIN slots
         /\ \A t \in Team : local[t] \in Seq(Rows) /\ Occurrences(local[t], r) \in Nat
         /\ \A t \in DOMAIN slots : slots[t] \in Seq(Rows) /\ Occurrences(slots[t], r) \in Nat
         /\ final \in Seq(Rows) /\ Occurrences(final, r) \in Nat
  <1>1. /\ numThreads \in Nat /\ Team = 0 .. (numThreads - 1) /\ DOMAIN local = Team
        /\ DOMAIN slots \subseteq Team
        /\ \A t \in Team : local[t] \in Seq(Rows)
        /\ \A t \in DOMAIN slots : slots[t] \in Seq(Rows)
        /\ final \in Seq(Rows)
    BY TeamAssumption DEF TypeOK, Team, NoSlots
  <1>2. DOMAIN slots \in SUBSET (0 .. (numThreads - 1)) /\ Pending \in SUBSET (0 .. (numThreads - 1))
        /\ Team \in SUBSET (0 .. (numThreads - 1))
    BY <1>1 DEF Pending
  <1>3. IsFiniteSet(Team) /\ IsFiniteSet(DOMAIN slots) /\ IsFiniteSet(Pending)
    BY <1>1, <1>2, TeamPart
  <1> QED BY <1>1, <1>3, OccurrencesNat DEF Pending

-----------------------------------------------------------------------------
(* A call begins with nothing handed out and nothing found. *)
LEMMA BeginInv ==
  ASSUME NEW n \in 1 .. MaxThreads, Begin(n), cursor' = 0,
         input' \in Seq(Rows), Len(input') <= MaxRows, totalRows' = Len(input'),
         morselSize' \in Nat \ {0}, Divided(totalRows', morsels'), whole' \in BOOLEAN,
         whole' => Tiled(totalRows', morselSize', morsels') /\ input' = WholeTable(totalRows')
  PROVE  FilterInv'
  <1>1. /\ n \in Nat /\ Team' = 0 .. (n - 1) /\ numThreads' = n
        /\ DOMAIN local' = Team' /\ \A t \in Team' : local'[t] = <<>> /\ pc'[t] = "single"
        /\ slots' = NoSlots /\ DOMAIN slots' = {} /\ final' = <<>> /\ nextSlot' = 0 /\ 0 \in Team'
    BY TeamAssumption DEF Begin, Fork, Team, NoSlots
  <1>2. /\ Len(input') \in Nat /\ Len(morsels') \in Nat
        /\ morsels' \in Seq([id : Nat, start : 0 .. totalRows', end : 0 .. totalRows'])
    BY DEF Divided
  <1>3. TypeOK'
    <2>1. morsels' \in Seq([id : Nat, start : Nat, end : Nat])
      BY <1>2, TiledNat
    <2>2. /\ local' \in [Team' -> Seq(Rows)] /\ final' \in Seq(Rows)
          /\ pc' \in [Team' -> {"single", "resize", "barrier", "work", "forEnd",
                                "publish", "done"}]
      BY <1>1 DEF Begin, Fork
    <2>3. /\ cursor' \in 0 .. SizeMod - 1 /\ totalRows' \in Nat
          /\ numThreads' \in 1 .. MaxThreads /\ nextSlot' \in 0 .. numThreads'
      BY <1>1, <1>2, WidthAssumption
    <2>4. singleTaken' \in BOOLEAN /\ busy' \in BOOLEAN /\ matches' \subseteq Rows
      BY DEF Begin, Fork
    <2>5. slots' = NoSlots'
      BY <1>1 DEF NoSlots
    <2> QED BY <2>1, <2>2, <2>3, <2>4, <2>5 DEF TypeOK, Rows
  <1>4. WorkShared'
    <2>1. Gone' = {} /\ Cardinality(Gone') = 0
      BY <1>1, FS_EmptySet DEF Gone
    <2> QED BY <1>1, <1>2, <2>1 DEF WorkShared
  <1>5. SlotsFilled'
    BY <1>1 DEF SlotsFilled
  <1>6. PositionsSeen' = {}
    <2>1. Behind(morsels', cursor') = {}
      BY <1>2, BehindStart
    <2>2. PositionsSeen' = Behind(morsels', cursor')
      BY DEF PositionsSeen, IsMorsel, MorselAt, PositionsOf, Behind, Positions
    <2> QED BY <2>1, <2>2
  <1>7. MatchesHeldOnce'
    <2> SUFFICES ASSUME NEW r \in Rows
                 PROVE  /\ Held(r)' = 0
                        /\ Cardinality({k \in PositionsSeen' : input'[k] = r}) = 0
      BY DEF MatchesHeldOnce, Rows
    <2> DEFINE f == [t \in Team' |-> Occurrences(local'[t], r)]
               g == [t \in DOMAIN slots' |-> Occurrences(slots'[t], r)]
    <2>1. IsFiniteSet(Team') /\ \A t \in Team' : f[t] = 0
      <3>1. IsFiniteSet(Team')
        BY <1>1, TeamPart
      <3>2. \A t \in Team' : f[t] = 0
        BY <1>1, NoneInEmpty
      <3> QED BY <3>1, <3>2
    <2>2. Pending' = {}
      BY <1>1 DEF Pending
    <2>3. Held(r)' = SumFunctionOnSet(f, Team') + SumFunctionOnSet(g, Pending')
                       + Occurrences(final', r)
      BY DEF Held
    <2> HIDE DEF f, g
    <2>4. SumFunctionOnSet(f, Team') = 0
      BY <2>1, SumZero
    <2>5. SumFunctionOnSet(g, Pending') = 0 /\ Occurrences(final', r) = 0
      BY <1>1, <2>2, SumEmpty, NoneInEmpty
    <2>6. Cardinality({k \in PositionsSeen' : input'[k] = r}) = 0
      BY <1>6, FS_EmptySet
    <2> QED BY <2>3, <2>4, <2>5, <2>6
  <1>8. SlicesSeen'
    <2>1. \A t \in Team' : InOrder(local'[t], input', PositionsSeen')
      BY <1>1 DEF InOrder
    <2> QED BY <1>1, <2>1 DEF SlicesSeen
  <1> QED BY <1>3, <1>4, <1>5, <1>7, <1>8 DEF FilterInv

LEMMA CallInv ==
  ASSUME NEW n \in 1 .. MaxThreads,
         \/ \E rows \in 0 .. MaxRows : CallFilter(n, rows)
         \/ \E sel \in Selections : CallSubset(n, sel)
  PROVE  FilterInv'
  <1>1. ASSUME NEW rows \in 0 .. MaxRows, CallFilter(n, rows) PROVE FilterInv'
    <2>1. rows \in Nat /\ MaxRows \in Nat
      BY FilterAssumption
    <2>2. WholeTable(rows) \in [1 .. rows -> Rows]
      BY <2>1 DEF WholeTable, Rows
    <2>3. WholeTable(rows) \in Seq(Rows) /\ Len(WholeTable(rows)) = rows
      BY ONLY <2>1, <2>2, TupleIsSeq, Zenon
    <2>4. EffectiveSize(DefaultMorselSize) \in Nat \ {0}
      BY MorselAssumption DEF EffectiveSize
    <2>5. Tiled(totalRows', morselSize', morsels') /\ totalRows' = rows /\ cursor' = 0
          /\ morselSize' \in Nat \ {0}
      BY <1>1, <2>4, TableTiled DEF CallFilter, Partition
    <2>6. Divided(totalRows', morsels')
      BY <2>1, <2>5, TiledDivided
    <2> QED BY <1>1, <2>1, <2>3, <2>5, <2>6, BeginInv DEF CallFilter
  <1>2. ASSUME NEW sel \in Selections, CallSubset(n, sel) PROVE FilterInv'
    <2>1. sel \in Seq(Rows) /\ Len(sel) <= MaxRows
      BY FilterAssumption DEF Rows
    <2>2. Divided(totalRows', morsels') /\ totalRows' = Len(sel) /\ cursor' = 0
          /\ morselSize' \in Nat \ {0}
      BY <1>2, <2>1, LoopDivided DEF CallSubset
    <2> QED BY <1>2, <2>1, <2>2, BeginInv DEF CallSubset
  <1> QED BY <1>1, <1>2

LEMMA InitInv == Init => IInv
  <1> SUFFICES ASSUME Init PROVE IInv
    OBVIOUS
  <1>1. Team = {0} /\ MaxRows \in Nat /\ DOMAIN slots = {}
    BY FilterAssumption DEF Init, Team, NoSlots
  <1>2. TypeOK
    <2>1. /\ morsels \in Seq([id : Nat, start : Nat, end : Nat]) /\ input \in Seq(Rows)
          /\ cursor \in 0 .. SizeMod - 1 /\ morselSize \in Nat \ {0} /\ totalRows \in Nat
      BY WidthAssumption, MorselAssumption DEF Init
    <2>2. numThreads \in 1 .. MaxThreads /\ nextSlot \in 0 .. numThreads
      BY TeamAssumption DEF Init
    <2>3. /\ pc \in [Team -> {"single", "resize", "barrier", "work", "forEnd",
                              "publish", "done"}]
          /\ local \in [Team -> Seq(Rows)] /\ final \in Seq(Rows)
      BY <1>1 DEF Init
    <2> QED BY <2>1, <2>2, <2>3 DEF Init, TypeOK
  <1>3. WorkShared
    <2>1. Gone \in SUBSET (0 .. (1 - 1)) /\ Cardinality(Gone) \in Nat
      BY <1>1, TeamPart DEF Gone
    <2>2. Tiled(0, DefaultMorselSize, <<>>) /\ Divided(0, <<>>)
      BY MorselAssumption, EmptyTiled, TiledDivided
    <2>3. WholeTable(0) = <<>>
      BY DEF WholeTable
    <2> QED BY <1>1, <2>1, <2>2, <2>3 DEF Init, WorkShared, IsMorsel
  <1>4. SlotsFilled
    BY <1>1 DEF Init, SlotsFilled
  <1>5. TeamInv
    BY DEF Init, TeamInv, TeamOK, Team, Labels, Joined
  <1>6. MatchesHeldOnce /\ SlicesSeen
    BY DEF Init, MatchesHeldOnce, SlicesSeen
  <1> QED BY <1>2, <1>3, <1>4, <1>5, <1>6 DEF IInv, FilterInv

-----------------------------------------------------------------------------
(* A step that moves no row and hands none out keeps what is held. *)
StillHeld ==
  /\ UNCHANGED <<local, slots, final, nextSlot, numThreads, busy, whole, input, matches>>
  /\ PositionsSeen' = PositionsSeen

LEMMA HeldStill ==
  ASSUME MatchesHeldOnce, SlicesSeen, StillHeld
  PROVE  MatchesHeldOnce' /\ SlicesSeen'
  <1>1. Team' = Team /\ Pending' = Pending
    BY DEF StillHeld, Team, Pending
  <1>2. \A r : Held(r)' = Held(r)
    BY <1>1 DEF StillHeld, Held
  <1>3. MatchesHeldOnce'
    BY <1>2 DEF StillHeld, MatchesHeldOnce
  <1>4. SlicesSeen'
    BY <1>1 DEF StillHeld, SlicesSeen
  <1> QED BY <1>3, <1>4

(* A thread that has not left the loop waits, passes or sizes nothing yet. *)
LEMMA ControlInv ==
  ASSUME IInv, NEW t, UNCHANGED <<allocatorVars, queryVars>>,
         WinSingle(t) \/ SkipSingle(t) \/ PassBarrier(t) \/ PassForEnd(t)
  PROVE  FilterInv'
  <1>1. /\ TypeOK /\ WorkShared /\ SlotsFilled /\ MatchesHeldOnce /\ SlicesSeen
    BY DEF IInv, FilterInv
  <1>2. /\ UNCHANGED <<totalRows, morselSize, morsels, cursor, numThreads, local, slots>>
        /\ UNCHANGED <<busy, whole, input, matches, final, nextSlot>>
        /\ Team' = Team /\ t \in Team /\ pc[t] # "done" /\ singleTaken' \in BOOLEAN
    BY <1>1 DEF allocatorVars, queryVars, WinSingle, SkipSingle, PassBarrier, PassForEnd,
                At, Team, TypeOK
  <1>3. \E l \in {"resize", "barrier", "work", "publish"} :
          /\ pc' = [pc EXCEPT ![t] = l]
          /\ l = "publish" <=> pc[t] = "forEnd"
          /\ pc[t] # "publish"
    BY DEF WinSingle, SkipSingle, PassBarrier, PassForEnd, At, GoTo
  <1>4. PICK l \in {"resize", "barrier", "work", "publish"} :
          /\ pc' = [pc EXCEPT ![t] = l]
          /\ l = "publish" <=> pc[t] = "forEnd"
          /\ pc[t] # "publish"
    BY <1>3
  <1>5. /\ DOMAIN pc = Team /\ pc'[t] = l /\ \A u \in Team : u # t => pc'[u] = pc[u]
        /\ \A u \in Team : pc'[u] = "done" <=> pc[u] = "done"
    BY <1>1, <1>2, <1>4 DEF TypeOK
  <1>6. TypeOK'
    BY <1>1, <1>2, <1>4 DEF TypeOK
  <1>7. Gone' = Gone
    BY <1>2, <1>4, <1>5 DEF Gone
  <1>8. WorkShared'
    BY <1>1, <1>2, <1>7 DEF WorkShared, IsMorsel
  <1>9. SlotsFilled'
    <2>1. DOMAIN slots \subseteq Team
      BY <1>1 DEF TypeOK, NoSlots
    <2> QED BY <1>1, <1>2, <1>5, <2>1 DEF SlotsFilled, Joined
  <1>10. PositionsSeen' = PositionsSeen
    BY <1>2 DEF PositionsSeen, IsMorsel, MorselAt
  <1> QED BY <1>1, <1>2, <1>6, <1>8, <1>9, <1>10, HeldStill DEF FilterInv, StillHeld

(* thread_results.resize(): the new slots are empty, as the old ones were. *)
LEMMA ResizeInv ==
  ASSUME IInv, NEW t, UNCHANGED <<allocatorVars, queryVars>>, Resize(t, <<>>)
  PROVE  FilterInv'
  <1>1. /\ TypeOK /\ WorkShared /\ SlotsFilled /\ MatchesHeldOnce /\ SlicesSeen
    BY DEF IInv, FilterInv
  <1>2. /\ UNCHANGED <<totalRows, morselSize, morsels, cursor, numThreads, singleTaken, local>>
        /\ UNCHANGED <<busy, whole, input, matches, final, nextSlot>>
        /\ Team' = Team /\ t \in Team /\ pc[t] = "resize"
        /\ slots' = [u \in Team |-> <<>>] /\ pc' = [pc EXCEPT ![t] = "barrier"]
    BY DEF allocatorVars, queryVars, Resize, At, GoTo, Team
  <1>3. /\ DOMAIN pc = Team /\ pc'[t] = "barrier" /\ \A u \in Team : u # t => pc'[u] = pc[u]
    BY <1>1, <1>2 DEF TypeOK
  <1>4. busy /\ \A u \in Team : pc[u] # "done"
    BY <1>2 DEF IInv, TeamInv, Joined, BeyondBarrier, Before
  <1>5. TypeOK'
    <2>1. slots' \in [Team -> Seq(Rows)]
      BY <1>2
    <2>2. pc' \in [Team -> {"single", "resize", "barrier", "work", "forEnd", "publish", "done"}]
      BY <1>1, <1>2 DEF TypeOK
    <2> QED BY <1>1, <1>2, <2>1, <2>2 DEF TypeOK
  <1>6. Gone' = Gone
    BY <1>2, <1>3 DEF Gone
  <1>7. WorkShared'
    BY <1>1, <1>2, <1>6 DEF WorkShared, IsMorsel
  <1>8. SlotsFilled'
    BY <1>1, <1>2, <1>3, <1>4 DEF SlotsFilled, Joined
  <1>9. PositionsSeen' = PositionsSeen
    BY <1>2 DEF PositionsSeen, IsMorsel, MorselAt
  <1>10. \A u \in DOMAIN slots : slots[u] = <<>>
    <2>1. DOMAIN slots \subseteq Team
      BY <1>1 DEF TypeOK, NoSlots
    <2> QED BY <1>1, <1>4, <2>1 DEF SlotsFilled
  <1>11. ASSUME NEW r PROVE Held(r)' = Held(r)
    <2> DEFINE f == [u \in DOMAIN slots |-> Occurrences(slots[u], r)]
               g == [u \in DOMAIN slots' |-> Occurrences(slots'[u], r)]
               l == SumFunctionOnSet([u \in Team |-> Occurrences(local[u], r)], Team)
               o == Occurrences(final, r)
    <2>1. /\ IsFiniteSet(Pending) /\ Pending \subseteq DOMAIN slots /\ IsFiniteSet(Team)
      BY <1>1, HeldNumbers
    <2>2. IsFiniteSet(Pending') /\ Pending' \subseteq DOMAIN slots'
      <3>1. Pending' \subseteq Team
        BY <1>2 DEF Pending
      <3> QED BY <2>1, <3>1, FS_Subset DEF Pending
    <2>3. /\ \A u \in Pending : f[u] = 0
          /\ \A u \in Pending' : g[u] = 0
      BY <1>2, <1>10, <2>1, <2>2, NoneInEmpty
    <2>4. /\ Held(r) = l + SumFunctionOnSet(f, Pending) + o
          /\ Held(r)' = l + SumFunctionOnSet(g, Pending') + o
      BY <1>2 DEF Held
    <2> HIDE DEF f, g, l, o
    <2>5. SumFunctionOnSet(f, Pending) = 0 /\ SumFunctionOnSet(g, Pending') = 0
      BY <2>1, <2>2, <2>3, SumZero
    <2> QED BY <2>4, <2>5
  <1>12. MatchesHeldOnce'
    BY <1>1, <1>2, <1>9, <1>11 DEF MatchesHeldOnce
  <1>13. SlicesSeen'
    <2>1. \A u \in DOMAIN slots' : InOrder(slots'[u], input', PositionsSeen')
      BY <1>2 DEF InOrder
    <2> QED BY <1>1, <1>2, <1>9, <2>1 DEF SlicesSeen
  <1> QED BY <1>5, <1>7, <1>8, <1>12, <1>13 DEF FilterInv

(* The move into the slot: the slot gains what the local vector loses. *)
LEMMA PublishInv ==
  ASSUME IInv, NEW t, UNCHANGED <<allocatorVars, queryVars>>, Publish(t, <<>>)
  PROVE  FilterInv'
  <1>1. /\ TypeOK /\ WorkShared /\ SlotsFilled /\ MatchesHeldOnce /\ SlicesSeen
    BY DEF IInv, FilterInv
  <1>2. /\ UNCHANGED <<totalRows, morselSize, morsels, cursor, numThreads, singleTaken>>
        /\ UNCHANGED <<busy, whole, input, matches, final, nextSlot>>
        /\ Team' = Team /\ t \in Team /\ pc[t] = "publish"
        /\ slots' = [slots EXCEPT ![t] = local[t]] /\ local' = [local EXCEPT ![t] = <<>>]
        /\ pc' = [pc EXCEPT ![t] = "done"]
    BY DEF allocatorVars, queryVars, Publish, At, GoTo, Team
  <1>3. /\ DOMAIN pc = Team /\ pc'[t] = "done" /\ \A u \in Team : u # t => pc'[u] = pc[u]
    BY <1>1, <1>2 DEF TypeOK
  <1>4. busy /\ DOMAIN slots = Team
    <2>1. busy
      BY <1>2 DEF IInv, TeamInv, Joined
    <2>2. \A u \in Team : pc[u] # "resize"
      BY <1>2, <2>1 DEF IInv, TeamInv, BeyondBarrier, Before
    <2> QED BY <1>2, <2>1, <2>2 DEF IInv, TeamInv, SingleTaken
  <1>5. slots \in [Team -> Seq(Rows)] /\ local \in [Team -> Seq(Rows)]
    BY <1>1, <1>2, <1>4 DEF TypeOK, NoSlots
  <1>6. /\ DOMAIN slots' = Team /\ DOMAIN local = Team /\ slots[t] = <<>> /\ nextSlot = 0
        /\ slots'[t] = local[t] /\ local'[t] = <<>>
        /\ \A u \in Team : u # t => slots'[u] = slots[u] /\ local'[u] = local[u]
    BY <1>1, <1>2, <1>4, <1>5 DEF SlotsFilled, Joined
  <1>7. TypeOK'
    <2>1. slots' \in [Team -> Seq(Rows)] /\ local' \in [Team -> Seq(Rows)]
      BY <1>2, <1>5
    <2>2. pc' \in [Team -> {"single", "resize", "barrier", "work", "forEnd", "publish", "done"}]
      BY <1>1, <1>2 DEF TypeOK
    <2> QED BY <1>1, <1>2, <2>1, <2>2 DEF TypeOK
  <1>8. Gone' = Gone
    BY <1>2, <1>3 DEF Gone
  <1>9. WorkShared'
    BY <1>1, <1>2, <1>8 DEF WorkShared, IsMorsel
  <1>10. SlotsFilled'
    BY <1>1, <1>2, <1>3, <1>4, <1>6 DEF SlotsFilled
  <1>11. PositionsSeen' = PositionsSeen
    BY <1>2 DEF PositionsSeen, IsMorsel, MorselAt
  <1>12. ASSUME NEW r PROVE Held(r)' = Held(r)
    <2> DEFINE f == [u \in Team |-> Occurrences(local[u], r)]
               h == [u \in Team |-> Occurrences(local'[u], r)]
               g == [u \in Team |-> Occurrences(slots[u], r)]
               k == [u \in Team |-> Occurrences(slots'[u], r)]
               o == Occurrences(final, r)
               n == Occurrences(local[t], r)
    <2>1. /\ IsFiniteSet(Team) /\ n \in Nat /\ o \in Nat
          /\ \A u \in Team : f[u] \in Int /\ g[u] \in Int
      <3>1. /\ IsFiniteSet(Team) /\ o \in Nat
            /\ \A u \in Team : Occurrences(local[u], r) \in Nat
            /\ \A u \in DOMAIN slots : Occurrences(slots[u], r) \in Nat
        BY <1>1, HeldNumbers
      <3> QED BY <1>2, <1>4, <3>1
    <2>2. Pending = Team /\ Pending' = Team
      BY <1>2, <1>4, <1>6 DEF Pending, Team
    <2>3. /\ f[t] = n /\ h[t] = 0 /\ g[t] = 0 /\ k[t] = n
          /\ \A u \in Team : u # t => h[u] = f[u] /\ k[u] = g[u]
      BY <1>2, <1>6, NoneInEmpty
    <2>4. \A u \in Team : h[u] \in Int /\ k[u] \in Int
      <3> HIDE DEF f, g, h, k, n
      <3> QED BY <2>1, <2>3
    <2>5. /\ Held(r) = SumFunctionOnSet(f, Team) + SumFunctionOnSet(g, Team) + o
          /\ Held(r)' = SumFunctionOnSet(h, Team) + SumFunctionOnSet(k, Team) + o
      BY <1>2, <1>4, <1>6, <2>2 DEF Held
    <2> HIDE DEF f, g, h, k, o, n
    <2>6. /\ SumFunctionOnSet(h, Team) = SumFunctionOnSet(f, Team) + h[t] - f[t]
          /\ SumFunctionOnSet(k, Team) = SumFunctionOnSet(g, Team) + k[t] - g[t]
      <3>1. /\ \A u \in Team : u # t => f[u] = h[u] /\ g[u] = k[u]
            /\ \A u \in Team : f[u] \in Int /\ h[u] \in Int
            /\ \A u \in Team : g[u] \in Int /\ k[u] \in Int
        BY <2>1, <2>3, <2>4
      <3>2. SumFunctionOnSet(h, Team) = SumFunctionOnSet(f, Team) + h[t] - f[t]
        BY <1>2, <2>1, <3>1, SumChange
      <3>3. SumFunctionOnSet(k, Team) = SumFunctionOnSet(g, Team) + k[t] - g[t]
        BY <1>2, <2>1, <3>1, SumChange
      <3> QED BY <3>2, <3>3
    <2>7. SumFunctionOnSet(f, Team) \in Int /\ SumFunctionOnSet(g, Team) \in Int
      BY <2>1, SumInt
    <2> QED BY <2>1, <2>3, <2>5, <2>6, <2>7
  <1>13. MatchesHeldOnce'
    BY <1>1, <1>2, <1>11, <1>12 DEF MatchesHeldOnce
  <1>14. SlicesSeen'
    <2>1. InOrder(<<>>, input, PositionsSeen)
      BY DEF InOrder
    <2> QED BY <1>1, <1>2, <1>4, <1>6, <1>11, <2>1 DEF SlicesSeen
  <1> QED BY <1>7, <1>9, <1>10, <1>13, <1>14 DEF FilterInv

(* The last turn of the work loop finds nothing left. *)
LEMMA LeaveInv ==
  ASSUME IInv, NEW t, LeaveLoop(t)
  PROVE  FilterInv'
  <1> DEFINE l == IF whole THEN "publish" ELSE "forEnd"
  <1>1. /\ TypeOK /\ WorkShared /\ SlotsFilled /\ MatchesHeldOnce /\ SlicesSeen
    BY DEF IInv, FilterInv
  <1>2. /\ UNCHANGED <<totalRows, morselSize, morsels, numThreads, singleTaken, local, slots>>
        /\ UNCHANGED <<busy, whole, input, matches, final, nextSlot>>
        /\ Team' = Team /\ t \in Team /\ pc[t] = "work" /\ ~(cursor < Len(morsels))
        /\ pc' = [pc EXCEPT ![t] = l]
    BY DEF queryVars, LeaveLoop, FetchAdd, IsMorsel, At, GoTo, Team
  <1>3. l \in {"publish", "forEnd"}
    OBVIOUS
  <1> HIDE DEF l
  <1>4. /\ DOMAIN pc = Team /\ pc'[t] = l /\ \A u \in Team : u # t => pc'[u] = pc[u]
    BY <1>1, <1>2 DEF TypeOK
  <1>5. cursor' = cursor + 1 /\ cursor' \in 0 .. SizeMod - 1
    BY <1>1, <1>2, CursorMoves DEF LeaveLoop
  <1>6. cursor \in Nat /\ Len(morsels) \in Nat /\ ~(cursor' < Len(morsels))
    BY <1>1, <1>2, <1>5, InputDivided
  <1>7. TypeOK'
    <2>1. pc' \in [Team -> {"single", "resize", "barrier", "work", "forEnd", "publish", "done"}]
      BY <1>1, <1>2, <1>3 DEF TypeOK
    <2> QED BY <1>1, <1>2, <1>5, <2>1 DEF TypeOK
  <1>8. WorkShared'
    <2>1. Gone' = Gone \union {t} /\ t \notin Gone
      BY <1>2, <1>3, <1>4 DEF Gone
    <2>2. IsFiniteSet(Gone) /\ Cardinality(Gone) \in Nat
      <3>1. Gone \in SUBSET (0 .. (numThreads - 1)) /\ numThreads \in Nat
        BY <1>1, TeamAssumption DEF Gone, Team, TypeOK
      <3> QED BY <3>1, TeamPart
    <2> DEFINE g == Cardinality(Gone)
               h == Cardinality(Gone')
               n == Len(morsels)
    <2>3. h = g + 1
      BY <2>1, <2>2, FS_AddElement
    <2>4. cursor <= n + g /\ n \in Nat /\ g \in Nat
      BY <1>1, <1>6, <2>2 DEF WorkShared
    <2> HIDE DEF g, h, n
    <2>5. cursor' <= n + h
      BY <1>5, <1>6, <2>3, <2>4
    <2> QED BY <1>1, <1>2, <1>6, <2>5 DEF WorkShared, IsMorsel, n, h
  <1>9. SlotsFilled'
    <2>1. DOMAIN slots \subseteq Team
      BY <1>1 DEF TypeOK, NoSlots
    <2> QED BY <1>1, <1>2, <1>3, <1>4, <2>1 DEF SlotsFilled, Joined
  <1>10. PositionsSeen' = PositionsSeen
    BY <1>2, <1>6 DEF PositionsSeen, IsMorsel, MorselAt
  <1> QED BY <1>1, <1>2, <1>7, <1>8, <1>9, <1>10, HeldStill DEF FilterInv, StillHeld

(* A morsel nobody has been given before, and what its loop finds. *)
LEMMA NextMorsel ==
  ASSUME TypeOK, WorkShared, cursor < Len(morsels), NEW m, m = morsels[cursor + 1]
  PROVE  /\ m.start + 1 \in Int /\ m.end \in Int /\ (m.start + 1) - 1 <= m.end
         /\ (m.start + 1) .. m.end \subseteq DOMAIN input
         /\ Behind(morsels, cursor + 1) = PositionsSeen \union ((m.start + 1) .. m.end)
         /\ PositionsSeen \cap ((m.start + 1) .. m.end) = {}
         /\ PositionsSeen \subseteq DOMAIN input
         /\ whole => \A k \in PositionsSeen : k < m.start + 1
         /\ IsFiniteSet(PositionsSeen) /\ IsFiniteSet((m.start + 1) .. m.end)
  <1>1. /\ cursor \in Nat /\ Len(input) \in Nat /\ DOMAIN input = 1 .. Len(input)
        /\ Divided(Len(input), morsels)
        /\ Len(morsels) \in Nat
    BY InputDivided
  <1>2. PositionsSeen = Behind(morsels, cursor)
    BY SeenIsBehind
  <1>3. Positions(m) = (m.start + 1) .. m.end
    BY DEF Positions
  <1>4. /\ Behind(morsels, cursor + 1) = Behind(morsels, cursor) \union Positions(m)
        /\ Behind(morsels, cursor) \cap Positions(m) = {}
        /\ Positions(m) \subseteq 1 .. Len(input)
    BY ONLY <1>1, BehindNext, cursor < Len(morsels), m = morsels[cursor + 1]
  <1>5. ASSUME whole PROVE \A k \in Behind(morsels, cursor) : k < m.start + 1
    <2>1. morselSize \in Nat \ {0} /\ Tiled(Len(input), morselSize, morsels)
      BY <1>5 DEF TypeOK, WorkShared
    <2> QED BY ONLY <1>1, <2>1, BehindBelow, cursor < Len(morsels), m = morsels[cursor + 1]
  <1>6. Behind(morsels, cursor) \subseteq 1 .. Len(input) /\ IsFiniteSet(Behind(morsels, cursor))
    BY <1>1, BehindBounds
  <1>7. m.start + 1 \in Int /\ m.end \in Int /\ (m.start + 1) - 1 <= m.end
    <2>1. cursor + 1 \in 1 .. Len(morsels)
      BY <1>1
    <2>2. m \in [id : Nat, start : 0 .. Len(input), end : 0 .. Len(input)]
      BY ONLY <1>1, <2>1, DividedTyped, m = morsels[cursor + 1]
    <2>3. m.start < m.end
      BY ONLY <1>1, <2>1, m = morsels[cursor + 1] DEF Divided
    <2> QED BY <1>1, <2>2, <2>3
  <1>8. IsFiniteSet((m.start + 1) .. m.end)
    BY <1>7, FS_Interval
  <1> QED BY <1>1, <1>2, <1>3, <1>4, <1>5, <1>6, <1>7, <1>8

LEMMA WorkInv ==
  ASSUME IInv, NEW t, Work(t)
  PROVE  FilterInv'
  <1> DEFINE m == morsels[cursor + 1]
             first == m.start + 1
             here == first .. m.end
             q == PushMatches(local[t], input, first, m.end, matches)
  <1>1. /\ TypeOK /\ WorkShared /\ SlotsFilled /\ MatchesHeldOnce /\ SlicesSeen
    BY DEF IInv, FilterInv
  <1>2. /\ UNCHANGED <<totalRows, morselSize, morsels, numThreads, pc, singleTaken, slots>>
        /\ UNCHANGED <<busy, whole, input, matches, final, nextSlot>>
        /\ Team' = Team /\ t \in Team /\ pc[t] = "work" /\ cursor < Len(morsels)
        /\ local' = [local EXCEPT ![t] = q]
    BY DEF queryVars, Work, ScanMorsel, MorselAt, FetchAdd, IsMorsel, At, Team
  <1>3. busy
    BY <1>2 DEF IInv, TeamInv, Joined
  <1>4. cursor' = cursor + 1 /\ cursor' \in 0 .. SizeMod - 1
    BY <1>1, <1>2, CursorMoves DEF Work
  <1>5. /\ cursor \in Nat /\ Len(morsels) \in Nat /\ \A k \in DOMAIN input : input[k] \in Rows
    BY <1>1, InputDivided
  <1>6. local \in [Team -> Seq(Rows)] /\ local[t] \in Seq(Rows)
    BY <1>1, <1>2 DEF TypeOK
  <1>7. local'[t] = q /\ \A u \in Team : u # t => local'[u] = local[u]
    BY <1>2, <1>6
  <1>8. /\ first \in Int /\ m.end \in Int /\ first - 1 <= m.end
        /\ here \subseteq DOMAIN input
        /\ Behind(morsels, cursor + 1) = PositionsSeen \union here
        /\ PositionsSeen \cap here = {} /\ PositionsSeen \subseteq DOMAIN input
        /\ whole => \A k \in PositionsSeen : k < first
        /\ IsFiniteSet(PositionsSeen) /\ IsFiniteSet(here)
    BY <1>1, <1>2, NextMorsel
  <1>9. PositionsSeen' = PositionsSeen \union here
    <2>1. PositionsSeen' = Behind(morsels, cursor + 1)
      BY <1>2, <1>4 DEF PositionsSeen, IsMorsel, MorselAt, PositionsOf, Behind, Positions
    <2> QED BY <1>8, <2>1
  <1> HIDE DEF m, first
  <1>10. /\ q \in Seq(Rows)
         /\ \A r : Occurrences(q, r) =
              Occurrences(local[t], r) + (IF r \in matches THEN Occurs(here, input, r) ELSE 0)
    <2>1. \A k \in first .. m.end : input[k] \in Rows
      BY <1>5, <1>8
    <2> DEFINE found == local[t]
               stop == m.end
    <2>2. found \in Seq(Rows) /\ first \in Int /\ stop \in Int /\ first - 1 <= stop
          /\ \A k \in first .. stop : input[k] \in Rows
      BY <1>6, <1>8, <2>1
    <2> HIDE DEF found, stop
    <2>3. PushMatches(found, input, first, stop, matches) \in Seq(Rows)
      BY ONLY <2>2, PushOccurs, Zenon
    <2>4. ASSUME NEW r
          PROVE  Gains(PushMatches(found, input, first, stop, matches), found, input,
                       first .. stop, matches, r)
      BY ONLY <2>2, PushOccurs, Zenon
    <2> QED BY <2>3, <2>4 DEF found, stop, Gains
  <1> HIDE DEF q, here
  <1>11. TypeOK'
    <2>1. local' \in [Team -> Seq(Rows)]
      BY <1>2, <1>6, <1>10
    <2> QED BY <1>1, <1>2, <1>4, <2>1 DEF TypeOK
  <1>12. WorkShared'
    <2>1. Gone = {} /\ Gone' = Gone
      BY <1>1, <1>2 DEF WorkShared, IsMorsel, Gone
    <2>2. Cardinality(Gone') = 0
      BY <2>1, FS_EmptySet
    <2> QED BY <1>1, <1>2, <1>4, <1>5, <2>1, <2>2 DEF WorkShared
  <1>13. SlotsFilled'
    BY <1>1, <1>2, <1>7 DEF SlotsFilled, Joined
  <1>14. ASSUME NEW r \in Rows
         PROVE  Held(r)' = IF r \in matches
                           THEN Cardinality({k \in PositionsSeen' : input[k] = r}) ELSE 0
    <2> DEFINE f == [u \in Team |-> Occurrences(local[u], r)]
               h == [u \in Team |-> Occurrences(local'[u], r)]
               s == SumFunctionOnSet([u \in DOMAIN slots |-> Occurrences(slots[u], r)], Pending)
               o == Occurrences(final, r)
               n == Occurrences(local[t], r)
               add == Occurs(here, input, r)
               seen == Occurs(PositionsSeen, input, r)
               met == Occurs(PositionsSeen', input, r)
    <2>1. /\ IsFiniteSet(Team) /\ n \in Nat /\ o \in Nat /\ \A u \in Team : f[u] \in Int
          /\ s \in Int
      <3>1. /\ IsFiniteSet(Team) /\ o \in Nat
            /\ \A u \in Team : Occurrences(local[u], r) \in Nat
            /\ \A u \in DOMAIN slots : Occurrences(slots[u], r) \in Nat
            /\ IsFiniteSet(Pending) /\ Pending \subseteq DOMAIN slots
        BY <1>1, HeldNumbers
      <3>2. s \in Int
        BY <3>1, SumInt
      <3> QED BY <1>2, <3>1, <3>2
    <2>2. met = seen + add /\ add \in Nat
      <3>1. met = seen + add
        BY <1>8, <1>9, OccurrencesAdd
      <3>2. add \in Nat
        BY <1>8, FS_Subset, FS_CardinalityType DEF Occurs
      <3> QED BY <3>1, <3>2
    <2>3. Held(r) = SumFunctionOnSet(f, Team) + s + o
      BY DEF Held
    <2>4. Held(r)' = SumFunctionOnSet(h, Team) + s + o
      <3>1. Pending' = Pending
        BY <1>2 DEF Pending
      <3> QED BY <1>2, <3>1 DEF Held
    <2>5. Held(r) = IF r \in matches THEN seen ELSE 0
      BY <1>1, <1>3 DEF MatchesHeldOnce, Occurs
    <2>6. /\ f[t] = n /\ h[t] = n + (IF r \in matches THEN add ELSE 0)
          /\ \A u \in Team : u # t => f[u] = h[u]
      BY <1>2, <1>7, <1>10
    <2> HIDE DEF f, h, s, o, n, add, seen, met
    <2>7. \A u \in Team : f[u] \in Int /\ h[u] \in Int
      <3>1. h[t] \in Int
        BY <2>1, <2>2, <2>6
      <3> QED BY <2>1, <2>6, <3>1
    <2>8. SumFunctionOnSet(h, Team) = SumFunctionOnSet(f, Team) + h[t] - f[t]
      BY <1>2, <2>1, <2>6, <2>7, SumChange
    <2>9. SumFunctionOnSet(f, Team) \in Int
      BY <2>1, SumInt
    <2>10. Held(r)' = IF r \in matches THEN met ELSE 0
      BY <2>1, <2>2, <2>3, <2>4, <2>5, <2>6, <2>8, <2>9
    <2> QED BY <2>10 DEF met, Occurs
  <1>15. MatchesHeldOnce'
    BY <1>2, <1>14 DEF MatchesHeldOnce, Rows
  <1>16. SlicesSeen'
    <2> SUFFICES ASSUME whole
                 PROVE  /\ \A u \in Team : InOrder(local'[u], input, PositionsSeen')
                        /\ \A u \in DOMAIN slots : InOrder(slots[u], input, PositionsSeen')
      BY <1>2 DEF SlicesSeen
    <2>1. /\ \A u \in Team : InOrder(local[u], input, PositionsSeen)
          /\ \A u \in DOMAIN slots : InOrder(slots[u], input, PositionsSeen)
      BY <1>1, <1>3 DEF SlicesSeen
    <2>2. PositionsSeen \subseteq PositionsSeen'
      BY <1>9
    <2>3. InOrder(q, input, PositionsSeen')
      <3>0. IsInjective(input)
        <4>1. input = WholeTable(Len(input)) /\ Len(input) \in Nat
          BY <1>1, InputDivided DEF WorkShared
        <4> QED BY <4>1 DEF WholeTable, IsInjective
      <3>1. PositionsSeen \subseteq Int
        BY <1>1, <1>8, InputDivided
      <3>2. first .. m.end \subseteq DOMAIN input /\ \A k \in first .. m.end : input[k] \in Rows
        BY <1>5, <1>8 DEF here
      <3>3. InOrder(PushMatches(local[t], input, first, m.end, matches), input,
                    PositionsSeen \union (first .. m.end))
        BY <1>2, <1>6, <1>8, <2>1, <3>0, <3>1, <3>2, PushOrdered
      <3> QED BY <1>9, <3>3 DEF q, here
    <2>4. ASSUME NEW u \in Team PROVE InOrder(local'[u], input, PositionsSeen')
      BY <1>7, <2>1, <2>2, <2>3, InOrderMore
    <2>5. ASSUME NEW u \in DOMAIN slots PROVE InOrder(slots[u], input, PositionsSeen')
      BY <2>1, <2>2, InOrderMore
    <2> QED BY <2>4, <2>5
  <1> QED BY <1>11, <1>12, <1>13, <1>15, <1>16 DEF FilterInv

(* One slot is appended: the result gains what is no longer pending. *)
LEMMA AppendInv ==
  ASSUME IInv, AppendSlot
  PROVE  FilterInv'
  <1>1. /\ TypeOK /\ WorkShared /\ SlotsFilled /\ MatchesHeldOnce /\ SlicesSeen
    BY DEF IInv, FilterInv
  <1>2. /\ UNCHANGED <<totalRows, morselSize, morsels, cursor, numThreads, pc, singleTaken>>
        /\ UNCHANGED <<local, slots, busy, whole, input, matches>>
        /\ Team' = Team /\ busy /\ Joined /\ nextSlot < numThreads
        /\ final' = final \o slots[nextSlot] /\ nextSlot' = nextSlot + 1
    BY DEF AppendSlot, allocatorVars, teamVars, Team
  <1>3. nextSlot \in Nat /\ numThreads \in Nat /\ nextSlot \in Team /\ 0 \in Team
    BY <1>1, <1>2, TeamAssumption DEF TypeOK, Team
  <1>4. DOMAIN slots = Team
    <2>1. \A u \in Team : pc[u] = "done"
      BY <1>2 DEF Joined
    <2> QED BY <1>2, <1>3, <2>1 DEF IInv, TeamInv, SingleTaken
  <1>5. slots \in [Team -> Seq(Rows)] /\ final \in Seq(Rows)
    BY <1>1, <1>3, <1>4 DEF TypeOK, NoSlots
  <1>6. TypeOK'
    <2>1. final' \in Seq(Rows) /\ nextSlot' \in 0 .. numThreads
      BY <1>2, <1>3, <1>5
    <2> QED BY <1>1, <1>2, <2>1 DEF TypeOK
  <1>7. WorkShared'
    <2>1. Gone' = Gone
      BY <1>2 DEF Gone
    <2> QED BY <1>1, <1>2, <2>1 DEF WorkShared, IsMorsel
  <1>8. SlotsFilled'
    BY <1>1, <1>2 DEF SlotsFilled, Joined
  <1>9. PositionsSeen' = PositionsSeen
    BY <1>2 DEF PositionsSeen, IsMorsel, MorselAt
  <1>10. ASSUME NEW r PROVE Held(r)' = Held(r)
    <2> DEFINE g == [u \in DOMAIN slots |-> Occurrences(slots[u], r)]
               l == SumFunctionOnSet([u \in Team |-> Occurrences(local[u], r)], Team)
               o == Occurrences(final, r)
               p == Occurrences(final', r)
               n == Occurrences(slots[nextSlot], r)
    <2>1. /\ IsFiniteSet(Pending) /\ Pending \subseteq DOMAIN slots /\ IsFiniteSet(Team)
          /\ \A u \in Team : Occurrences(local[u], r) \in Nat
          /\ \A u \in DOMAIN slots : Occurrences(slots[u], r) \in Nat
          /\ o \in Nat
      BY <1>1, HeldNumbers
    <2>2. nextSlot \in Pending /\ Pending' = Pending \ {nextSlot}
      BY <1>2, <1>3, <1>4 DEF Pending, Team
    <2>3. p = o + n
      BY <1>2, <1>3, <1>5, ConcatOccurs
    <2>4. /\ Held(r) = l + SumFunctionOnSet(g, Pending) + o
          /\ Held(r)' = l + SumFunctionOnSet(g, Pending') + p
      BY <1>2 DEF Held
    <2>5. l \in Int
      BY <2>1, SumInt
    <2>6. \A u \in Pending : g[u] \in Int
      BY <2>1
    <2>7. g[nextSlot] = n /\ n \in Nat
      BY <1>3, <1>4, <2>1
    <2> HIDE DEF g, l, o, p, n
    <2>8. SumFunctionOnSet(g, Pending) = g[nextSlot] + SumFunctionOnSet(g, Pending \ {nextSlot})
      BY <2>1, <2>2, <2>6, SumTakeOut
    <2>9. SumFunctionOnSet(g, Pending') \in Int
      <3>1. IsFiniteSet(Pending') /\ \A u \in Pending' : g[u] \in Int
        BY <2>1, <2>2, <2>6, FS_Subset
      <3> QED BY <3>1, SumInt
    <2> QED BY <2>1, <2>2, <2>3, <2>4, <2>5, <2>7, <2>8, <2>9
  <1>11. MatchesHeldOnce'
    BY <1>1, <1>2, <1>9, <1>10 DEF MatchesHeldOnce
  <1>12. SlicesSeen'
    BY <1>1, <1>2, <1>9 DEF SlicesSeen
  <1> QED BY <1>6, <1>7, <1>8, <1>11, <1>12 DEF FilterInv

LEMMA ReturnInv ==
  ASSUME IInv, Return
  PROVE  FilterInv'
  <1>1. /\ TypeOK /\ WorkShared /\ SlotsFilled
    BY DEF IInv, FilterInv
  <1>2. /\ UNCHANGED <<totalRows, morselSize, morsels, cursor, numThreads, pc, singleTaken>>
        /\ UNCHANGED <<local, whole, input, matches, final, nextSlot>>
        /\ Team' = Team /\ Joined /\ busy' = FALSE /\ slots' = NoSlots
    BY DEF Return, Release, allocatorVars, Team
  <1>3. TypeOK'
    BY <1>1, <1>2 DEF TypeOK, NoSlots
  <1>4. WorkShared'
    <2>1. Gone' = Gone
      BY <1>2 DEF Gone
    <2> QED BY <1>1, <1>2, <2>1 DEF WorkShared, IsMorsel
  <1>5. SlotsFilled'
    BY <1>1, <1>2 DEF SlotsFilled, Joined, NoSlots
  <1> QED BY <1>2, <1>3, <1>4, <1>5 DEF FilterInv, MatchesHeldOnce, SlicesSeen

LEMMA StutterInv ==
  ASSUME IInv, UNCHANGED vars
  PROVE  FilterInv'
  <1>1. /\ TypeOK /\ WorkShared /\ SlotsFilled /\ MatchesHeldOnce /\ SlicesSeen
    BY DEF IInv, FilterInv
  <1>2. /\ UNCHANGED <<totalRows, morselSize, morsels, cursor, numThreads, pc, singleTaken>>
        /\ UNCHANGED <<local, slots, busy, whole, input, matches, final, nextSlot>>
        /\ Team' = Team
    BY DEF vars, allocatorVars, teamVars, queryVars, Team
  <1>3. TypeOK'
    BY <1>1, <1>2 DEF TypeOK
  <1>4. WorkShared'
    <2>1. Gone' = Gone
      BY <1>2 DEF Gone
    <2> QED BY <1>1, <1>2, <2>1 DEF WorkShared, IsMorsel
  <1>5. SlotsFilled'
    BY <1>1, <1>2 DEF SlotsFilled, Joined
  <1>6. PositionsSeen' = PositionsSeen
    BY <1>2 DEF PositionsSeen, IsMorsel, MorselAt
  <1> QED BY <1>1, <1>2, <1>3, <1>4, <1>5, <1>6, HeldStill DEF FilterInv, StillHeld

(* The invariant holds in every state of every execution. *)
THEOREM FilterInvariance == Spec => []IInv
  <1>1. IInv /\ [Next]_vars => IInv'
    <2> SUFFICES ASSUME IInv, [Next]_vars PROVE IInv'
      OBVIOUS
    <2>1. CASE \/ \E n \in 1 .. MaxThreads, rows \in 0 .. MaxRows : CallFilter(n, rows)
               \/ \E n \in 1 .. MaxThreads, s \in Selections : CallSubset(n, s)
      <3>1. PICK n \in 1 .. MaxThreads :
              \/ \E rows \in 0 .. MaxRows : CallFilter(n, rows)
              \/ \E s \in Selections : CallSubset(n, s)
        BY <2>1
      <3>2. n \in Nat \ {0} /\ Begin(n)
        BY <3>1, TeamAssumption DEF CallFilter, CallSubset
      <3> QED BY <3>1, <3>2, CallInv, ForkedTeamInv DEF IInv
    <2>2. ASSUME NEW t, TeamStep(t) PROVE IInv'
      <3>1. UNCHANGED <<allocatorVars, queryVars>>
        BY <2>2 DEF TeamStep
      <3>2. FilterInv'
        BY <2>2, <3>1, ControlInv, ResizeInv, PublishInv DEF TeamStep
      <3> QED BY <2>2, <3>2, StepTeamInv DEF IInv
    <2>3. ASSUME NEW t, Work(t) \/ LeaveLoop(t) PROVE IInv'
      BY <2>3, WorkInv, LeaveInv, WorkTeamInv DEF IInv
    <2>4. CASE AppendSlot \/ Return \/ UNCHANGED vars
      BY <2>4, AppendInv, ReturnInv, StutterInv, CallerTeamInv DEF IInv
    <2> QED BY <2>1, <2>2, <2>3, <2>4 DEF Next
  <1> QED BY InitInv, <1>1, PTL DEF Spec

-----------------------------------------------------------------------------
(* Whatever the threads do, the vectors hold rows of the table, the slots are
   those of the team, and the cursor does not wrap.                         *)
THEOREM FilterTypeCorrect == Spec => []TypeOK
  BY FilterInvariance, PTL DEF IInv, FilterInv

(* thread_results[thread_id] = std::move(local_res) never writes past the
   end of the vector, because the barrier of "omp single" holds everybody
   back until it has been resized to the team.                              *)
THEOREM SlotsAreThere == Spec => []PublishInBounds
  <1>1. IInv => PublishInBounds
    <2> SUFFICES ASSUME IInv, NEW t \in Team, pc[t] = "publish"
                 PROVE  t \in DOMAIN slots
      BY DEF PublishInBounds
    <2>1. busy
      BY DEF IInv, TeamInv, Joined
    <2>2. \A u \in Team : pc[u] # "resize"
      BY <2>1 DEF IInv, TeamInv, BeyondBarrier, Before
    <2> QED BY <2>1, <2>2 DEF IInv, TeamInv, SingleTaken
  <1> QED BY FilterInvariance, <1>1, PTL

(* However the threads interleave their scans, their moves and the
   concatenation, each matching row that has been handed out is held exactly
   as often as the input has it, and no other row is.                       *)
THEOREM NothingLostOrDoubled == Spec => []MatchesHeldOnce
  BY FilterInvariance, PTL DEF IInv, FilterInv

(* Rows in the order of the table ascend. *)
LEMMA OrderAscends ==
  ASSUME NEW n \in Nat, NEW P, P \subseteq 1 .. n, NEW s, InOrder(s, WholeTable(n), P)
  PROVE  Ascends(s)
  <1>1. /\ DOMAIN WholeTable(n) = 1 .. n
        /\ \A p \in 1 .. n : WholeTable(n)[p] = p - 1
    BY DEF WholeTable
  <1>2. ASSUME NEW k \in DOMAIN s, NEW l \in DOMAIN s, k < l
        PROVE  s[k] < s[l]
    <2>1. PICK p \in P : WholeTable(n)[p] = s[k]
      BY DEF InOrder
    <2>2. PICK q \in P : WholeTable(n)[q] = s[l]
      BY DEF InOrder
    <2>3. p \in 1 .. n /\ q \in 1 .. n /\ p < q
      BY <1>1, <1>2, <2>1, <2>2 DEF InOrder
    <2> QED BY <1>1, <2>1, <2>2, <2>3
  <1> QED BY <1>2 DEF Ascends

(* What a thread has found of a table ascends, because the morsels it takes
   from the allocator's cursor have growing indices and the allocator cut
   them in the order of the table.                                          *)
THEOREM SlicesOrdered == Spec => []SlicesInOrder
  <1>1. IInv => SlicesInOrder
    <2> SUFFICES ASSUME IInv, busy, whole
                 PROVE  /\ \A t \in Team : Ascends(local[t])
                        /\ \A t \in DOMAIN slots : Ascends(slots[t])
      BY DEF SlicesInOrder
    <2> DEFINE n == Len(input)
    <2>1. TypeOK /\ WorkShared /\ SlicesSeen
      BY DEF IInv, FilterInv
    <2>2. n \in Nat /\ input = WholeTable(n)
      BY <2>1, InputDivided DEF WorkShared
    <2>3. PositionsSeen \subseteq 1 .. n
      BY <2>1, InputDivided, SeenIsBehind, BehindBounds
    <2> HIDE DEF n
    <2>4. /\ \A t \in Team : InOrder(local[t], WholeTable(n), PositionsSeen)
          /\ \A t \in DOMAIN slots : InOrder(slots[t], WholeTable(n), PositionsSeen)
      BY <2>1, <2>2 DEF SlicesSeen
    <2> QED BY <2>2, <2>3, <2>4, OrderAscends
  <1> QED BY FilterInvariance, <1>1, PTL

(***************************************************************************)
(* Every step of a parallel filter is a step of the sequential             *)
(* specification, or none.  What is left of ImplementsSequentialFilter is  *)
(* that every call returns.                                                *)
(***************************************************************************)
AnswersAgree == F!Init /\ [][F!Call \/ F!Return]_(F!filterVars)

(* FilterAnswer reads its vectors with the same operators. *)
LEMMA SameOperators ==
  /\ \A s, r : F!Occurrences(s, r) = Occurrences(s, r)
  /\ \A rows, good : F!SequentialAnswer(rows, good) = PushMatches(<<>>, rows, 1, Len(rows), good)
  <1>1. \A s, r : F!Occurrences(s, r) = Occurrences(s, r)
    BY DEF F!Occurrences, Occurrences, F!Cardinality, Cardinality
  <1>2. \A rows, good :
          F!SequentialAnswer(rows, good) = PushMatches(<<>>, rows, 1, Len(rows), good)
    BY DEF F!SequentialAnswer, F!PushMatches, PushMatches
  <1> QED BY <1>1, <1>2

(* When all slots are appended, the result has what the scan has found, and
   the scan has seen the whole input.                                       *)
LEMMA ReturnAgrees ==
  ASSUME IInv, Return
  PROVE  F!Return
  <1> DEFINE u == PushMatches(<<>>, input, 1, Len(input), matches)
  <1>1. /\ TypeOK /\ WorkShared /\ SlotsFilled /\ MatchesHeldOnce
    BY DEF IInv, FilterInv
  <1>2. /\ busy /\ busy' = FALSE /\ Joined /\ nextSlot = numThreads
        /\ UNCHANGED <<input, matches, final>> /\ \A t \in Team : pc[t] = "done"
    BY DEF Return, Joined
  <1>3. /\ cursor \in Nat /\ Len(input) \in Nat /\ DOMAIN input = 1 .. Len(input)
        /\ Divided(Len(input), morsels)
        /\ \A k \in DOMAIN input : input[k] \in Rows
    BY <1>1, InputDivided
  <1>4. PositionsSeen = 1 .. Len(input)
    <2>1. 0 \in Team
      BY <1>1, TeamAssumption DEF TypeOK, Team
    <2>2. ~(cursor < Len(morsels))
      BY <1>1, <1>2, <2>1 DEF WorkShared, IsMorsel, Gone
    <2> QED BY <1>3, <2>2, BehindEnd, SeenIsBehind
  <1>5. ASSUME NEW r \in Rows
        PROVE  Occurrences(final, r) = IF r \in matches THEN Occurs(1 .. Len(input), input, r)
                                                        ELSE 0
    <2> DEFINE f == [t \in Team |-> Occurrences(local[t], r)]
               g == [t \in DOMAIN slots |-> Occurrences(slots[t], r)]
               o == Occurrences(final, r)
    <2>1. IsFiniteSet(Team) /\ DOMAIN slots \subseteq Team /\ o \in Nat
          /\ numThreads \in Nat /\ Team = 0 .. (numThreads - 1)
      BY <1>1, HeldNumbers
    <2>2. \A t \in Team : f[t] = 0
      BY <1>1, <1>2, NoneInEmpty DEF SlotsFilled
    <2>3. Pending = {}
      BY <1>2, <2>1 DEF Pending
    <2>4. Held(r) = SumFunctionOnSet(f, Team) + SumFunctionOnSet(g, Pending) + o
      BY DEF Held
    <2>5. Held(r) = IF r \in matches THEN Occurs(1 .. Len(input), input, r) ELSE 0
      BY <1>1, <1>2, <1>4 DEF MatchesHeldOnce, Occurs
    <2> HIDE DEF f, g, o
    <2>6. SumFunctionOnSet(f, Team) = 0 /\ SumFunctionOnSet(g, Pending) = 0
      BY <2>1, <2>2, <2>3, SumZero, SumEmpty
    <2>7. o = Held(r)
      BY <2>1, <2>4, <2>6
    <2> QED BY <2>5, <2>7 DEF o
  <1>6. /\ u \in Seq(Rows)
        /\ \A r : Occurrences(u, r) =
             Occurrences(<<>>, r)
               + (IF r \in matches THEN Occurs(1 .. Len(input), input, r) ELSE 0)
    <2> DEFINE stop == Len(input)
    <2>1. <<>> \in Seq(Rows) /\ 1 \in Int /\ stop \in Int /\ 1 - 1 <= stop
          /\ \A k \in 1 .. stop : input[k] \in Rows
      BY <1>3
    <2> HIDE DEF stop
    <2>2. PushMatches(<<>>, input, 1, stop, matches) \in Seq(Rows)
      BY ONLY <2>1, PushOccurs, Zenon
    <2>3. ASSUME NEW r
          PROVE  Gains(PushMatches(<<>>, input, 1, stop, matches), <<>>, input, 1 .. stop,
                       matches, r)
      BY ONLY <2>1, PushOccurs, Zenon
    <2> QED BY <2>2, <2>3 DEF stop, Gains
  <1> HIDE DEF u
  <1>7. \A r \in Rows : Occurrences(final, r) = Occurrences(u, r)
    <2> SUFFICES ASSUME NEW r \in Rows PROVE Occurrences(final, r) = Occurrences(u, r)
      OBVIOUS
    <2> DEFINE o == Occurrences(final, r)
               q == Occurrences(u, r)
               z == Occurrences(<<>>, r)
               c == Occurs(1 .. Len(input), input, r)
    <2>1. q = z + (IF r \in matches THEN c ELSE 0) /\ z = 0
      BY <1>6, NoneInEmpty
    <2>2. o = IF r \in matches THEN c ELSE 0
      BY <1>5
    <2>3. o \in Nat
      BY <1>1, HeldNumbers
    <2> HIDE DEF o, q, z, c
    <2>4. o = q
      BY <2>1, <2>2, <2>3
    <2> QED BY <2>4 DEF o, q
  <1>8. final \in Seq(Rows) /\ IsFiniteSet(Rows)
    <2>1. 0 \in Int /\ MaxRows - 1 \in Int
      BY FilterAssumption
    <2> QED BY <1>1, <2>1, FS_Interval DEF TypeOK, Rows
  <1>9. Len(final) = Len(u)
    BY <1>6, <1>7, <1>8, EquallyLong
  <1>10. \A k \in DOMAIN u : u[k] \in Rows
    BY <1>6
  <1>11. F!SequentialAnswer(input, matches) = u
    BY SameOperators DEF u
  <1>12. F!IsRearrangement(final, u)
    BY <1>7, <1>9, <1>10, SameOperators DEF F!IsRearrangement
  <1> QED BY <1>2, <1>11, <1>12 DEF F!Return

(* For every team, table, selection, predicate and interleaving a parallel
   filter answers with the rows the sequential one answers with, each of them
   as often.                                                                *)
THEOREM AnswersAreRearranged == Spec => AnswersAgree
  <1>1. Init => F!Init
    BY DEF Init, F!Init
  <1>2. IInv /\ [Next]_vars => [F!Call \/ F!Return]_(F!filterVars)
    <2> SUFFICES ASSUME IInv, [Next]_vars
                 PROVE  F!Call \/ F!Return \/ UNCHANGED F!filterVars
      OBVIOUS
    <2>1. ASSUME NEW n \in 1 .. MaxThreads, Begin(n), input' \in Seq(Rows) PROVE F!Call
      <3>1. \A k \in DOMAIN input' : input'[k] \in 0 .. (MaxRows - 1)
        <4>1. \A v \in Seq(Rows) : \A k \in DOMAIN v : v[k] \in Rows
          OBVIOUS
        <4> QED BY <2>1, <4>1 DEF Rows
      <3>2. ~busy /\ busy' = TRUE /\ matches' \subseteq 0 .. (MaxRows - 1) /\ final' = <<>>
        BY <2>1 DEF Begin, Rows
      <3> QED BY <3>1, <3>2 DEF F!Call
    <2>2. ASSUME NEW n \in 1 .. MaxThreads, NEW rows \in 0 .. MaxRows, CallFilter(n, rows)
          PROVE  F!Call
      <3>1. rows \in Nat /\ MaxRows \in Nat
        BY FilterAssumption
      <3>2. WholeTable(rows) \in [1 .. rows -> Rows]
        BY <3>1 DEF WholeTable, Rows
      <3>3. WholeTable(rows) \in Seq(Rows)
        BY ONLY <3>1, <3>2, TupleIsSeq, Zenon
      <3> QED BY <2>1, <2>2, <3>3 DEF CallFilter
    <2>3. ASSUME NEW n \in 1 .. MaxThreads, NEW s \in Selections, CallSubset(n, s)
          PROVE  F!Call
      <3>1. s \in Seq(Rows)
        BY FilterAssumption DEF Rows
      <3> QED BY <2>1, <2>3, <3>1 DEF CallSubset
    <2>4. ASSUME NEW t, TeamStep(t) \/ Work(t) \/ LeaveLoop(t) PROVE UNCHANGED F!filterVars
      <3>1. UNCHANGED queryVars
        BY <2>4 DEF TeamStep, Work, LeaveLoop
      <3> QED BY <3>1 DEF queryVars, F!filterVars
    <2>5. CASE AppendSlot
      BY <2>5 DEF AppendSlot, F!filterVars
    <2>6. CASE Return
      BY <2>6, ReturnAgrees
    <2>7. CASE UNCHANGED vars
      BY <2>7 DEF vars, queryVars, F!filterVars
    <2> QED BY <2>2, <2>3, <2>4, <2>5, <2>6, <2>7 DEF Next
  <1> QED BY FilterInvariance, <1>1, <1>2, PTL DEF Spec, AnswersAgree
===============================================================================
