------------------------ MODULE MorselDispatchProofs ------------------------
(***************************************************************************)
(* Safety of the morsel dispatch, for every team, every set of row counts  *)
(* and morsel sizes whose arithmetic stays inside the types, and every     *)
(* width of the types.                                                     *)
(***************************************************************************)
EXTENDS MorselDispatch, CommonLemmas

(***************************************************************************)
(* The inductive invariant.  RowHandedOnce and RegionDrainsTable are not   *)
(* inductive: that two fetches never secure the same index follows from    *)
(* every index given being behind the cursor, that nothing is left out     *)
(* from every index behind the cursor having been given, and both speak of *)
(* rows only because the morsels tile the table.  The bound on the cursor  *)
(* counts the threads that have overshot the last morsel.                  *)
(***************************************************************************)
TilesOK ==
  /\ totalRows < RowMod
  /\ Tiled(totalRows, morselSize, morsels)

BehindCursor ==
  \A t \in Threads :
    /\ \A i \in taken[t] : i < cursor
    /\ pc[t] = "test" => idx[t] < cursor

GivenOnce ==
  /\ \A t \in Threads : pc[t] = "test" => idx[t] \notin taken[t]
  /\ \A t, u \in Threads : t # u => Given(t) \cap Given(u) = {}

NothingSkipped ==
  \A i \in 0 .. Len(morsels) - 1 : i < cursor => \E t \in Threads : i \in Given(t)

Overshot ==
  {t \in Threads : pc[t] = "join" \/ (pc[t] = "test" /\ ~IsMorsel(idx[t]))}

OvershotOK ==
  /\ cursor <= Len(morsels) + Cardinality(Overshot)
  /\ \A t \in Threads : t \in Overshot => cursor >= Len(morsels)

IInv == TypeOK /\ TilesOK /\ BehindCursor /\ GivenOnce /\ NothingSkipped /\ OvershotOK

-----------------------------------------------------------------------------
LEMMA SizesPositive ==
  \A size \in Sizes : EffectiveSize(size) \in Nat \ {0}
  BY MorselAssumption, DispatchAssumption DEF EffectiveSize

(* partition() tiles the table when its arithmetic does not leave the types. *)
LEMMA CutTiles ==
  ASSUME NEW total \in Nat \ {0}, NEW size \in Nat \ {0},
         total + size - 1 < SizeMod, total < RowMod
  PROVE  Tiled(total, size, Cut(total, size))
  <1>1. total \in Nat
    OBVIOUS
  <1> QED BY ONLY <1>1, size \in Nat \ {0}, total + size - 1 < SizeMod, total < RowMod,
                  WidthAssumption, CutTiled, Zenon
          DEF Cut, MorselCount, StartRow, EndRow, NarrowStart, NarrowEnd

(* The rows of a morsel are those of a tile. *)
LEMMA MorselRows == \A m : RowsOf(m) = Span(m)
  BY DEF RowsOf, Span

LEMMA InitIInv == ASSUME InputsInRange PROVE Init => IInv
  <1> SUFFICES ASSUME Init PROVE IInv
    OBVIOUS
  <1>1. morselSize \in Nat \ {0}
    BY SizesPositive DEF Init
  <1>2. TypeOK
    BY <1>1, WidthAssumption DEF Init, TypeOK
  <1>3. TilesOK
    BY <1>1, EmptyTiled, WidthAssumption DEF Init, TilesOK
  <1>4. BehindCursor /\ GivenOnce /\ NothingSkipped
    BY DEF Init, BehindCursor, GivenOnce, NothingSkipped, Given
  <1>5. OvershotOK
    <2>1. IsFiniteSet(Overshot)
      BY DispatchAssumption, FS_Subset DEF Overshot
    <2>2. Cardinality(Overshot) \in Nat
      BY <2>1, FS_CardinalityType
    <2> QED BY <2>2 DEF Init, OvershotOK
  <1> QED BY <1>2, <1>3, <1>4, <1>5 DEF IInv

LEMMA OvershotFinite ==
  /\ IsFiniteSet(Overshot)
  /\ Cardinality(Overshot) \in Nat
  /\ Cardinality(Overshot) <= Cardinality(Threads)
  /\ Cardinality(Threads) \in Nat
  BY DispatchAssumption, FS_Subset, FS_CardinalityType DEF Overshot

(* Opening a region: the cursor is at the first morsel and no thread has
   been given anything.                                                     *)
LEMMA ForkIInv ==
  ASSUME Fork, cursor' = 0, TilesOK', idx \in [Threads -> 0 .. SizeMod - 1],
         totalRows' \in Nat, morselSize' \in Nat \ {0}
  PROVE  IInv'
  <1>1. Len(morsels') \in Nat
    BY DEF TilesOK, Tiled
  <1>2. TypeOK'
    <2>1. Tiled(totalRows', morselSize', morsels') /\ totalRows' < RowMod
      BY DEF TilesOK
    <2>2. RowMod \in Nat
      BY WidthAssumption
    <2>3. morsels' \in Seq([id : Nat, start : 0 .. RowMod - 1, end : 0 .. RowMod - 1])
      BY Zenon, <2>1, <2>2, TiledTyped
    <2> QED BY <2>3, WidthAssumption DEF Fork, TypeOK
  <1>3. BehindCursor' /\ GivenOnce' /\ NothingSkipped'
    BY DEF Fork, BehindCursor, GivenOnce, NothingSkipped, Given
  <1>4. OvershotOK'
    <2>1. Overshot' = {}
      BY DEF Fork, Overshot
    <2>2. Cardinality(Overshot') = 0
      BY <2>1, FS_EmptySet
    <2> QED BY <1>1, <2>1, <2>2 DEF OvershotOK
  <1> QED BY <1>2, <1>3, <1>4 DEF IInv

LEMMA OpenIInv ==
  ASSUME InputsInRange, IInv,
         NEW total \in Totals, NEW size \in Sizes, OpenTable(total, size)
  PROVE  IInv'
  <1> DEFINE s == EffectiveSize(size)
  <1>1. s \in Nat \ {0} /\ total \in Nat
    BY SizesPositive, DispatchAssumption
  <1>2. total + s - 1 < SizeMod /\ total < RowMod
    BY DEF InputsInRange
  <1>3. Tiled(total, s, IF total = 0 THEN <<>> ELSE Cut(total, s))
    BY <1>1, <1>2, EmptyTiled, CutTiles
  <1>4. TilesOK' /\ totalRows' \in Nat /\ morselSize' \in Nat \ {0} /\ cursor' = 0
    BY <1>1, <1>2, <1>3 DEF OpenTable, Partition, TilesOK, Tiled
  <1> QED BY <1>4, ForkIInv DEF OpenTable, IInv, TypeOK

LEMMA RewindIInv ==
  ASSUME IInv, Rewind
  PROVE  IInv'
  <1>1. TilesOK' /\ totalRows' \in Nat /\ morselSize' \in Nat \ {0} /\ cursor' = 0
    BY DEF Rewind, Reset, IInv, TypeOK, TilesOK, Tiled
  <1> QED BY <1>1, ForkIInv DEF Rewind, IInv, TypeOK

(* The cursor of a thread that fetches is not about to wrap. *)
LEMMA CursorFits ==
  ASSUME TeamFits, IInv, NEW t \in Threads, pc[t] = "fetch"
  PROVE  /\ cursor + 1 <= Len(morsels) + Cardinality(Threads)
         /\ (cursor + 1) % SizeMod = cursor + 1
  <1>1. Overshot \subseteq Threads \ {t}
    BY DEF Overshot
  <1>2. /\ IsFiniteSet(Threads \ {t})
        /\ Cardinality(Threads \ {t}) = Cardinality(Threads) - 1
    BY DispatchAssumption, FS_RemoveElement
  <1>3. Cardinality(Overshot) <= Cardinality(Threads) - 1
    BY <1>1, <1>2, FS_Subset
  <1>4. Len(morsels) \in Nat /\ Len(morsels) < RowMod /\ cursor \in Nat
    BY WidthAssumption DEF IInv, TypeOK, TilesOK, Tiled
  <1>5. cursor + 1 <= Len(morsels) + Cardinality(Threads)
    BY <1>3, <1>4, OvershotFinite DEF IInv, OvershotOK
  <1>6. cursor + 1 < SizeMod
    BY <1>4, <1>5, OvershotFinite, WidthAssumption DEF TeamFits
  <1>7. (cursor + 1) % SizeMod = cursor + 1
    BY <1>4, <1>6, NoWrap, WidthAssumption
  <1> QED BY <1>5, <1>7

LEMMA FetchIInv ==
  ASSUME TeamFits, IInv, NEW t \in Threads, Fetch(t)
  PROVE  IInv'
  <1>1. /\ pc[t] = "fetch"
        /\ pc' = [pc EXCEPT ![t] = "test"]
        /\ idx' = [idx EXCEPT ![t] = cursor]
        /\ cursor' = cursor + 1
        /\ UNCHANGED <<totalRows, morselSize, morsels, taken>>
    BY CursorFits DEF Fetch, FetchAdd
  <1>2. /\ Len(morsels) \in Nat /\ cursor \in 0 .. SizeMod - 1
        /\ pc \in [Threads -> {"fetch", "test", "join"}]
        /\ idx \in [Threads -> 0 .. SizeMod - 1]
        /\ taken \in [Threads -> SUBSET (0 .. Len(morsels) - 1)]
    BY DEF IInv, TypeOK
  <1>3. cursor + 1 \in 0 .. SizeMod - 1
    BY <1>1, <1>2, WidthAssumption DEF Fetch, FetchAdd
  <1>4. TypeOK'
    BY <1>1, <1>2, <1>3 DEF IInv, TypeOK
  <1>5. TilesOK'
    BY <1>1 DEF IInv, TilesOK, Tiled
  <1>6. BehindCursor'
    BY <1>1, <1>2 DEF IInv, BehindCursor
  <1>7. /\ Given(t)' = Given(t) \union {i \in {cursor} : IsMorsel(i)}
        /\ \A u \in Threads \ {t} : Given(u)' = Given(u)
    BY <1>1, <1>2 DEF Given, IsMorsel
  <1>8. \A u \in Threads : cursor \notin Given(u)
    BY <1>2 DEF IInv, BehindCursor, Given
  <1>9. GivenOnce'
    <2>1. \A u \in Threads : pc'[u] = "test" => idx'[u] \notin taken'[u]
      BY <1>1, <1>2 DEF IInv, BehindCursor, GivenOnce
    <2>2. \A u, v \in Threads : u # v => Given(u)' \cap Given(v)' = {}
      BY <1>7, <1>8 DEF IInv, GivenOnce
    <2> QED BY <2>1, <2>2 DEF GivenOnce
  <1>10. NothingSkipped'
    <2> SUFFICES ASSUME NEW i \in 0 .. Len(morsels) - 1, i < cursor + 1
                 PROVE  \E u \in Threads : i \in Given(u)'
      BY <1>1 DEF NothingSkipped
    <2>1. CASE i < cursor
      <3>1. PICK u \in Threads : i \in Given(u)
        BY <2>1 DEF IInv, NothingSkipped
      <3> QED BY <3>1, <1>7
    <2>2. CASE i = cursor
      BY <2>2, <1>2, <1>7 DEF IsMorsel
    <2> QED BY <1>2, <2>1, <2>2
  <1>11. OvershotOK'
    <2>1. CASE cursor < Len(morsels)
      <3>1. Overshot' = Overshot
        BY <2>1, <1>1, <1>2 DEF Overshot, IsMorsel
      <3>2. Overshot = {}
        BY <2>1, <1>2 DEF IInv, OvershotOK, Overshot
      <3>3. Cardinality(Overshot') \in Nat
        BY <3>1, OvershotFinite
      <3> QED BY <2>1, <1>1, <1>2, <3>1, <3>2, <3>3 DEF OvershotOK
    <2>2. CASE cursor >= Len(morsels)
      <3>1. Overshot' = Overshot \union {t} /\ t \notin Overshot
        BY <2>2, <1>1, <1>2 DEF Overshot, IsMorsel
      <3>2. Cardinality(Overshot') = Cardinality(Overshot) + 1
        BY <3>1, OvershotFinite, FS_AddElement
      <3>3. cursor <= Len(morsels) + Cardinality(Overshot)
        BY DEF IInv, OvershotOK
      <3> QED BY <2>2, <1>1, <1>2, <3>2, <3>3, OvershotFinite DEF OvershotOK
    <2> QED BY <1>2, <2>1, <2>2
  <1> QED BY <1>4, <1>5, <1>6, <1>9, <1>10, <1>11 DEF IInv

(* Neither taking the morsel that was fetched nor leaving the loop changes
   what the threads were given.                                             *)
LEMMA TestIInv ==
  ASSUME IInv, NEW t \in Threads, Take(t) \/ Leave(t)
  PROVE  IInv'
  <1>1. /\ UNCHANGED <<totalRows, morselSize, morsels, cursor, idx>>
        /\ pc[t] = "test"
        /\ \/ /\ IsMorsel(idx[t])
              /\ taken' = [taken EXCEPT ![t] = @ \union {idx[t]}]
              /\ pc' = [pc EXCEPT ![t] = "fetch"]
           \/ /\ ~IsMorsel(idx[t])
              /\ pc' = [pc EXCEPT ![t] = "join"]
              /\ taken' = taken
    BY DEF Take, Leave, allocatorVars
  <1>2. /\ Len(morsels) \in Nat
        /\ pc \in [Threads -> {"fetch", "test", "join"}]
        /\ idx \in [Threads -> 0 .. SizeMod - 1]
        /\ taken \in [Threads -> SUBSET (0 .. Len(morsels) - 1)]
    BY DEF IInv, TypeOK
  <1>3. TypeOK'
    <2>1. pc' \in [Threads -> {"fetch", "test", "join"}]
      BY <1>1, <1>2
    <2>2. taken' \in [Threads -> SUBSET (0 .. Len(morsels) - 1)]
      BY <1>1, <1>2, WidthAssumption DEF IsMorsel
    <2> QED BY <1>1, <2>1, <2>2 DEF IInv, TypeOK
  <1>4. TilesOK'
    BY <1>1 DEF IInv, TilesOK, Tiled
  <1>5. BehindCursor'
    BY <1>1, <1>2 DEF IInv, BehindCursor
  <1>6. \A u \in Threads : Given(u)' = Given(u)
    BY <1>1, <1>2 DEF Given, IsMorsel
  <1>7. GivenOnce' /\ NothingSkipped'
    <2>1. \A u \in Threads : pc'[u] = "test" => idx'[u] \notin taken'[u]
      BY <1>1, <1>2 DEF IInv, GivenOnce
    <2> QED BY <1>1, <1>6, <2>1 DEF IInv, GivenOnce, NothingSkipped
  <1>8. Overshot' = Overshot
    BY <1>1, <1>2 DEF Overshot, IsMorsel
  <1>9. OvershotOK'
    BY <1>1, <1>8 DEF IInv, OvershotOK
  <1> QED BY <1>3, <1>4, <1>5, <1>7, <1>9 DEF IInv

LEMMA NextIInv ==
  ASSUME InputsInRange, TeamFits
  PROVE  IInv /\ [Next]_vars => IInv'
  <1> SUFFICES ASSUME IInv, [Next]_vars PROVE IInv'
    OBVIOUS
  <1>1. CASE \E total \in Totals, size \in Sizes : OpenTable(total, size)
    BY <1>1, OpenIInv
  <1>2. CASE Rewind
    BY <1>2, RewindIInv
  <1>3. CASE \E t \in Threads : Fetch(t)
    BY <1>3, FetchIInv
  <1>4. CASE \E t \in Threads : Take(t) \/ Leave(t)
    BY <1>4, TestIInv
  <1>5. CASE UNCHANGED vars
    BY <1>5 DEF vars, IInv, TypeOK, TilesOK, Tiled, BehindCursor, GivenOnce,
             NothingSkipped, OvershotOK, Overshot, Given, IsMorsel
  <1> QED BY <1>1, <1>2, <1>3, <1>4, <1>5 DEF Next

(* The inductive invariant holds in every reachable state. *)
THEOREM Invariance ==
  ASSUME InputsInRange, TeamFits
  PROVE  Spec => []IInv
  <1>1. Init => IInv
    BY InitIInv
  <1>2. IInv /\ [Next]_vars => IInv'
    BY NextIInv
  <1> QED BY <1>1, <1>2, PTL DEF Spec

-----------------------------------------------------------------------------
LEMMA IInvRowHandedOnce == IInv => RowHandedOnce
  <1> SUFFICES ASSUME IInv PROVE RowHandedOnce
    OBVIOUS
  <1>1. \A t \in Threads : Given(t) \subseteq 0 .. Len(morsels) - 1
    BY DEF IInv, TypeOK, Given, IsMorsel
  <1>2. ASSUME NEW t \in Threads, NEW u \in Threads,
               NEW i \in Given(t), NEW j \in Given(u), t # u \/ i # j
        PROVE  RowsOf(MorselAt(i)) \cap RowsOf(MorselAt(j)) = {}
    <2>1. i # j
      BY <1>2 DEF IInv, GivenOnce
    <2>2. totalRows \in Nat /\ morselSize \in Nat \ {0}
      BY DEF IInv, TypeOK
    <2> QED BY <1>1, <2>1, <2>2, TilesDisjoint, MorselRows DEF IInv, TilesOK, MorselAt
  <1> QED BY <1>2 DEF RowHandedOnce, IInv, GivenOnce

(* The indices given out are those behind the cursor. *)
LEMMA GivenIsBehindCursor ==
  ASSUME IInv
  PROVE  UNION {Given(t) : t \in Threads} = {i \in 0 .. Len(morsels) - 1 : i < cursor}
  <1>1. ASSUME NEW t \in Threads, NEW i \in Given(t)
        PROVE  i \in 0 .. Len(morsels) - 1 /\ i < cursor
    BY DEF IInv, TypeOK, BehindCursor, Given, IsMorsel
  <1>2. ASSUME NEW i \in 0 .. Len(morsels) - 1, i < cursor
        PROVE  \E t \in Threads : i \in Given(t)
    BY <1>2 DEF IInv, NothingSkipped
  <1> QED BY <1>1, <1>2

LEMMA JoinedAtEnd ==
  ASSUME IInv, Joined
  PROVE  cursor >= Len(morsels)
  <1>1. PICK t \in Threads : TRUE
    BY DispatchAssumption
  <1>2. t \in Overshot
    BY DEF Joined, Overshot
  <1> QED BY <1>2 DEF IInv, OvershotOK

LEMMA IInvRegionDrainsTable == IInv => RegionDrainsTable
  <1> SUFFICES ASSUME IInv, Joined
               PROVE  UNION {RowsGiven(t) : t \in Threads} = 0 .. totalRows - 1
    BY DEF RegionDrainsTable
  <1>1. /\ totalRows \in Nat /\ morselSize \in Nat \ {0} /\ cursor \in Nat
        /\ Len(morsels) \in Nat
    BY WidthAssumption DEF IInv, TypeOK
  <1>2. Tiled(totalRows, morselSize, morsels)
    BY DEF IInv, TilesOK
  <1>3. UNION {Given(t) : t \in Threads} = 0 .. Len(morsels) - 1
    BY <1>1, GivenIsBehindCursor, JoinedAtEnd
  <1>4. ASSUME NEW t \in Threads, NEW r \in RowsGiven(t)
        PROVE  r \in 0 .. totalRows - 1
    <2>1. PICK i \in Given(t) : r \in RowsOf(morsels[i + 1])
      BY DEF RowsGiven, MorselAt
    <2>2. i \in 0 .. Len(morsels) - 1
      BY <1>3
    <2> QED BY <1>1, <1>2, <2>1, <2>2, TileInTable, MorselRows
  <1>5. ASSUME NEW r \in 0 .. totalRows - 1
        PROVE  \E t \in Threads : r \in RowsGiven(t)
    <2>1. PICK i \in 0 .. Len(morsels) - 1 : r \in RowsOf(morsels[i + 1])
      BY <1>1, <1>2, TileOfRow, MorselRows
    <2>2. PICK t \in Threads : i \in Given(t)
      BY <1>3
    <2> QED BY <2>1, <2>2 DEF RowsGiven, MorselAt
  <1> QED BY <1>4, <1>5

LEMMA IInvCursorOvershoot == IInv => CursorOvershoot
  <1> SUFFICES ASSUME IInv PROVE CursorOvershoot
    OBVIOUS
  <1>1. Len(morsels) \in Nat /\ cursor \in Nat
    BY WidthAssumption DEF IInv, TypeOK
  <1> QED BY <1>1, OvershotFinite DEF IInv, OvershotOK, CursorOvershoot

LEMMA IInvRemainingIsUntaken == IInv => RemainingIsUntaken
  <1> SUFFICES ASSUME IInv PROVE RemainingIsUntaken
    OBVIOUS
  <1> DEFINE len == Len(morsels)
             givenAll == UNION {Given(t) : t \in Threads}
  <1>1. len \in Nat /\ cursor \in Nat
    BY WidthAssumption DEF IInv, TypeOK
  <1>2. givenAll = {i \in 0 .. len - 1 : i < cursor}
    BY GivenIsBehindCursor
  <1>3. RemainingMorsels = IF cursor < len THEN len - cursor ELSE 0
    BY DEF RemainingMorsels
  <1>4. Cardinality(givenAll) = IF cursor < len THEN cursor ELSE len
    <2> HIDE DEF len, givenAll
    <2>1. CASE cursor < len
      <3>1. givenAll = 0 .. cursor - 1
        BY <1>1, <1>2, <2>1
      <3> QED BY <1>1, <2>1, <3>1, FS_Interval
    <2>2. CASE ~(cursor < len)
      <3>1. givenAll = 0 .. len - 1
        BY <1>1, <1>2, <2>2
      <3> QED BY <1>1, <2>2, <3>1, FS_Interval
    <2> QED BY <2>1, <2>2
  <1>5. RemainingMorsels = len - Cardinality(givenAll)
    <2> HIDE DEF len, givenAll
    <2> QED BY <1>1, <1>3, <1>4
  <1> QED BY <1>5 DEF RemainingIsUntaken

(* The variables keep their types; in particular the bounds of the morsels
   are row identifiers.                                                     *)
THEOREM TypeCorrect ==
  ASSUME InputsInRange, TeamFits
  PROVE  Spec => []TypeOK
  <1>1. IInv => TypeOK
    BY DEF IInv
  <1> QED BY <1>1, Invariance, PTL

(* get_next_morsel() hands a row out at most once in a phase. *)
THEOREM NoRowTwice ==
  ASSUME InputsInRange, TeamFits
  PROVE  Spec => []RowHandedOnce
  BY IInvRowHandedOnce, Invariance, PTL

(* A region that has ended has handed out exactly the rows of the table. *)
THEOREM NoRowForgotten ==
  ASSUME InputsInRange, TeamFits
  PROVE  Spec => []RegionDrainsTable
  BY IInvRegionDrainsTable, Invariance, PTL

(* The cursor stays within a team of the last morsel. *)
THEOREM NoWrapAround ==
  ASSUME InputsInRange, TeamFits
  PROVE  Spec => []CursorOvershoot
  BY IInvCursorOvershoot, Invariance, PTL

(* remaining_morsels() counts the morsels nobody has been promised. *)
THEOREM RemainingIsExact ==
  ASSUME InputsInRange, TeamFits
  PROVE  Spec => []RemainingIsUntaken
  BY IInvRemainingIsUntaken, Invariance, PTL

-----------------------------------------------------------------------------
(***************************************************************************)
(* The dispatch implements the pool of rows.  Opening a region fills the   *)
(* pool because the morsels tile the table; a fetch takes rows out of it   *)
(* that nobody else can take because the tiles are disjoint; the last      *)
(* thread to leave finds it empty.                                         *)
(***************************************************************************)
PoolVars == Pool!poolVars

(* After a fork the pool has every row of the table. *)
LEMMA ForkOpens ==
  ASSUME Joined, Fork, cursor' = 0, TilesOK', TypeOK'
  PROVE  Pool!Next
  <1>1. totalRows' \in Nat /\ totalRows' \in 0 .. RowMod - 1 /\ morselSize' \in Nat \ {0}
    BY WidthAssumption DEF TilesOK, TypeOK
  <1>2. Tiled(totalRows', morselSize', morsels') /\ Len(morsels') \in Nat
    BY DEF TilesOK, Tiled
  <1>3. RowsLeft' = 0 .. (totalRows' - 1)
    <2>1. RowsLeft' = UNION {RowsOf(morsels'[i + 1]) : i \in 0 .. (Len(morsels') - 1)}
      BY DEF RowsLeft, MorselAt, RowsOf
    <2>2. ASSUME NEW r \in 0 .. (totalRows' - 1)
          PROVE  \E i \in 0 .. (Len(morsels') - 1) : r \in RowsOf(morsels'[i + 1])
      BY <1>1, <1>2, TileOfRow, MorselRows
    <2>3. ASSUME NEW i \in 0 .. (Len(morsels') - 1)
          PROVE  RowsOf(morsels'[i + 1]) \subseteq 0 .. (totalRows' - 1)
      BY <1>1, <1>2, TileInTable, MorselRows
    <2> QED BY <2>1, <2>2, <2>3
  <1>4. \A t \in Threads : RowsGiven(t)' = {}
    BY DEF Fork, RowsGiven, Given
  <1>5. ~Joined'
    BY DispatchAssumption DEF Fork, Joined
  <1>6. Pool!Open(totalRows')
    BY <1>3, <1>4, <1>5 DEF Pool!Open
  <1> QED BY <1>1, <1>6 DEF Pool!Next

(* A fetch takes the rows of one morsel, or nothing when none is left. *)
LEMMA FetchTakes ==
  ASSUME TeamFits, IInv, NEW t \in Threads, Fetch(t)
  PROVE  [Pool!Next]_PoolVars
  <1>1. /\ pc[t] = "fetch" /\ pc' = [pc EXCEPT ![t] = "test"]
        /\ idx' = [idx EXCEPT ![t] = cursor]
        /\ cursor' = cursor + 1
        /\ UNCHANGED <<totalRows, morselSize, morsels, taken>>
    BY CursorFits DEF Fetch, FetchAdd
  <1>2. /\ Len(morsels) \in Nat /\ cursor \in Nat
        /\ pc \in [Threads -> {"fetch", "test", "join"}]
        /\ idx \in [Threads -> 0 .. SizeMod - 1]
        /\ totalRows \in Nat /\ morselSize \in Nat \ {0}
        /\ Tiled(totalRows, morselSize, morsels)
    BY WidthAssumption DEF IInv, TypeOK, TilesOK
  <1>3. ~Joined /\ ~Joined'
    BY <1>1, <1>2 DEF Joined
  <1>4. /\ Given(t)' = Given(t) \union {i \in {cursor} : IsMorsel(i)}
        /\ \A u \in Threads \ {t} : Given(u)' = Given(u)
    BY <1>1, <1>2 DEF Given, IsMorsel
  <1>5. /\ \A u \in Threads \ {t} : RowsGiven(u)' = RowsGiven(u)
        /\ RowsGiven(t)' = UNION {RowsOf(MorselAt(i)) : i \in Given(t)'}
    BY <1>1, <1>4 DEF RowsGiven, MorselAt, RowsOf
  <1>6. RowsLeft' = UNION {RowsOf(MorselAt(i)) : i \in (cursor + 1) .. (Len(morsels) - 1)}
    BY <1>1 DEF RowsLeft, MorselAt, RowsOf
  <1> DEFINE mine == [u \in Threads |-> RowsGiven(u)]
             rows == RowsOf(MorselAt(cursor))
  <1>7. mine' = [u \in Threads |-> RowsGiven(u)']
    OBVIOUS
  <1>8. CASE cursor < Len(morsels)
    <2>1. cursor \in 0 .. (Len(morsels) - 1)
      BY <1>2, <1>8
    <2>2. cursor .. (Len(morsels) - 1) = {cursor} \union ((cursor + 1) .. (Len(morsels) - 1))
      BY <1>2, <1>8
    <2>3. RowsLeft = rows \union RowsLeft'
      BY <1>6, <2>2 DEF RowsLeft
    <2>4. rows \cap RowsLeft' = {}
      <3>1. ASSUME NEW i \in (cursor + 1) .. (Len(morsels) - 1)
            PROVE  rows \cap RowsOf(MorselAt(i)) = {}
        <4>1. i \in 0 .. (Len(morsels) - 1) /\ i # cursor
          BY <1>2, <3>1
        <4> QED BY <1>2, <2>1, <4>1, TilesDisjoint, MorselRows DEF MorselAt
      <3> QED BY <1>6, <3>1
    <2>5. rows # {}
      BY <1>2, <2>1, TileInTable, MorselRows DEF MorselAt
    <2>6. RowsGiven(t)' = RowsGiven(t) \union rows
      <3>1. Given(t)' = Given(t) \union {cursor}
        BY <1>4, <1>8 DEF IsMorsel
      <3> QED BY <1>5, <3>1 DEF RowsGiven
    <2> HIDE DEF rows
    <2>7. mine' = [mine EXCEPT ![t] = @ \union rows]
      BY <1>5, <1>7, <2>6
    <2>8. RowsLeft' = RowsLeft \ rows /\ rows \in (SUBSET RowsLeft) \ {{}}
      BY <2>3, <2>4, <2>5
    <2>9. Pool!Take(t)
      BY <1>3, <2>7, <2>8 DEF Pool!Take
    <2> QED BY <2>9 DEF Pool!Next
  <1>9. CASE ~(cursor < Len(morsels))
    <2>1. cursor .. (Len(morsels) - 1) = {} /\ (cursor + 1) .. (Len(morsels) - 1) = {}
      BY <1>2, <1>9
    <2>2. RowsLeft' = RowsLeft
      BY <1>6, <2>1 DEF RowsLeft
    <2>3. Given(t)' = Given(t)
      BY <1>4, <1>9 DEF IsMorsel
    <2>4. \A u \in Threads : RowsGiven(u)' = RowsGiven(u)
      BY <1>5, <2>3 DEF RowsGiven
    <2>5. mine' = mine
      BY <1>7, <2>4
    <2> QED BY <1>3, <2>2, <2>5 DEF PoolVars, Pool!poolVars
  <1> QED BY <1>8, <1>9

(* The test of what was fetched moves no row; the last to leave ends the
   phase, with nothing left in the pool.                                    *)
LEMMA TestCloses ==
  ASSUME IInv, IInv', NEW t \in Threads, Take(t) \/ Leave(t)
  PROVE  [Pool!Next]_PoolVars
  <1>1. /\ UNCHANGED <<totalRows, morselSize, morsels, cursor, idx>>
        /\ pc[t] = "test"
        /\ \/ /\ IsMorsel(idx[t])
              /\ taken' = [taken EXCEPT ![t] = @ \union {idx[t]}]
              /\ pc' = [pc EXCEPT ![t] = "fetch"]
           \/ /\ ~IsMorsel(idx[t])
              /\ pc' = [pc EXCEPT ![t] = "join"]
              /\ taken' = taken
    BY DEF Take, Leave, allocatorVars
  <1>2. /\ Len(morsels) \in Nat /\ cursor \in Nat
        /\ pc \in [Threads -> {"fetch", "test", "join"}]
        /\ idx \in [Threads -> 0 .. SizeMod - 1]
        /\ taken \in [Threads -> SUBSET (0 .. Len(morsels) - 1)]
    BY WidthAssumption DEF IInv, TypeOK
  <1>3. \A u \in Threads : Given(u)' = Given(u)
    BY <1>1, <1>2 DEF Given, IsMorsel
  <1>4. \A u \in Threads : RowsGiven(u)' = RowsGiven(u)
    BY <1>1, <1>3 DEF RowsGiven, MorselAt, RowsOf
  <1>5. [u \in Threads |-> RowsGiven(u)]' = [u \in Threads |-> RowsGiven(u)]
    BY <1>4
  <1>6. RowsLeft' = RowsLeft
    BY <1>1 DEF RowsLeft, MorselAt, RowsOf
  <1>7. ~Joined
    BY <1>1 DEF Joined
  <1>8. CASE Joined'
    <2>1. cursor >= Len(morsels)
      <3>1. t \in Overshot'
        BY <1>8 DEF Joined, Overshot
      <3> QED BY <1>1, <3>1 DEF IInv, OvershotOK
    <2>2. cursor .. (Len(morsels) - 1) = {}
      BY <1>2, <2>1
    <2>3. RowsLeft = {}
      BY <2>2 DEF RowsLeft
    <2>4. Pool!Close
      BY <1>5, <1>6, <1>7, <1>8, <2>3 DEF Pool!Close
    <2> QED BY <2>4 DEF Pool!Next
  <1>9. CASE ~Joined'
    BY <1>5, <1>6, <1>7, <1>9 DEF PoolVars, Pool!poolVars
  <1> QED BY <1>8, <1>9

LEMMA StepOfPool ==
  ASSUME InputsInRange, TeamFits, IInv, IInv', [Next]_vars
  PROVE  [Pool!Next]_PoolVars
  <1>1. CASE \E total \in Totals, size \in Sizes : OpenTable(total, size)
    BY <1>1, ForkOpens DEF OpenTable, Partition, IInv
  <1>2. CASE Rewind
    BY <1>2, ForkOpens DEF Rewind, Reset, IInv
  <1>3. CASE \E t \in Threads : Fetch(t)
    BY <1>3, FetchTakes
  <1>4. CASE \E t \in Threads : Take(t) \/ Leave(t)
    BY <1>4, TestCloses
  <1>5. CASE UNCHANGED vars
    BY <1>5 DEF vars, PoolVars, Pool!poolVars, Joined, RowsLeft, RowsGiven, Given,
             MorselAt, RowsOf, IsMorsel
  <1> QED BY <1>1, <1>2, <1>3, <1>4, <1>5 DEF Next

(* Whatever the team, the tables and the sizes, get_next_morsel() serves the
   rows of a region out of one pool, each to one thread, and the region does
   not end before the pool is empty.                                        *)
THEOREM DispatchIsPool ==
  ASSUME InputsInRange, TeamFits
  PROVE  Spec => Pool!Safety
  <1>1. Init => Pool!Init
    <2> SUFFICES ASSUME Init PROVE Pool!Init
      OBVIOUS
    <2>1. RowsLeft = {}
      BY DEF Init, RowsLeft
    <2>2. \A t \in Threads : RowsGiven(t) = {}
      BY DEF Init, RowsGiven, Given
    <2>3. Joined
      BY DEF Init, Joined
    <2> QED BY <2>1, <2>2, <2>3 DEF Pool!Init
  <1>2. IInv /\ IInv' /\ [Next]_vars => [Pool!Next]_PoolVars
    BY StepOfPool
  <1> QED BY Invariance, <1>1, <1>2, PTL DEF Spec, Pool!Safety, PoolVars
=============================================================================
