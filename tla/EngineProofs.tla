------------------------------ MODULE EngineProofs ------------------------------
(***************************************************************************)
(* Safety of the storage layer, for any program on its readers, tables and *)
(* scans and for every number of readers, descriptors, addresses and rows, *)
(* and of a run of pqe_engine on it, for every dataset that fits a table.  *)
(* That every run ends is liveness, and left to model checking.            *)
(***************************************************************************)
EXTENDS Engine, StorageClient, TLAPS, FiniteSetTheorems, FunctionTheorems

-----------------------------------------------------------------------------
(* What every operation of a reader, a table and a scan preserves, and what
   therefore holds in any program that uses them.                           *)

(***************************************************************************)
(* OwnedOnce and NothingForgotten are inductive only together: that a new  *)
(* descriptor belongs to nobody follows from everything open having an     *)
(* owner or being lost, and this survives a close only because nobody else *)
(* owned what was closed.  Both speak of descriptors and of mappings in    *)
(* the same way, so the argument is made once, for any holdings.           *)
(***************************************************************************)
Holds(h, open, lost) ==
  /\ h \in [Readers -> SUBSET open]
  /\ \A r \in Readers : h[r] \intersect lost = {}
  /\ \A r, s \in Readers : r # s => h[r] \intersect h[s] = {}
  /\ open = lost \union UNION {h[r] : r \in Readers}

(* A reader gives up what it holds and takes something that nobody holds. *)
LEMMA Exchanged ==
  ASSUME NEW h, NEW open, NEW lost, Holds(h, open, lost),
         NEW r \in Readers, NEW new, new \intersect (open \ h[r]) = {}
  PROVE  Holds([h EXCEPT ![r] = new], (open \ h[r]) \union new, lost)
  <1> DEFINE g == [h EXCEPT ![r] = new]
             now == (open \ h[r]) \union new
  <1>1. \A s \in Readers : g[s] = IF s = r THEN new ELSE h[s]
    BY DEF Holds
  <1>2. \A s \in Readers : s # r => h[s] \subseteq open \ h[r]
    BY DEF Holds
  <1>3. lost \subseteq open \ h[r]
    BY DEF Holds
  <1>4. g \in [Readers -> SUBSET now]
    BY <1>1, <1>2 DEF Holds
  <1>5. \A s \in Readers : g[s] \intersect lost = {}
    BY <1>1, <1>3 DEF Holds
  <1>6. \A s, u \in Readers : s # u => g[s] \intersect g[u] = {}
    BY <1>1, <1>2 DEF Holds
  <1>7. now = lost \union UNION {g[s] : s \in Readers}
    <2>1. ASSUME NEW d \in now PROVE d \in lost \union UNION {g[s] : s \in Readers}
      <3>1. CASE d \in new
        BY <1>1, <3>1
      <3>2. CASE d \in open \ h[r]
        <4>1. d \in lost \/ \E s \in Readers : s # r /\ d \in h[s]
          BY <3>2 DEF Holds
        <4>2. QED
          BY <4>1, <1>1
      <3>3. QED
        BY <3>1, <3>2, <2>1
    <2>2. ASSUME NEW d \in lost \union UNION {g[s] : s \in Readers} PROVE d \in now
      BY <1>3, <1>4, <2>2
    <2>3. QED
      BY <2>1, <2>2
  <1>8. QED
    BY <1>4, <1>5, <1>6, <1>7 DEF Holds

(* A reader takes over what another holds; what it held itself is lost. *)
LEMMA TakenOver ==
  ASSUME NEW h, NEW open, NEW lost, Holds(h, open, lost),
         NEW r \in Readers, NEW s \in Readers, r # s
  PROVE  Holds([h EXCEPT ![r] = h[s], ![s] = {}], open, lost \union h[r])
  <1> DEFINE g == [h EXCEPT ![r] = h[s], ![s] = {}]
  <1>1. \A u \in Readers : g[u] = IF u = r THEN h[s] ELSE IF u = s THEN {} ELSE h[u]
    BY DEF Holds
  <1>2. g \in [Readers -> SUBSET open]
    BY <1>1 DEF Holds
  <1>3. \A u \in Readers : g[u] \intersect (lost \union h[r]) = {}
    BY <1>1 DEF Holds
  <1>4. \A u, v \in Readers : u # v => g[u] \intersect g[v] = {}
    BY <1>1 DEF Holds
  <1>5. open = (lost \union h[r]) \union UNION {g[u] : u \in Readers}
    <2>1. ASSUME NEW d \in open
          PROVE  d \in lost \union h[r] \/ \E u \in Readers : d \in g[u]
      <3>1. d \in lost \/ \E u \in Readers : d \in h[u]
        BY DEF Holds
      <3>2. QED
        BY <3>1, <1>1
    <2>2. lost \union h[r] \subseteq open
      BY DEF Holds
    <2>3. QED
      BY <2>1, <2>2, <1>2
  <1>6. QED
    BY <1>2, <1>3, <1>4, <1>5 DEF Holds

-----------------------------------------------------------------------------
FdsOf == [r \in Readers |-> Descriptor(reader[r])]
MapsOf == [r \in Readers |-> Mapping(reader[r])]

ReaderTypes ==
  /\ reader \in [Readers -> ReaderStates]
  /\ fds \subseteq Descriptors
  /\ maps \subseteq Addresses

Owned == Holds(FdsOf, fds, lostFds) /\ Holds(MapsOf, maps, lostMaps)

ReaderInv == ReaderTypes /\ Owned

LEMMA OwnedImplies == Owned => OwnedOnce /\ NothingForgotten
  <1> SUFFICES ASSUME Owned PROVE OwnedOnce /\ NothingForgotten
    OBVIOUS
  <1>1. \A r \in Readers : FdsOf[r] = Descriptor(reader[r]) /\ MapsOf[r] = Mapping(reader[r])
    BY DEF FdsOf, MapsOf
  <1>2. OwnedOnce
    BY <1>1 DEF Owned, Holds, OwnedOnce
  <1>3. UNION {FdsOf[r] : r \in Readers} = UNION {Descriptor(reader[r]) : r \in Readers}
    BY <1>1
  <1>4. UNION {MapsOf[r] : r \in Readers} = UNION {Mapping(reader[r]) : r \in Readers}
    BY <1>1
  <1>5. NothingForgotten
    BY <1>3, <1>4 DEF Owned, Holds, NothingForgotten
  <1>6. QED
    BY <1>2, <1>5

(* What the private operations of a reader make of a state, and what it
   holds then.                                                              *)
LEMMA WithStates ==
  ASSUME NEW fd \in Descriptors \union {NoFd}, NEW data \in Addresses \union {Null, Literal},
         NEW size \in FileSizes \union {0}, size > 0 <=> data \in Addresses
  PROVE  /\ With(fd, data, size) \in ReaderStates
         /\ With(fd, data, size).impl
         /\ Descriptor(With(fd, data, size)) = IF fd = NoFd THEN {} ELSE {fd}
         /\ Mapping(With(fd, data, size)) = IF size > 0 THEN {data} ELSE {}
  BY ReaderAssumption
     DEF ReaderStates, With, Descriptor, Mapping, Dead, NoFd, Null, Literal

LEMMA ClosedFacts ==
  ASSUME NEW data \in {Null, Literal}
  PROVE  /\ With(NoFd, data, 0) \in ReaderStates
         /\ With(NoFd, data, 0).impl
         /\ Descriptor(With(NoFd, data, 0)) = {}
         /\ Mapping(With(NoFd, data, 0)) = {}
  BY ReaderAssumption
     DEF ReaderStates, With, Descriptor, Mapping, Dead, NoFd, Null, Literal

LEMMA StateFacts ==
  ASSUME NEW x \in ReaderStates
  PROVE  /\ Descriptor(x) \subseteq Descriptors
         /\ Mapping(x) \subseteq Addresses
         /\ x.data \in Addresses \union {Null, Literal}
         /\ x.impl => (x.size > 0 <=> Mapping(x) # {})
         /\ ~x.live => Descriptor(x) = {} /\ Mapping(x) = {}
  BY ReaderAssumption
     DEF ReaderStates, Descriptor, Mapping, Dead, NoFd, Null, Literal

LEMMA CleanedUpFacts ==
  ASSUME NEW x \in ReaderStates
  PROVE  /\ CleanedUp(x) \in ReaderStates
         /\ Descriptor(CleanedUp(x)) = {} /\ Mapping(CleanedUp(x)) = {}
         /\ CleanedUp(x).impl = x.impl
         /\ x.impl => CleanedUp(x).data \in {Null, Literal}
  <1>1. CASE x.impl
    <2> DEFINE data == IF Mapping(x) = {} THEN x.data ELSE Null
    <2>1. data \in {Null, Literal}
      BY <1>1, ReaderAssumption DEF ReaderStates, Mapping, Null, Literal
    <2>2. CleanedUp(x) = With(NoFd, data, 0)
      BY <1>1 DEF CleanedUp
    <2> HIDE DEF data
    <2>3. CleanedUp(x).data = data
      BY <2>2 DEF With
    <2>4. QED
      BY <1>1, <2>1, <2>2, <2>3, ClosedFacts
  <1>2. CASE ~x.impl
    BY <1>2 DEF CleanedUp, Descriptor, Mapping
  <1>3. QED
    BY <1>1, <1>2

LEMMA MovedFromFacts ==
  ASSUME NEW x \in ReaderStates, x.live
  PROVE  /\ MovedFrom(x) \in ReaderStates
         /\ Descriptor(MovedFrom(x)) = {} /\ Mapping(MovedFrom(x)) = {}
  BY ReaderAssumption
     DEF ReaderStates, MovedFrom, Descriptor, Mapping, Dead, NoFd, Null, Literal

(* open() fails after it has set the descriptor and the size. *)
LEMMA FailedFacts ==
  ASSUME NEW fd \in Descriptors, NEW data \in {Null, Literal}, NEW size \in FileSizes
  PROVE  /\ CleanedUp(With(fd, data, size)) \in ReaderStates
         /\ Descriptor(CleanedUp(With(fd, data, size))) = {}
         /\ Mapping(CleanedUp(With(fd, data, size))) = {}
         /\ Descriptor(With(fd, data, size)) = {fd}
         /\ Mapping(With(fd, data, size)) \intersect Addresses = {}
  <1> DEFINE z == With(fd, data, size)
             kept == IF Mapping(z) = {} THEN z.data ELSE Null
  <1>1. z.impl /\ z.data = data /\ z.fd = fd
    BY DEF With
  <1>2. kept \in {Null, Literal}
    BY <1>1
  <1>3. CleanedUp(z) = With(NoFd, kept, 0)
    BY <1>1 DEF CleanedUp
  <1>4. Descriptor(z) = {fd} /\ Mapping(z) \subseteq {data}
    BY <1>1, ReaderAssumption DEF Descriptor, Mapping, NoFd
  <1>5. data \notin Addresses
    BY ReaderAssumption DEF Null, Literal
  <1> HIDE DEF z, kept
  <1>6. /\ CleanedUp(z) \in ReaderStates
        /\ Descriptor(CleanedUp(z)) = {} /\ Mapping(CleanedUp(z)) = {}
    BY <1>2, <1>3, ClosedFacts
  <1>7. QED
    BY <1>4, <1>5, <1>6 DEF z

LEMMA ConstantStates ==
  /\ Dead \in ReaderStates /\ Fresh \in ReaderStates
  /\ Descriptor(Dead) = {} /\ Mapping(Dead) = {}
  /\ Descriptor(Fresh) = {} /\ Mapping(Fresh) = {}
  BY ReaderAssumption
     DEF ReaderStates, Descriptor, Mapping, With, Dead, Fresh, NoFd, Null, Literal

-----------------------------------------------------------------------------
(* Every operation on one reader puts another state in its place, with what
   that state holds; a move puts two.                                       *)
LEMMA Replaced ==
  ASSUME ReaderInv, NEW r \in Readers, NEW y \in ReaderStates,
         reader' = [reader EXCEPT ![r] = y],
         fds' = (fds \ Descriptor(reader[r])) \union Descriptor(y),
         maps' = (maps \ Mapping(reader[r])) \union Mapping(y),
         Descriptor(y) \intersect (fds \ Descriptor(reader[r])) = {},
         Mapping(y) \intersect (maps \ Mapping(reader[r])) = {},
         UNCHANGED lostVars
  PROVE  ReaderInv'
  <1>1. ReaderTypes'
    BY StateFacts DEF ReaderInv, ReaderTypes
  <1>2. FdsOf' = [FdsOf EXCEPT ![r] = Descriptor(y)]
    BY DEF FdsOf, ReaderInv, ReaderTypes
  <1>3. MapsOf' = [MapsOf EXCEPT ![r] = Mapping(y)]
    BY DEF MapsOf, ReaderInv, ReaderTypes
  <1>4. FdsOf[r] = Descriptor(reader[r]) /\ MapsOf[r] = Mapping(reader[r])
    BY DEF FdsOf, MapsOf
  <1>5. Holds(FdsOf', fds', lostFds')
    BY <1>2, <1>4, Exchanged DEF ReaderInv, Owned, lostVars
  <1>6. Holds(MapsOf', maps', lostMaps')
    BY <1>3, <1>4, Exchanged DEF ReaderInv, Owned, lostVars
  <1>7. QED
    BY <1>1, <1>5, <1>6 DEF ReaderInv, Owned

LEMMA Moved ==
  ASSUME ReaderInv, NEW r \in Readers, NEW source \in Readers, r # source,
         reader[source].live,
         reader' = [reader EXCEPT ![r] = reader[source],
                                  ![source] = MovedFrom(reader[source])],
         lostFds' = lostFds \union Descriptor(reader[r]),
         lostMaps' = lostMaps \union Mapping(reader[r]),
         UNCHANGED <<fds, maps>>
  PROVE  ReaderInv'
  <1>1. reader[source] \in ReaderStates
    BY DEF ReaderInv, ReaderTypes
  <1>2. /\ MovedFrom(reader[source]) \in ReaderStates
        /\ Descriptor(MovedFrom(reader[source])) = {}
        /\ Mapping(MovedFrom(reader[source])) = {}
    BY <1>1, MovedFromFacts
  <1>3. ReaderTypes'
    BY <1>1, <1>2 DEF ReaderInv, ReaderTypes
  <1>4. FdsOf' = [FdsOf EXCEPT ![r] = FdsOf[source], ![source] = {}]
    BY <1>2 DEF FdsOf, ReaderInv, ReaderTypes
  <1>5. MapsOf' = [MapsOf EXCEPT ![r] = MapsOf[source], ![source] = {}]
    BY <1>2 DEF MapsOf, ReaderInv, ReaderTypes
  <1>6. FdsOf[r] = Descriptor(reader[r]) /\ MapsOf[r] = Mapping(reader[r])
    BY DEF FdsOf, MapsOf
  <1>7. Holds(FdsOf', fds', lostFds')
    BY <1>4, <1>6, TakenOver DEF ReaderInv, Owned
  <1>8. Holds(MapsOf', maps', lostMaps')
    BY <1>5, <1>6, TakenOver DEF ReaderInv, Owned
  <1>9. QED
    BY <1>3, <1>7, <1>8 DEF ReaderInv, Owned

(* open(), from a state that holds what the reader holds: its own, or the
   fresh one of the constructor.                                            *)
LEMMA OpenKeeps ==
  ASSUME ReaderInv, NEW r \in Readers, NEW x \in ReaderStates, x.impl,
         Descriptor(x) = Descriptor(reader[r]), Mapping(x) = Mapping(reader[r]),
         OpenFails(r, x) \/ OpenSucceeds(r, x)
  PROVE  ReaderInv'
  <1> DEFINE y == CleanedUp(x)
             f == fds \ Descriptor(reader[r])
             m == maps \ Mapping(reader[r])
  <1>1. /\ y \in ReaderStates /\ y.impl /\ y.data \in {Null, Literal}
        /\ Descriptor(y) = {} /\ Mapping(y) = {}
    BY CleanedUpFacts
  <1>2. m \subseteq Addresses /\ \A fd \in FreshFds(f) : fd \in Descriptors \ f
    BY DEF FreshFds, ReaderInv, ReaderTypes
  <1> HIDE DEF y
  <1>3. CASE Closing(r, y, f, m) /\ UNCHANGED lostVars
    <2>1. /\ CleanedUp(y) \in ReaderStates
          /\ Descriptor(CleanedUp(y)) = {} /\ Mapping(CleanedUp(y)) = {}
      BY <1>1, CleanedUpFacts
    <2>2. /\ reader' = [reader EXCEPT ![r] = CleanedUp(y)]
          /\ fds' = f /\ maps' = m /\ UNCHANGED lostVars
      BY <1>1, <1>3 DEF Closing
    <2>3. QED
      BY <2>1, <2>2, Replaced
  <1>4. ASSUME NEW fd \in FreshFds(f), NEW size \in FileSizes,
               Closing(r, With(fd, y.data, size), f \union {fd}, m),
               UNCHANGED lostVars
        PROVE  ReaderInv'
    <2> DEFINE z == With(fd, y.data, size)
    <2>1. /\ CleanedUp(z) \in ReaderStates
          /\ Descriptor(CleanedUp(z)) = {} /\ Mapping(CleanedUp(z)) = {}
          /\ Descriptor(z) = {fd} /\ Mapping(z) \intersect Addresses = {}
      BY <1>1, <1>2, FailedFacts
    <2>2. /\ reader' = [reader EXCEPT ![r] = CleanedUp(z)]
          /\ fds' = (f \union {fd}) \ Descriptor(z) /\ maps' = m \ Mapping(z)
      BY <1>4 DEF Closing
    <2> HIDE DEF z
    <2>3. fds' = f /\ maps' = m
      BY <1>2, <2>1, <2>2
    <2>4. QED
      BY <1>4, <2>1, <2>2, <2>3, Replaced
  <1>5. ASSUME NEW fd \in FreshFds(f), fds' = f \union {fd}, UNCHANGED lostVars,
               reader' = [reader EXCEPT ![r] = With(fd, Literal, 0)], maps' = m
        PROVE  ReaderInv'
    <2> DEFINE z == With(fd, Literal, 0)
    <2>1. z \in ReaderStates /\ Descriptor(z) = {fd} /\ Mapping(z) = {}
      BY <1>2, ReaderAssumption
         DEF ReaderStates, With, Descriptor, Mapping, Dead, NoFd, Null, Literal
    <2> HIDE DEF z
    <2>2. QED
      BY <1>2, <1>5, <2>1, Replaced DEF z
  <1>6. ASSUME NEW fd \in FreshFds(f), fds' = f \union {fd}, UNCHANGED lostVars,
               NEW size \in FileSizes \ {0}, NEW a \in Addresses \ m,
               reader' = [reader EXCEPT ![r] = With(fd, a, size)],
               maps' = m \union {a}
        PROVE  ReaderInv'
    <2> DEFINE z == With(fd, a, size)
    <2>1. a \in Addresses /\ size \in FileSizes /\ fd \in Descriptors
      BY <1>2, <1>6
    <2>2. fd # NoFd /\ size > 0
      <3>1. \A d \in Descriptors : d # NoFd
        BY ReaderAssumption DEF NoFd
      <3>2. \A n \in FileSizes \ {0} : n > 0
        BY ReaderAssumption
      <3>3. QED
        BY <1>6, <2>1, <3>1, <3>2
    <2>3. z \in ReaderStates /\ Descriptor(z) = {fd} /\ Mapping(z) = {a}
      BY <2>1, <2>2, WithStates
    <2> HIDE DEF z
    <2>4. reader' = [reader EXCEPT ![r] = z]
      BY <1>6 DEF z
    <2>5. /\ fds' = f \union Descriptor(z) /\ maps' = m \union Mapping(z)
          /\ Descriptor(z) \intersect f = {} /\ Mapping(z) \intersect m = {}
      BY <1>2, <1>6, <2>3
    <2>6. QED
      BY <1>6, <2>3, <2>4, <2>5, Replaced
  <1>7. QED
    BY <1>3, <1>4, <1>5, <1>6 DEF OpenFails, OpenSucceeds, y

LEMMA ReaderStep ==
  ASSUME ReaderInv, ReaderNext
  PROVE  ReaderInv'
  <1> PICK r \in Readers :
        \/ Construct(r) \/ ConstructOpen(r)
        \/ Open(r) \/ Close(r) \/ Destroy(r)
        \/ \E source \in Readers \ {r} :
             MoveConstruct(r, source) \/ MoveAssign(r, source)
    BY DEF ReaderNext
  <1>1. /\ reader[r] \in ReaderStates
        /\ ~reader[r].live => Descriptor(reader[r]) = {} /\ Mapping(reader[r]) = {}
    BY StateFacts DEF ReaderInv, ReaderTypes
  <1>2. CASE Construct(r)
    BY <1>1, <1>2, ConstantStates, Replaced DEF Construct, lostVars
  <1>3. CASE ConstructOpen(r)
    <2>1. Fresh.impl
      BY DEF Fresh, With
    <2>2. QED
      BY <1>1, <1>3, <2>1, ConstantStates, OpenKeeps DEF ConstructOpen
  <1>4. CASE Open(r)
    BY <1>1, <1>4, OpenKeeps DEF Open
  <1>5. CASE Close(r)
    BY <1>1, <1>5, CleanedUpFacts, Replaced DEF Close, Closing
  <1>6. CASE Destroy(r)
    BY <1>6, ConstantStates, Replaced DEF Destroy
  <1>7. ASSUME NEW source \in Readers \ {r}, MoveConstruct(r, source)
        PROVE  ReaderInv'
    <2>1. lostFds' = lostFds \union Descriptor(reader[r])
      BY <1>1, <1>7 DEF MoveConstruct, lostVars
    <2>2. lostMaps' = lostMaps \union Mapping(reader[r])
      BY <1>1, <1>7 DEF MoveConstruct, lostVars
    <2>3. QED
      BY <1>7, <2>1, <2>2, Moved DEF MoveConstruct
  <1>8. ASSUME NEW source \in Readers \ {r}, MoveAssign(r, source)
        PROVE  ReaderInv'
    BY <1>8, Moved DEF MoveAssign
  <1>9. QED
    BY <1>2, <1>3, <1>4, <1>5, <1>6, <1>7, <1>8

(* Nothing is open or mapped before the first reader. *)
LEMMA ReaderStart == ReaderInit => ReaderInv
  <1> SUFFICES ASSUME ReaderInit PROVE ReaderInv
    OBVIOUS
  <1>1. \A r \in Readers : reader[r] = Dead
    BY DEF ReaderInit
  <1>2. ReaderTypes
    BY ConstantStates DEF ReaderInit, ReaderTypes
  <1>3. FdsOf = [r \in Readers |-> {}] /\ MapsOf = [r \in Readers |-> {}]
    BY <1>1, ConstantStates DEF FdsOf, MapsOf
  <1>4. Owned
    BY <1>3 DEF Owned, Holds, ReaderInit
  <1>5. QED
    BY <1>2, <1>4 DEF ReaderInv

-----------------------------------------------------------------------------
(* The columns are nested, whatever throws: each is at least as long as the
   next.  That they have one length survives until a push_back throws.      *)
TableInv ==
  /\ columns \in [Columns -> 0 .. MaxRows] /\ torn \in BOOLEAN
  /\ \A c, d \in Columns : c < d => columns[d] <= columns[c]
  /\ ~torn => \A c \in Columns : columns[c] = RowCount

LEMMA TableImplies == TableInv => RowsWhole
  BY DEF TableInv, RowsWhole, Columns, RowCount

LEMMA TableStep ==
  ASSUME TableInv, TableNext
  PROVE  TableInv'
  <1>1. \A c, d \in Columns : c \in Int /\ d \in Int
    BY DEF Columns
  <1>2. \A c \in Columns : columns[c] \in 0 .. MaxRows /\ columns[c] <= RowCount
    BY DEF TableInv, Columns, RowCount
  <1>3. ASSUME NEW n \in 0 .. MaxRows, columns' = [c \in Columns |-> n], torn' = FALSE
        PROVE  TableInv'
    <2>1. columns' \in [Columns -> 0 .. MaxRows]
      BY <1>3
    <2>2. \A c \in Columns : columns'[c] = n
      BY <1>3
    <2>3. RowCount' = n
      BY <2>2 DEF RowCount, Columns
    <2>4. n <= n
      BY <1>3
    <2>5. QED
      BY <1>3, <2>1, <2>2, <2>3, <2>4 DEF TableInv
  <1>4. CASE ClearTable
    <2>1. 0 \in 0 .. MaxRows
      BY TableAssumption
    <2>2. QED
      BY <1>3, <1>4, <2>1 DEF ClearTable
  <1>5. CASE PushBack
    BY <1>2, <1>5, TableAssumption DEF PushBack, TableInv, Columns, RowCount
  <1>6. CASE PushBackThrows
    <2>1. PICK k \in Columns :
            /\ columns' = [c \in Columns |-> IF c < k THEN columns[c] + 1 ELSE columns[c]]
            /\ torn' = (torn \/ k > 1)
      BY <1>6 DEF PushBackThrows
    <2>2. columns' \in [Columns -> 0 .. MaxRows] /\ torn' \in BOOLEAN
      BY <1>2, <1>6, <2>1, TableAssumption DEF PushBackThrows, TableInv, Columns, RowCount
    <2>3. \A c, d \in Columns : c < d => columns'[d] <= columns'[c]
      BY <2>1, TableAssumption DEF TableInv, Columns
    <2>4. ASSUME ~torn' PROVE \A c \in Columns : columns'[c] = columns[c]
      <3>1. ~(k > 1)
        BY <2>1, <2>4
      <3>2. \A c \in Columns : ~(c < k)
        BY <3>1 DEF Columns
      <3>3. QED
        BY <2>1, <3>2
    <2>5. ~torn' => ~torn
      BY <2>1
    <2>6. 1 \in Columns
      BY DEF Columns
    <2>7. QED
      BY <2>2, <2>3, <2>4, <2>5, <2>6 DEF TableInv, RowCount
  <1>7. ASSUME NEW r \in Readers, LoadThrows(reader[r])
        PROVE  TableInv'
    <2>1. ASSUME NEW n \in 1 .. MaxRows, NEW k \in Columns,
                 columns' = Filled(n, k), torn' = (k > 1)
          PROVE  TableInv'
      <3>1. columns' \in [Columns -> 0 .. MaxRows] /\ torn' \in BOOLEAN
        BY <2>1, TableAssumption DEF Filled, Columns
      <3>2. \A c, d \in Columns : c < d => columns'[d] <= columns'[c]
        BY <2>1, TableAssumption DEF Filled, Columns
      <3>3. ASSUME ~torn' PROVE \A c \in Columns : columns'[c] = n - 1
        <4>1. ~(k > 1)
          BY <2>1, <3>3
        <4>2. \A c \in Columns : ~(c < k)
          BY <4>1 DEF Columns
        <4>3. QED
          BY <2>1, <4>2 DEF Filled
      <3>4. 1 \in Columns
        BY DEF Columns
      <3>5. QED
        BY <3>1, <3>2, <3>3, <3>4 DEF TableInv, RowCount
    <2>2. QED
      BY <1>4, <1>7, <2>1 DEF LoadThrows
  <1>8. ASSUME NEW r \in Readers, NEW n \in 0 .. MaxRows, LoadSucceeds(reader[r], n)
        PROVE  TableInv'
    BY <1>3, <1>8 DEF LoadSucceeds
  <1>9. QED
    BY <1>4, <1>5, <1>6, <1>7, <1>8 DEF TableNext, LoadFails

-----------------------------------------------------------------------------
(* What a scan keeps of its table is bounded by the table it was made of. *)
ScanInv ==
  /\ scan \in [live : BOOLEAN, start : 0 .. RowMod - 1, end : 0 .. RowMod - 1,
               current : 0 .. RowMod - 1]
  /\ stale \in BOOLEAN
  /\ scan.start <= scan.current
  /\ scan.live /\ ~stale => scan.end <= RowCount

LEMMA ScanImplies ==
  TableInv /\ ScanInv => ScanInTable
  <1>1. TableInv => RowCount \in Nat
    BY TableAssumption DEF TableInv, RowCount, Columns
  <1>2. QED
    BY <1>1, WidthAssumption DEF ScanInv, ScanInTable, HasNext, Scanned

LEMMA ScanStep ==
  ASSUME TableInv, ScanInv, ScanNext, UNCHANGED tableVars
  PROVE  ScanInv'
  <1>1. RowCount \in Nat /\ RowCount' = RowCount
    BY TableAssumption DEF TableInv, RowCount, Columns, tableVars
  <1> DEFINE rows == RowCount % RowMod
  <1>2. rows \in 0 .. RowMod - 1 /\ rows <= RowCount
    BY <1>1, WidthAssumption
  <1> HIDE DEF rows
  <1>3. CASE ScanTable
    <2>1. /\ scan' = [live |-> TRUE, start |-> 0, end |-> rows, current |-> 0]
          /\ stale' = FALSE
      BY <1>3 DEF ScanTable, rows
    <2>2. 0 \in 0 .. RowMod - 1 /\ 0 <= 0
      BY WidthAssumption
    <2>3. /\ scan'.start = 0 /\ scan'.current = 0 /\ scan'.end = rows
          /\ scan' \in [live : BOOLEAN, start : 0 .. RowMod - 1, end : 0 .. RowMod - 1,
                       current : 0 .. RowMod - 1]
      BY <1>2, <2>1, <2>2
    <2>4. QED
      BY <1>1, <1>2, <2>1, <2>2, <2>3 DEF ScanInv
  <1>4. CASE ResetScan
    <2>1. scan' = [live |-> scan.live, start |-> scan.start, end |-> scan.end,
                   current |-> scan.start]
      BY <1>4 DEF ResetScan, ScanInv
    <2>2. QED
      BY <1>1, <1>4, <2>1, WidthAssumption DEF ScanInv, ResetScan
  <1>5. CASE NextRow
    <2>1. scan.current < scan.end /\ scan.end < RowMod /\ scan.current \in Nat
      BY <1>5, WidthAssumption DEF NextRow, HasNext, ScanInv
    <2>2. (scan.current + 1) % RowMod = scan.current + 1
      BY <2>1, WidthAssumption DEF ScanInv
    <2>3. scan' = [live |-> scan.live, start |-> scan.start, end |-> scan.end,
                   current |-> scan.current + 1]
      BY <1>5, <2>2 DEF NextRow, ScanInv
    <2>4. QED
      BY <1>1, <1>5, <2>1, <2>3, WidthAssumption DEF ScanInv, NextRow
  <1>6. ASSUME NEW start \in 0 .. (RowMod - 1), NEW stop \in 0 .. (RowMod - 1),
               ScanRange(start, stop)
        PROVE  ScanInv'
    <2> DEFINE end == IF stop < rows THEN stop ELSE rows
    <2>1. /\ scan' = [live |-> TRUE, start |-> start, end |-> end, current |-> start]
          /\ stale' = FALSE
      BY <1>6 DEF ScanRange, rows
    <2>2. end \in 0 .. RowMod - 1 /\ end <= RowCount
      BY <1>1, <1>2, WidthAssumption
    <2> HIDE DEF end
    <2>3. /\ scan'.start = start /\ scan'.current = start /\ scan'.end = end
          /\ scan' \in [live : BOOLEAN, start : 0 .. RowMod - 1, end : 0 .. RowMod - 1,
                       current : 0 .. RowMod - 1]
      BY <2>1, <2>2
    <2>4. start <= start
      BY WidthAssumption
    <2>5. QED
      BY <1>1, <2>1, <2>2, <2>3, <2>4 DEF ScanInv
  <1>7. QED
    BY <1>3, <1>4, <1>5, <1>6 DEF ScanNext

LEMMA ScanSurvives ==
  ASSUME TableInv, ScanInv, UNCHANGED scan, TableInv',
         stale' = (stale \/ (scan.live /\ \E c \in Columns : columns'[c] < columns[c]))
  PROVE  ScanInv'
  <1>1. RowCount \in Nat /\ RowCount' \in Nat
    BY TableAssumption DEF TableInv, RowCount, Columns
  <1>2. scan.live /\ ~stale' => ~stale /\ RowCount <= RowCount'
    BY <1>1 DEF RowCount, Columns, ScanInv
  <1>3. stale' \in BOOLEAN
    BY DEF ScanInv
  <1>4. QED
    BY <1>1, <1>2, <1>3, WidthAssumption DEF ScanInv

-----------------------------------------------------------------------------
StorageInv == ReaderInv /\ TableInv /\ ScanInv

LEMMA ClientStart == ClientInit => StorageInv
  <1> SUFFICES ASSUME ClientInit PROVE StorageInv
    OBVIOUS
  <1>1. ReaderInv
    BY ReaderStart DEF ClientInit
  <1>2. TableInv
    <2>1. 0 \in 0 .. MaxRows /\ 0 <= 0
      BY TableAssumption
    <2>2. columns = [c \in Columns |-> 0] /\ torn = FALSE
      BY DEF ClientInit, TableInit
    <2>3. RowCount = 0
      BY <2>2 DEF RowCount, Columns
    <2>4. QED
      BY <2>1, <2>2, <2>3 DEF TableInv
  <1>3. ScanInv
    <2>1. scan = [live |-> FALSE, start |-> 0, end |-> 0, current |-> 0] /\ stale = FALSE
      BY DEF ClientInit, ScanInit, NoScan
    <2>2. 0 \in 0 .. RowMod - 1 /\ 0 <= 0
      BY WidthAssumption
    <2>3. scan.start = 0 /\ scan.current = 0 /\ scan.live = FALSE
      BY <2>1
    <2>4. scan \in [live : BOOLEAN, start : 0 .. RowMod - 1, end : 0 .. RowMod - 1,
                   current : 0 .. RowMod - 1]
      BY <2>1, <2>2
    <2>5. QED
      BY <2>1, <2>2, <2>3, <2>4 DEF ScanInv
  <1>4. QED
    BY <1>1, <1>2, <1>3 DEF StorageInv

LEMMA ClientStep == StorageInv /\ [ClientNext]_clientVars => StorageInv'
  <1> SUFFICES ASSUME StorageInv, [ClientNext]_clientVars PROVE StorageInv'
    OBVIOUS
  <1>1. UNCHANGED readerVars => ReaderInv'
    BY DEF StorageInv, readerVars, lostVars, ReaderInv, ReaderTypes, Owned, FdsOf, MapsOf
  <1>2. UNCHANGED tableVars => TableInv'
    BY DEF StorageInv, tableVars, TableInv, RowCount
  <1>3. CASE UseReader
    BY <1>2, <1>3, ReaderStep
       DEF UseReader, StorageInv, scanVars, tableVars, ScanInv, RowCount
  <1>4. CASE UseTable
    BY <1>1, <1>4, TableStep, ScanSurvives DEF UseTable, StorageInv
  <1>5. CASE UseScan
    BY <1>1, <1>2, <1>5, ScanStep DEF UseScan, StorageInv
  <1>6. CASE UNCHANGED clientVars
    BY <1>1, <1>2, <1>6
       DEF StorageInv, clientVars, scanVars, tableVars, ScanInv, RowCount
  <1>7. QED
    BY <1>3, <1>4, <1>5, <1>6 DEF ClientNext

LEMMA StorageSafe == ClientSpec => []StorageInv
  BY ClientStart, ClientStep, PTL DEF ClientSpec

(* The variables of the storage layer have their types in every program. *)
THEOREM Typed == ClientSpec => []ClientTypeOK
  <1>1. StorageInv => ClientTypeOK
    <2> SUFFICES ASSUME StorageInv PROVE ClientTypeOK
      OBVIOUS
    <2>1. lostFds \subseteq Descriptors /\ lostMaps \subseteq Addresses
      BY DEF StorageInv, ReaderInv, ReaderTypes, Owned, Holds
    <2>2. QED
      BY <2>1 DEF StorageInv, ReaderInv, ReaderTypes, TableInv, ScanInv, ClientTypeOK
  <1>2. QED
    BY <1>1, StorageSafe, PTL

(* Whatever sequence of constructors, open(), close(), moves and destructors
   a program runs and whichever of their system calls fail, no descriptor or
   mapping has two owners, and none is held that is not open.               *)
THEOREM OneOwner == ClientSpec => []OwnedOnce
  <1>1. StorageInv => OwnedOnce
    BY OwnedImplies DEF StorageInv, ReaderInv
  <1>2. QED
    BY <1>1, StorageSafe, PTL

(* ... and none stays open without an owner, but for the move assignment. *)
THEOREM NoneForgotten == ClientSpec => []NothingForgotten
  <1>1. StorageInv => NothingForgotten
    BY OwnedImplies DEF StorageInv, ReaderInv
  <1>2. QED
    BY <1>1, StorageSafe, PTL

(* Whichever allocation of push_back() or load_from_mmap() fails, columns
   stay nested, and of one length until the first that fails.               *)
THEOREM WholeRows == ClientSpec => []RowsWhole
  <1>1. StorageInv => RowsWhole
    BY TableImplies DEF StorageInv
  <1>2. QED
    BY <1>1, StorageSafe, PTL

(* A SeqScan stays within its bounds, and within a table that has not been
   emptied since.                                                           *)
THEOREM ScansInTable == ClientSpec => []ScanInTable
  <1>1. StorageInv => ScanInTable
    BY ScanImplies DEF StorageInv
  <1>2. QED
    BY <1>1, StorageSafe, PTL

-----------------------------------------------------------------------------
(* The run of pqe_engine keeps what Benchmark promises, and releases what it
   opened.                                                                  *)
Row == [quantity : Int, category : Int]

(* The tests of a filter's loop. *)
Passes(f, row) ==
  /\ f.gt # NoBound => row.quantity > f.gt
  /\ f.cat # AnyCategory => row.category = f.cat

(* The constants that are written into the suites are those of the titles. *)
LEMMA SuiteKeepsTitles ==
  ASSUME NEW q \in 1 .. 10, NEW row \in Row
  PROVE  Passes(SequentialSuite[q], row) <=> B!Titled(q, row)
  <1> USE DEF Passes, SequentialSuite, B!Titled, Everything, QuantityGt, CategoryEq,
              Both, NoBound, AnyCategory, Row
  <1>1. CASE q = 1 BY <1>1
  <1>2. CASE q = 2 BY <1>2
  <1>3. CASE q = 3 BY <1>3
  <1>4. CASE q = 4 BY <1>4
  <1>5. CASE q = 5 BY <1>5
  <1>6. CASE q = 6 BY <1>6
  <1>7. CASE q = 7 BY <1>7
  <1>8. CASE q = 8 BY <1>8
  <1>9. CASE q = 9 BY <1>9
  <1>10. CASE q = 10 BY <1>10
  <1>11. QED
    BY <1>1, <1>2, <1>3, <1>4, <1>5, <1>6, <1>7, <1>8, <1>9, <1>10

LEMMA SuitesAgree == ParallelSuite = SequentialSuite
  BY DEF ParallelSuite, SequentialSuite

(* The loops number the rows from zero, a sequence from one. *)
LEMMA ShiftedCount ==
  ASSUME NEW S \in SUBSET Nat, IsFiniteSet(S),
         NEW T, T = {k \in Nat \ {0} : k - 1 \in S}
  PROVE  Cardinality(T) = Cardinality(S) /\ Cardinality(S) \in Nat
  <1> DEFINE f == [r \in S |-> r + 1]
  <1>1. f \in [S -> T]
    BY SMT
  <1>2. \A a, b \in S : f[a] = f[b] => a = b
    BY SMT
  <1>3. \A k \in T : \E r \in S : f[r] = k
    <2> TAKE k \in T
    <2>1. k - 1 \in S /\ f[k - 1] = k
      BY SMT
    <2>2. QED
      BY <2>1
  <1> HIDE DEF f
  <1>4. f \in Bijection(S, T)
    BY <1>1, <1>2, <1>3, Fun_IsBij
  <1>5. ExistsBijection(S, T)
    BY <1>4 DEF ExistsBijection
  <1>6. QED
    BY <1>5, FS_Bijection, FS_CardinalityType

(* Benchmark counts with the same operator. *)
LEMMA SameCardinality == \A S : B!Cardinality(S) = Cardinality(S)
  BY DEF B!Cardinality, Cardinality

LEMMA SelectionIsPromised ==
  ASSUME file \in Seq(Row), NEW q \in 1 .. 10
  PROVE  /\ Cardinality(Selection(SequentialSuite[q], Len(file))) = B!Promised(q)
         /\ B!Promised(q) \in Nat
  <1> DEFINE S == Selection(SequentialSuite[q], Len(file))
             T == {k \in DOMAIN file : B!Titled(q, file[k])}
  <1>1. Len(file) \in Nat /\ DOMAIN file = 1 .. Len(file)
          /\ \A k \in 1 .. Len(file) : file[k] \in Row
    OBVIOUS
  <1>2. S = {r \in 0 .. (Len(file) - 1) : Passes(SequentialSuite[q], file[r + 1])}
    BY DEF Selection, Passes
  <1>3. S = {r \in 0 .. (Len(file) - 1) : B!Titled(q, file[r + 1])}
    <2>1. \A r \in 0 .. (Len(file) - 1) : file[r + 1] \in Row
      BY <1>1
    <2>2. QED
      BY <1>2, <2>1, SuiteKeepsTitles
  <1>4. S \in SUBSET Nat /\ IsFiniteSet(S)
    <2>1. IsFiniteSet(0 .. (Len(file) - 1))
      BY <1>1, FS_Interval
    <2>2. S \in SUBSET (0 .. (Len(file) - 1))
      BY <1>3
    <2>3. QED
      BY <1>1, <2>1, <2>2, FS_Subset
  <1>5. T = {k \in Nat \ {0} : k - 1 \in S}
    <2> HIDE DEF S
    <2>1. ASSUME NEW k PROVE k \in T <=> k \in Nat \ {0} /\ k - 1 \in S
      <3>1. CASE k \in Nat \ {0}
        <4>1. k - 1 + 1 = k /\ (k - 1 \in 0 .. (Len(file) - 1) <=> k \in 1 .. Len(file))
          BY <1>1, <3>1
        <4>2. QED
          BY <1>1, <1>3, <3>1, <4>1
      <3>2. CASE k \notin Nat \ {0}
        BY <1>1, <3>2
      <3>3. QED
        BY <3>1, <3>2
    <2>2. QED
      BY <2>1
  <1>6. Cardinality(T) = Cardinality(S) /\ Cardinality(S) \in Nat
    BY <1>4, <1>5, ShiftedCount
  <1>7. QED
    BY <1>6, SameCardinality DEF B!Promised

-----------------------------------------------------------------------------
(***************************************************************************)
(* The inductive invariant: main() has one reader and never assigns it, so *)
(* ReaderInv leaves nothing open once it is destroyed; the table is the    *)
(* dataset while the queries run; and the reports are as far as the stage, *)
(* complete behind the suites if these were to be run.                     *)
(***************************************************************************)
OneReader ==
  /\ ReaderInv
  /\ lostFds = {} /\ lostMaps = {}
  /\ \A r \in Readers \ {Main} : reader[r] = Dead
  /\ stage \in {"args", "open", "exited"} => reader[Main] = Dead

Loaded == {"inspect", "partition", "sequential", "parallel", "shutdown"}

TableIsFile ==
  /\ file \in Files
  /\ columns \in [Columns -> 0 .. MaxRows] /\ torn = FALSE
  /\ stage \in Loaded => \A c \in Columns : columns[c] = Len(file)

Counted ==
  /\ metrics \in Seq(Nat) /\ Len(metrics) <= 10
  /\ \A q \in 1 .. Len(metrics) : metrics[q] = B!Promised(q)

Reported ==
  /\ report \in Seq(Nat \X Nat) /\ Len(report) <= 10
  /\ stage \in {"args", "open", "load", "inspect", "partition", "sequential"} =>
       Len(report) = 0
  /\ stage \in {"args", "open", "load", "inspect", "partition"} => Len(metrics) = 0
  /\ stage = "sequential" => Len(metrics) < 10
  /\ stage = "parallel" => Len(report) < 10
  /\ stage = "parallel" \/ Len(report) > 0 => Len(metrics) = 10
  /\ stage = "args" => ~config.runQueries
  /\ stage \in {"sequential", "parallel"} => config.runQueries
  /\ stage = "shutdown" => Len(report) = IF config.runQueries THEN 10 ELSE 0
  /\ stage = "return" /\ exitCode = 0 =>
       Len(report) = IF config.runQueries THEN 10 ELSE 0
  /\ stage = "return" /\ exitCode = 1 => Len(report) = 0

Stages ==
  {"args", "open", "load", "inspect", "partition", "sequential", "parallel",
   "shutdown", "return", "exited", "aborted"}

MainTypes ==
  /\ stage \in Stages
  /\ config \in [inspect : Inspections \union {0}, morselSize : MorselSizes \union {0},
                 runQueries : BOOLEAN]
  /\ exitCode \in IF stage \in {"return", "exited"} THEN {0, 1} ELSE {NoCode}

EngineInv == OneReader /\ TableIsFile /\ MainTypes /\ Counted /\ Reported

LEMMA EmptySequence == \A T : <<>> \in Seq(T) /\ Len(<<>>) = 0
  OBVIOUS

LEMMA LengthType == \A T : \A s \in Seq(T) : Len(s) \in Nat
  OBVIOUS

LEMMA InvInit == Init => EngineInv
  <1> SUFFICES ASSUME Init PROVE EngineInv
    OBVIOUS
  <1>1. OneReader
    <2>1. \A r \in Readers : reader[r] = Dead
      BY DEF Init, ReaderInit
    <2>2. ReaderInv
      BY ReaderStart DEF Init
    <2>3. QED
      BY <2>1, <2>2, EngineAssumption DEF Init, ReaderInit, OneReader
  <1>2. TableIsFile
    BY TableAssumption DEF Init, TableInit, TableIsFile, Loaded
  <1>3. MainTypes
    BY DEF Init, MainTypes, Stages
  <1>4. Counted /\ Reported
    BY EmptySequence DEF Init, Counted, Reported
  <1>5. QED
    BY <1>1, <1>2, <1>3, <1>4 DEF EngineInv

-----------------------------------------------------------------------------
(* The steps between the stages that leave reader and table alone. *)
LEMMA ReaderStays ==
  ASSUME OneReader, UNCHANGED readerVars,
         stage' \in {"args", "open", "exited"} => stage \in {"args", "open", "exited"}
  PROVE  OneReader'
  <1>1. ReaderInv'
    BY DEF OneReader, readerVars, lostVars, ReaderInv, ReaderTypes, Owned, FdsOf, MapsOf
  <1>2. QED
    BY <1>1 DEF OneReader, readerVars, lostVars

LEMMA TableStays ==
  ASSUME TableIsFile, UNCHANGED <<tableVars, file>>, stage' \in Loaded => stage \in Loaded
  PROVE  TableIsFile'
  BY DEF TableIsFile, tableVars

LEMMA CountedStays ==
  ASSUME Counted, UNCHANGED <<metrics, file>>
  PROVE  Counted'
  BY DEF Counted, B!Promised

LEMMA Cleared ==
  ASSUME TableIsFile, ClearTable, file' = file, stage' \notin Loaded
  PROVE  TableIsFile'
  BY TableAssumption DEF TableIsFile, ClearTable

(* What main() does with its only reader. *)
LEMMA MainReader ==
  ASSUME OneReader, ReaderInv', reader' = [reader EXCEPT ![Main] = reader'[Main]],
         UNCHANGED lostVars,
         stage' \in {"args", "open", "exited"} => reader'[Main] = Dead
  PROVE  OneReader'
  BY DEF OneReader, lostVars, ReaderInv, ReaderTypes

LEMMA OpenStep == EngineInv /\ OpenDataset => EngineInv'
  <1> SUFFICES ASSUME EngineInv, OpenDataset PROVE EngineInv'
    OBVIOUS
  <1>1. /\ stage = "open" /\ stage' \in {"load", "return"}
        /\ stage' = "load" => exitCode' = exitCode
        /\ stage' = "return" => exitCode' = 1
        /\ UNCHANGED <<file, config, metrics, report, tableVars>>
        /\ OpenSucceeds(Main, Fresh) \/ OpenFails(Main, Fresh)
    BY DEF OpenDataset, Step, Leave
  <1>2. reader[Main] = Dead /\ ReaderInv /\ Main \in Readers
    BY <1>1, EngineAssumption DEF EngineInv, OneReader
  <1>3. Fresh.impl
    BY DEF Fresh, With
  <1>4. ReaderInv'
    BY <1>1, <1>2, <1>3, ConstantStates, OpenKeeps
  <1>5. reader' = [reader EXCEPT ![Main] = reader'[Main]] /\ UNCHANGED lostVars
    BY <1>1, <1>2 DEF OpenSucceeds, OpenFails, Closing, ReaderInv, ReaderTypes
  <1>6. OneReader'
    BY <1>1, <1>4, <1>5, MainReader DEF EngineInv
  <1>7. TableIsFile' /\ Counted'
    BY <1>1, TableStays, CountedStays DEF EngineInv, Loaded
  <1>8. MainTypes' /\ Reported'
    BY <1>1 DEF EngineInv, MainTypes, Reported, Stages
  <1>9. QED
    BY <1>6, <1>7, <1>8 DEF EngineInv

LEMMA LoadStep == EngineInv /\ Load => EngineInv'
  <1> SUFFICES ASSUME EngineInv, Load PROVE EngineInv'
    OBVIOUS
  <1>1. /\ stage = "load" /\ stage' \in {"inspect", "return"}
        /\ stage' = "inspect" => exitCode' = exitCode
        /\ stage' = "return" => exitCode' = 1
        /\ UNCHANGED <<file, config, metrics, report, readerVars>>
    BY DEF Load, Step, Leave
  <1>2. TableIsFile'
    <2>1. Len(file) \in 0 .. MaxRows
      BY EngineAssumption DEF EngineInv, TableIsFile
    <2>2. CASE stage' = "inspect"
      BY <1>1, <2>1, <2>2 DEF Load, Leave, LoadSucceeds, EngineInv, TableIsFile
    <2>3. CASE stage' = "return"
      <3>1. ClearTable
        BY <2>3 DEF Load, Step, LoadFails
      <3>2. QED
        BY <1>1, <2>3, <3>1, Cleared DEF EngineInv, Loaded
    <2>4. QED
      BY <1>1, <2>2, <2>3
  <1>3. OneReader' /\ Counted'
    BY <1>1, ReaderStays, CountedStays DEF EngineInv
  <1>4. MainTypes' /\ Reported'
    BY <1>1 DEF EngineInv, MainTypes, Reported, Stages
  <1>5. QED
    BY <1>2, <1>3, <1>4 DEF EngineInv

(* Between the loads and the queries; and a step that is thrown out of. *)
LEMMA QuietStep ==
  EngineInv /\ (Help \/ ParseArgs \/ Inspect \/ PartitionTable \/ Throw) => EngineInv'
  <1> SUFFICES ASSUME EngineInv,
                      Help \/ ParseArgs \/ Inspect \/ PartitionTable \/ Throw
               PROVE  EngineInv'
    OBVIOUS
  <1>1. UNCHANGED <<readerVars, tableVars, file, metrics, report>>
    BY DEF Help, ParseArgs, Inspect, PartitionTable, Throw, Step, Leave
  <1>2. \/ stage = "args" /\ stage' = "return" /\ exitCode' = 0
        \/ stage' \in {"open", "partition", "sequential", "shutdown", "aborted"}
             /\ exitCode' = exitCode
    BY DEF Help, ParseArgs, Inspect, PartitionTable, Throw, Step, Leave
  <1>3. /\ stage' = "open" => stage = "args"
        /\ stage' = "partition" => stage = "inspect"
        /\ stage' \in {"sequential", "shutdown"} => stage = "partition"
        /\ stage' = "aborted" => stage \in Stages \ {"return", "exited"}
    BY DEF Help, ParseArgs, Inspect, PartitionTable, Throw, Step, Leave, Stages
  <1>4. OneReader'
    BY <1>1, <1>2, <1>3, ReaderStays DEF EngineInv
  <1>5. TableIsFile' /\ Counted'
    BY <1>1, <1>2, <1>3, TableStays, CountedStays DEF EngineInv, Loaded
  <1>6. config' \in [inspect : Inspections \union {0},
                     morselSize : MorselSizes \union {0}, runQueries : BOOLEAN]
    BY DEF Help, ParseArgs, Inspect, PartitionTable, Throw, Leave, EngineInv, MainTypes
  <1>7. MainTypes'
    BY <1>2, <1>3, <1>6 DEF EngineInv, MainTypes, Stages
  <1>8. Reported'
    <2>1. CASE ParseArgs
      BY <1>1, <2>1 DEF ParseArgs, Step, EngineInv, Reported
    <2>2. CASE Help \/ Inspect \/ PartitionTable \/ Throw
      <3>1. /\ config' = config
            /\ stage' = "sequential" => config.runQueries
            /\ stage' = "shutdown" => ~config.runQueries
        BY <2>2 DEF Help, Inspect, PartitionTable, Throw, Step, Leave
      <3>2. stage' # "open"
        BY <2>2 DEF Help, Inspect, PartitionTable, Throw, Step, Leave
      <3>3. QED
        BY <1>1, <1>2, <1>3, <3>1, <3>2 DEF EngineInv, Reported, Stages
    <2>3. QED
      BY <2>1, <2>2
  <1>9. QED
    BY <1>4, <1>5, <1>7, <1>8 DEF EngineInv

(* The table the loops run over is the dataset, whichever column bounds them. *)
LEMMA QueriesCount ==
  ASSUME EngineInv, stage \in Loaded
  PROVE  /\ RowCount = Len(file)
         /\ \A f : Bound(f) = Len(file)
         /\ \A q \in 1 .. 10 :
              /\ Cardinality(Selection(SequentialSuite[q], Len(file))) = B!Promised(q)
              /\ B!Promised(q) \in Nat
  <1>1. file \in Seq(Row) /\ \A c \in Columns : columns[c] = Len(file)
    BY EngineAssumption DEF EngineInv, TableIsFile, Row
  <1>2. RowCount = Len(file) /\ \A f : Bound(f) = Len(file)
    BY <1>1 DEF RowCount, Bound, Columns, Quantity, Category
  <1>3. QED
    BY <1>1, <1>2, SelectionIsPromised

LEMMA SequentialStep == EngineInv /\ SequentialQuery => EngineInv'
  <1> SUFFICES ASSUME EngineInv, SequentialQuery PROVE EngineInv'
    OBVIOUS
  <1> DEFINE len == Len(metrics)
             q == len + 1
             n == Cardinality(Selection(SequentialSuite[q], Bound(SequentialSuite[q])))
  <1>1. metrics' = Append(metrics, n)
    BY DEF SequentialQuery
  <1>2. /\ stage = "sequential"
        /\ IF len = 9 THEN stage' = "parallel" ELSE stage' = "sequential"
        /\ UNCHANGED <<file, exitCode, readerVars, tableVars, config, report>>
    BY DEF SequentialQuery, Step
  <1>3. /\ metrics \in Seq(Nat) /\ len \in Nat /\ len < 10
        /\ \A k \in 1 .. len : metrics[k] = B!Promised(k)
    BY <1>2, LengthType DEF EngineInv, Counted, Reported
  <1>4. n = B!Promised(q) /\ n \in Nat
    <2> HIDE DEF len
    <2>1. q \in 1 .. 10
      BY <1>3
    <2> HIDE DEF q
    <2>2. QED
      BY <1>2, <2>1, QueriesCount DEF Loaded
  <1> HIDE DEF n
  <1>5. /\ metrics' \in Seq(Nat) /\ Len(metrics') = len + 1
        /\ \A k \in 1 .. len : metrics'[k] = metrics[k]
        /\ metrics'[q] = n
    BY <1>1, <1>3, <1>4
  <1> DEFINE next == Len(metrics')
  <1>6. next = len + 1
    BY <1>5
  <1> HIDE DEF len, next
  <1>7. Counted'
    <2>1. \A k : B!Promised(k)' = B!Promised(k)
      BY <1>2 DEF B!Promised
    <2>2. next <= 10 /\ \A k \in 1 .. next : k = q \/ k \in 1 .. len
      BY <1>3, <1>6
    <2>3. \A k \in 1 .. next : metrics'[k] = B!Promised(k)'
      BY <1>3, <1>4, <1>5, <2>1, <2>2
    <2>4. QED
      BY <1>5, <2>2, <2>3 DEF Counted, next
  <1>8. Reported'
    <2>1. Len(report) = 0 /\ report \in Seq(Nat \X Nat) /\ config.runQueries
      BY <1>2 DEF EngineInv, Reported
    <2>2. stage' = "parallel" => next = 10
      BY <1>2, <1>6
    <2>3. stage' = "sequential" => next < 10
      BY <1>2, <1>3, <1>6
    <2>4. stage' \in {"sequential", "parallel"}
      BY <1>2
    <2>5. QED
      BY <1>2, <2>1, <2>2, <2>3, <2>4 DEF Reported, next
  <1>9. OneReader' /\ TableIsFile'
    BY <1>2, ReaderStays, TableStays DEF EngineInv, Loaded
  <1>10. MainTypes'
    BY <1>2 DEF EngineInv, MainTypes, Stages
  <1>11. QED
    BY <1>7, <1>8, <1>9, <1>10 DEF EngineInv

LEMMA ParallelReports ==
  ASSUME EngineInv, ParallelQuery
  PROVE  /\ Len(report) \in Nat /\ Len(report) < 10
         /\ B!Promised(Len(report) + 1) \in Nat
         /\ report' = Append(report, <<B!Promised(Len(report) + 1),
                                       B!Promised(Len(report) + 1)>>)
  <1> DEFINE len == Len(report)
             q == len + 1
  <1>1. report' = Append(report,
          <<metrics[q], Cardinality(Selection(ParallelSuite[q], RowCount))>>)
    BY DEF ParallelQuery
  <1>2. stage = "parallel"
    BY DEF ParallelQuery, Step
  <1>3. len \in Nat /\ len < 10 /\ Len(metrics) = 10
    BY <1>2, LengthType DEF EngineInv, Reported
  <1>4. \A k \in 1 .. 10 : metrics[k] = B!Promised(k)
    BY <1>3 DEF EngineInv, Counted
  <1>5. q \in 1 .. 10
    <2> HIDE DEF len
    <2>1. QED
      BY <1>3
  <1> HIDE DEF len, q
  <1>6. metrics[q] = B!Promised(q) /\ B!Promised(q) \in Nat
          /\ Cardinality(Selection(ParallelSuite[q], RowCount)) = B!Promised(q)
    BY <1>2, <1>4, <1>5, QueriesCount, SuitesAgree DEF Loaded
  <1>7. QED
    BY <1>1, <1>3, <1>6 DEF len, q

LEMMA ParallelStep == EngineInv /\ ParallelQuery => EngineInv'
  <1> SUFFICES ASSUME EngineInv, ParallelQuery PROVE EngineInv'
    OBVIOUS
  <1> DEFINE n == B!Promised(Len(report) + 1)
  <1>1. /\ stage = "parallel" /\ stage' \in {"parallel", "shutdown"}
        /\ stage' = "shutdown" <=> Len(report) + 1 = 10
        /\ UNCHANGED <<file, exitCode, readerVars, tableVars, config, metrics>>
    BY DEF ParallelQuery, Step
  <1>2. /\ Len(report) \in Nat /\ Len(report) < 10 /\ n \in Nat
        /\ report' = Append(report, <<n, n>>)
    BY ParallelReports
  <1> HIDE DEF n
  <1>3. report \in Seq(Nat \X Nat) /\ Len(metrics) = 10 /\ config.runQueries
    BY <1>1 DEF EngineInv, Reported
  <1>4. report' \in Seq(Nat \X Nat) /\ Len(report') = Len(report) + 1
    BY <1>2, <1>3
  <1>5. Reported'
    <2>1. Len(report') <= 10 /\ (stage' = "parallel" => Len(report') < 10)
            /\ (stage' = "shutdown" => Len(report') = 10)
      BY <1>1, <1>2, <1>4
    <2>2. QED
      BY <1>1, <1>3, <1>4, <2>1 DEF Reported
  <1>6. OneReader' /\ TableIsFile' /\ Counted'
    BY <1>1, ReaderStays, TableStays, CountedStays DEF EngineInv, Loaded
  <1>7. MainTypes'
    BY <1>1 DEF EngineInv, MainTypes, Stages
  <1>8. QED
    BY <1>5, <1>6, <1>7 DEF EngineInv

LEMMA ShutdownStep == EngineInv /\ Shutdown => EngineInv'
  <1> SUFFICES ASSUME EngineInv, Shutdown PROVE EngineInv'
    OBVIOUS
  <1>1. /\ stage = "shutdown" /\ stage' = "return" /\ exitCode' = 0 /\ ClearTable
        /\ UNCHANGED <<file, config, metrics, report, readerVars>>
    BY DEF Shutdown, Leave
  <1>2. OneReader' /\ TableIsFile' /\ Counted'
    BY <1>1, ReaderStays, Cleared, CountedStays DEF EngineInv, Loaded
  <1>3. MainTypes' /\ Reported'
    BY <1>1 DEF EngineInv, MainTypes, Reported, Stages
  <1>4. QED
    BY <1>2, <1>3 DEF EngineInv

LEMMA UnwindStep == EngineInv /\ Unwind => EngineInv'
  <1> SUFFICES ASSUME EngineInv, Unwind PROVE EngineInv'
    OBVIOUS
  <1>1. /\ stage = "return" /\ stage' = "exited" /\ ClearTable
        /\ UNCHANGED <<file, config, metrics, report, exitCode>>
    BY DEF Unwind
  <1>2. Main \in Readers /\ OneReader
    BY EngineAssumption DEF EngineInv
  <1>3. OneReader'
    <2>1. CASE reader[Main].live
      <3>1. Destroy(Main)
        BY <2>1 DEF Unwind
      <3>2. ReaderInv'
        BY <1>2, <3>1, ReaderStep DEF ReaderNext, OneReader
      <3>3. reader' = [reader EXCEPT ![Main] = Dead] /\ UNCHANGED lostVars
        BY <3>1 DEF Destroy
      <3>4. reader'[Main] = Dead
        BY <1>2, <3>3 DEF OneReader, ReaderInv, ReaderTypes
      <3>5. QED
        BY <1>2, <3>2, <3>3, <3>4, MainReader
    <2>2. CASE ~reader[Main].live
      <3>1. reader[Main] = Dead /\ UNCHANGED readerVars
        BY <1>2, <2>2 DEF Unwind, OneReader, ReaderInv, ReaderTypes, ReaderStates
      <3>2. ReaderInv'
        BY <1>2, <3>1 DEF OneReader, readerVars, lostVars, ReaderInv, ReaderTypes,
                          Owned, FdsOf, MapsOf
      <3>3. QED
        BY <1>2, <3>1, <3>2 DEF OneReader, readerVars, lostVars
    <2>3. QED
      BY <2>1, <2>2
  <1>4. TableIsFile' /\ Counted'
    BY <1>1, Cleared, CountedStays DEF EngineInv, Loaded
  <1>5. MainTypes' /\ Reported'
    BY <1>1 DEF EngineInv, MainTypes, Reported, Stages
  <1>6. QED
    BY <1>3, <1>4, <1>5 DEF EngineInv

LEMMA InvStep == EngineInv /\ [Next]_vars => EngineInv'
  <1> SUFFICES ASSUME EngineInv, [Next]_vars PROVE EngineInv'
    OBVIOUS
  <1>1. ASSUME UNCHANGED vars PROVE EngineInv'
    <2>1. OneReader' /\ TableIsFile' /\ Counted'
      BY <1>1, ReaderStays, TableStays, CountedStays DEF vars, mainVars, EngineInv
    <2>2. MainTypes' /\ Reported'
      BY <1>1 DEF vars, mainVars, EngineInv, MainTypes, Reported
    <2>3. QED
      BY <2>1, <2>2 DEF EngineInv
  <1>2. QED
    BY <1>1, QuietStep, OpenStep, LoadStep, SequentialStep, ParallelStep,
       ShutdownStep, UnwindStep DEF Next, Run, Over

LEMMA EngineSafe == Spec => []EngineInv
  BY InvInit, InvStep, PTL DEF Spec

-----------------------------------------------------------------------------
(* The variables of main() have their types, and an exit code is there when
   it returns, for every dataset and all arguments.                         *)
THEOREM EngineTypeCorrect == Spec => []TypeOK
  <1>1. EngineInv => TypeOK
    <2> SUFFICES ASSUME EngineInv PROVE TypeOK
      OBVIOUS
    <2>1. Len(metrics) \in 0 .. 10
      <3> DEFINE len == Len(metrics)
      <3>1. len \in Nat /\ len <= 10
        BY LengthType DEF EngineInv, Counted
      <3> HIDE DEF len
      <3>2. len \in 0 .. 10
        BY <3>1
      <3>3. QED
        BY <3>2 DEF len
    <2>2. report # <<>> => Len(metrics) = 10
      <3>1. report = <<>> \/ Len(report) > 0
        BY LengthType DEF EngineInv, Reported
      <3>2. QED
        BY <3>1 DEF EngineInv, Reported
    <2>3. QED
      BY <2>1, <2>2
         DEF EngineInv, OneReader, ReaderInv, ReaderTypes, TableIsFile, MainTypes,
             Stages, TypeOK
  <1>2. QED
    BY <1>1, EngineSafe, PTL

(* Whichever return main() takes, its destructors leave nothing open or
   mapped.                                                                  *)
THEOREM EverythingReleased == Spec => []ReleasedOnExit
  <1>1. EngineInv => ReleasedOnExit
    <2> SUFFICES ASSUME EngineInv, stage = "exited" PROVE fds = {} /\ maps = {}
      BY DEF ReleasedOnExit
    <2>1. \A r \in Readers : reader[r] = Dead
      BY DEF EngineInv, OneReader
    <2>2. NothingForgotten /\ lostFds = {} /\ lostMaps = {}
      BY OwnedImplies DEF EngineInv, OneReader, ReaderInv
    <2>3. QED
      BY <2>1, <2>2, ConstantStates DEF NothingForgotten
  <1>2. QED
    BY <1>1, EngineSafe, PTL

(* Every query is counted, by both engines, as its title promises for the
   dataset, and reports come in order.  A run that was asked for them and
   returns 0 has reported all ten, one that returns 1 none; reports that
   stop in between are those of a process that an exception has ended, and
   there main() has returned nothing.  Each step of main() is one of
   Benchmark, or none.                                                      *)
Asked == config.runQueries

Status == IF stage \in {"exited", "aborted"} THEN stage ELSE "running"

Code == IF stage = "exited" THEN exitCode ELSE NoCode

Promises == B!Init /\ [][B!Next]_<<file, Asked, Status, Code, report>>

THEOREM ReportsArePromised == Spec => Promises
  <1>1. Init => B!Init
    BY DEF Init, B!Init, B!NoCode, NoCode
  <1>2. EngineInv /\ [Next]_vars => [B!Next]_<<file, Asked, Status, Code, report>>
    <2> SUFFICES ASSUME EngineInv, [Next]_vars
                 PROVE  B!Next \/ UNCHANGED <<file, Asked, Status, Code, report>>
      OBVIOUS
    <2> USE DEF Asked, Status, Code
    <2>1. CASE ParallelQuery
      <3>1. /\ stage = "parallel" /\ stage' \in {"parallel", "shutdown"}
            /\ UNCHANGED <<file, config>>
        BY <2>1 DEF ParallelQuery, Step
      <3>2. config.runQueries
        BY <3>1 DEF EngineInv, Reported
      <3>3. B!Report
        BY <2>1, <3>1, <3>2, ParallelReports DEF B!Report, B!NumQueries
      <3>4. QED
        BY <3>3 DEF B!Next
    <2>2. CASE Unwind
      <3>1. /\ stage = "return" /\ stage' = "exited"
            /\ UNCHANGED <<file, config, report, exitCode>>
        BY <2>2 DEF Unwind
      <3>2. \/ exitCode' = 0 /\ Len(report) = IF config.runQueries THEN 10 ELSE 0
            \/ exitCode' = 1 /\ report = <<>>
        BY <3>1 DEF EngineInv, MainTypes, Reported
      <3>3. QED
        BY <3>1, <3>2 DEF B!Next, B!Exit, B!NumQueries
    <2>3. CASE Throw \/ Inspect
      BY <2>3 DEF Throw, Inspect, Step, B!Next, B!Abort
    <2>4. CASE ParseArgs
      <3>1. /\ stage = "args" /\ stage' = "open" /\ UNCHANGED <<file, exitCode, report>>
            /\ config' \in [inspect : Inspections, morselSize : MorselSizes,
                             runQueries : BOOLEAN]
        BY <2>4 DEF ParseArgs, Step
      <3>2. ~config.runQueries /\ report = <<>>
        BY <3>1 DEF EngineInv, Reported
      <3>3. CASE config'.runQueries
        BY <3>1, <3>2, <3>3 DEF B!Next, B!Ask
      <3>4. CASE ~config'.runQueries
        <4>1. config.runQueries \in BOOLEAN /\ config'.runQueries \in BOOLEAN
          BY <3>1 DEF EngineInv, MainTypes
        <4>2. config'.runQueries = config.runQueries
          BY <3>2, <3>4, <4>1
        <4>3. QED
          BY <3>1, <4>2
      <3>5. QED
        BY <3>3, <3>4
    <2>5. CASE Help \/ OpenDataset \/ Load \/ PartitionTable \/ SequentialQuery
                 \/ Shutdown
      BY <2>5 DEF Help, OpenDataset, Load, PartitionTable, SequentialQuery, Shutdown,
                  Step, Leave
    <2>6. CASE UNCHANGED vars
      BY <2>6 DEF vars, mainVars
    <2>7. QED
      BY <2>1, <2>2, <2>3, <2>4, <2>5, <2>6 DEF Next, Run, Over
  <1>3. QED
    BY <1>1, <1>2, EngineSafe, PTL DEF Spec, Promises
===============================================================================
