--------------------------- MODULE ConcurrencyProofs ---------------------------
(***************************************************************************)
(* The structures of layer 4.  First the ring buffer: safety, and that it  *)
(* implements a bounded queue, for every capacity and every set of items,  *)
(* however stale the acquire loads are.  Then the sharded map: safety, for *)
(* every set of threads and keys, every number of shards and every hash    *)
(* function.                                                               *)
(***************************************************************************)
EXTENDS SPSCRingBuffer, ConcurrentShardedMap, SequenceTheorems, CommonLemmas

(***************************************************************************)
(* The inductive invariant.  A thread acts on what it saw when it tested   *)
(* for a full or an empty buffer; that this is still true when it acts     *)
(* follows from the order of the views, because the index it looked at     *)
(* only moves away from it.                                                *)
(***************************************************************************)
SeesRoom == producer \in {"write", "store"} => ~IsFull(seenHead)

SeesItem == consumer \in {"read", "store"} => head # seenTail

RingIInv == RingTypeOK /\ ViewsInOrder /\ SeesRoom /\ SeesItem

-----------------------------------------------------------------------------
(* The next index, without the division. *)
LEMMA SuccSteps ==
  ASSUME NEW i \in Slots
  PROVE  Succ(i) = IF i = Capacity THEN 0 ELSE i + 1
  <1>1. CASE i = Capacity
    BY <1>1, RingAssumption DEF Slots, Succ, SlotCount
  <1>2. CASE i < Capacity
    BY <1>2, RingAssumption DEF Slots, Succ, SlotCount
  <1> QED BY <1>1, <1>2, RingAssumption DEF Slots

LEMMA SuccInSlots ==
  ASSUME NEW i \in Slots
  PROVE  Succ(i) \in Slots
  BY SuccSteps, RingAssumption DEF Slots

(* Going on from i by one step brings every index but i one step nearer. *)
LEMMA NearerByOne ==
  ASSUME NEW i \in Slots, NEW j \in Slots, i # j
  PROVE  Distance(Succ(i), j) = Distance(i, j) - 1
  BY SuccSteps, RingAssumption DEF Slots, Distance, SlotCount

(* And an index that goes on gets one step farther from i until it is there. *)
LEMMA FartherByOne ==
  ASSUME NEW i \in Slots, NEW j \in Slots, Succ(j) # i
  PROVE  Distance(i, Succ(j)) = Distance(i, j) + 1
  BY SuccSteps, RingAssumption DEF Slots, Distance, SlotCount

(* A value between i and j splits the way from i to j. *)
LEMMA Between ==
  ASSUME NEW i \in Slots, NEW j \in Slots, NEW k \in Since(i, j)
  PROVE  /\ k \in Slots
         /\ Distance(k, j) = Distance(i, j) - Distance(i, k)
  BY RingAssumption DEF Slots, Since, Distance, SlotCount

LEMMA DistanceBounds ==
  ASSUME NEW i \in Slots, NEW j \in Slots
  PROVE  /\ Distance(i, j) \in 0 .. Capacity
         /\ Distance(i, j) = 0 <=> i = j
  BY RingAssumption DEF Slots, Distance, SlotCount

-----------------------------------------------------------------------------
LEMMA InitRingIInv == RingInit => RingIInv
  BY RingAssumption
  DEF RingInit, RingIInv, RingTypeOK, ViewsInOrder, SeesRoom, SeesItem, Distance, Slots

(* A push that does not touch the indices or the producer's view. *)
LEMMA CallIInv ==
  ASSUME RingIInv, NEW x \in Items, Push(x)
  PROVE  RingIInv'
  BY DEF Push, RingIInv, RingTypeOK, ViewsInOrder, SeesRoom, SeesItem

LEMMA LoadHeadIInv ==
  ASSUME RingIInv, LoadHead
  PROVE  RingIInv'
  <1>1. PICK h \in Since(seenHead, head) :
          /\ seenHead' = h
          /\ producer' = IF IsFull(h) THEN "idle" ELSE "write"
    BY DEF LoadHead
  <1>2. {head, tail, seenHead, seenTail} \subseteq Slots
    BY DEF RingIInv, RingTypeOK
  <1>3. h \in Slots /\ Distance(h, head) = Distance(seenHead, head) - Distance(seenHead, h)
    BY <1>2, Between
  <1>4. RingTypeOK'
    BY <1>1, <1>3 DEF LoadHead, RingIInv, RingTypeOK
  <1>5. ViewsInOrder'
    <2>1. Distance(seenHead, head) <= Distance(seenHead, tail)
      BY <1>2, DistanceBounds DEF RingIInv, ViewsInOrder
    <2>2. h \in Since(seenHead, tail)
      BY <1>2, <1>3, <2>1, DistanceBounds DEF Since
    <2>3. Distance(h, tail) = Distance(seenHead, tail) - Distance(seenHead, h)
      BY <1>2, <2>2, Between
    <2> QED BY <1>1, <1>2, <1>3, <2>3, DistanceBounds DEF LoadHead, RingIInv, ViewsInOrder
  <1>6. SeesRoom' /\ SeesItem'
    BY <1>1 DEF LoadHead, RingIInv, SeesRoom, SeesItem, IsFull
  <1> QED BY <1>4, <1>5, <1>6 DEF RingIInv

LEMMA WriteSlotIInv ==
  ASSUME RingIInv, WriteSlot
  PROVE  RingIInv'
  BY DEF WriteSlot, RingIInv, RingTypeOK, ViewsInOrder, SeesRoom, SeesItem, IsFull

LEMMA StoreTailIInv ==
  ASSUME RingIInv, StoreTail
  PROVE  RingIInv'
  <1>1. {head, tail, seenHead, seenTail} \subseteq Slots /\ Succ(tail) \in Slots
    BY SuccInSlots DEF RingIInv, RingTypeOK
  <1>2. Succ(tail) # seenHead
    BY DEF StoreTail, RingIInv, SeesRoom, IsFull
  <1>3. Distance(seenHead, Succ(tail)) = Distance(seenHead, tail) + 1
    BY <1>1, <1>2, FartherByOne
  <1>4. Succ(tail) # seenTail
    <2>1. SUFFICES ASSUME Succ(tail) = seenTail PROVE FALSE
      OBVIOUS
    <2>2. Distance(seenTail, tail) = Capacity
      BY <2>1, <1>1, SuccSteps, RingAssumption DEF Distance, Slots, SlotCount
    <2>3. Distance(seenHead, tail) < Capacity
      BY <1>1, <1>3, DistanceBounds, RingAssumption
    <2> QED BY <1>1, <2>2, <2>3, DistanceBounds DEF RingIInv, ViewsInOrder
  <1>5. Distance(seenTail, Succ(tail)) = Distance(seenTail, tail) + 1
    BY <1>1, <1>4, FartherByOne
  <1>6. ViewsInOrder'
    BY <1>1, <1>3, <1>5, DistanceBounds DEF StoreTail, RingIInv, ViewsInOrder
  <1> QED BY <1>1, <1>6 DEF StoreTail, RingIInv, RingTypeOK, SeesRoom, SeesItem

LEMMA LoadTailIInv ==
  ASSUME RingIInv, LoadTail
  PROVE  RingIInv'
  <1>1. PICK t \in Since(seenTail, tail) :
          /\ seenTail' = t
          /\ consumer' = IF head = t THEN "idle" ELSE "read"
    BY DEF LoadTail
  <1>2. {head, tail, seenHead, seenTail} \subseteq Slots
    BY DEF RingIInv, RingTypeOK
  <1>3. t \in Slots /\ Distance(t, tail) = Distance(seenTail, tail) - Distance(seenTail, t)
    BY <1>2, Between
  <1>4. RingTypeOK'
    BY <1>1, <1>3 DEF LoadTail, RingIInv, RingTypeOK
  <1>5. Distance(head, t) = Distance(head, seenTail) + Distance(seenTail, t)
    <2>1. Distance(head, seenTail) + Distance(seenTail, t) <= Capacity
      BY <1>2, <1>3, DistanceBounds, RingAssumption DEF RingIInv, ViewsInOrder
    <2> QED BY <1>2, <1>3, <2>1, RingAssumption DEF Distance, Slots, SlotCount
  <1>6. ViewsInOrder'
    BY <1>1, <1>2, <1>3, <1>5, DistanceBounds DEF LoadTail, RingIInv, ViewsInOrder
  <1> QED BY <1>1, <1>4, <1>6 DEF LoadTail, RingIInv, SeesRoom, SeesItem, IsFull

LEMMA ReadSlotIInv ==
  ASSUME RingIInv, ReadSlot
  PROVE  RingIInv'
  BY DEF ReadSlot, RingIInv, RingTypeOK, ViewsInOrder, SeesRoom, SeesItem, IsFull

LEMMA StoreHeadIInv ==
  ASSUME RingIInv, StoreHead
  PROVE  RingIInv'
  <1>1. {head, tail, seenHead, seenTail} \subseteq Slots /\ Succ(head) \in Slots
    BY SuccInSlots DEF RingIInv, RingTypeOK
  <1>2. head # seenTail
    BY DEF StoreHead, RingIInv, SeesItem
  <1>3. Distance(Succ(head), seenTail) = Distance(head, seenTail) - 1
    BY <1>1, <1>2, NearerByOne
  <1>4. Succ(head) # seenHead
    <2>1. SUFFICES ASSUME Succ(head) = seenHead PROVE FALSE
      OBVIOUS
    <2>2. Distance(seenHead, head) = Capacity
      BY <2>1, <1>1, SuccSteps, RingAssumption DEF Distance, Slots, SlotCount
    <2>3. Distance(head, seenTail) > 0
      BY <1>1, <1>2, DistanceBounds
    <2> QED BY <1>1, <2>2, <2>3, DistanceBounds, RingAssumption DEF RingIInv, ViewsInOrder
  <1>5. Distance(seenHead, Succ(head)) = Distance(seenHead, head) + 1
    BY <1>1, <1>4, FartherByOne
  <1>6. ViewsInOrder'
    BY <1>1, <1>3, <1>5, DistanceBounds DEF StoreHead, RingIInv, ViewsInOrder
  <1> QED BY <1>1, <1>6 DEF StoreHead, RingIInv, RingTypeOK, SeesRoom, SeesItem, IsFull

-----------------------------------------------------------------------------
(* The invariant holds in every reachable state of the ring buffer. *)
THEOREM RingInvariance == RingSpec => []RingIInv
  <1>1. RingIInv /\ [RingNext]_ringVars => RingIInv'
    <2> SUFFICES ASSUME RingIInv, [RingNext]_ringVars PROVE RingIInv'
      OBVIOUS
    <2>1. CASE Producer
      BY <2>1, CallIInv, LoadHeadIInv, WriteSlotIInv, StoreTailIInv DEF Producer
    <2>2. CASE Consumer
      BY <2>2, LoadTailIInv, ReadSlotIInv, StoreHeadIInv DEF Consumer
    <2>3. CASE UNCHANGED ringVars
      BY <2>3 DEF ringVars, RingIInv, RingTypeOK, ViewsInOrder, SeesRoom, SeesItem, IsFull
    <2> QED BY <2>1, <2>2, <2>3 DEF RingNext
  <1> QED BY InitRingIInv, <1>1, PTL DEF RingSpec

(* push() and pop() keep the types of the ring's variables: in particular
   the indices stay within the slots.                                       *)
THEOREM RingTypeCorrect == RingSpec => []RingTypeOK
  <1>1. RingIInv => RingTypeOK
    BY DEF RingIInv
  <1> QED BY RingInvariance, <1>1, PTL

(* What producer and consumer know of each other is old but never wrong in
   order: seen head, head, seen tail and tail follow each other around the
   ring, whatever older value each acquire load returned.                   *)
THEOREM ViewsStayInOrder == RingSpec => []ViewsInOrder
  <1>1. RingIInv => ViewsInOrder
    BY DEF RingIInv
  <1> QED BY RingInvariance, <1>1, PTL

(* The write of push() and the move out of pop() never meet in a slot, for
   any capacity: the slots need no synchronization of their own.            *)
THEOREM SlotsRaceFree == RingSpec => []NoDataRace
  <1>1. RingIInv => NoDataRace
    <2> SUFFICES ASSUME RingIInv, producer = "write", consumer = "read", head = tail
                 PROVE  FALSE
      BY DEF NoDataRace
    <2>1. {head, tail, seenHead, seenTail} \subseteq Slots
      BY DEF RingIInv, RingTypeOK
    <2>2. Distance(head, seenTail) = 0
      BY <2>1, DistanceBounds DEF RingIInv, ViewsInOrder
    <2>3. head = seenTail
      BY <2>1, <2>2, DistanceBounds
    <2> QED BY <2>3 DEF RingIInv, SeesItem
  <1> QED BY RingInvariance, <1>1, PTL

-----------------------------------------------------------------------------
(***************************************************************************)
(* The ring buffer is a bounded queue.  Its contents begin where the       *)
(* consumer will read next and end before tail; a push counts from the     *)
(* store of tail on, a pop from the moment the item is moved out.          *)
(***************************************************************************)
SlotOf(i, k) == (i + k - 1) % SlotCount

Values == Items \union {None}

(* The slot that push() is about to publish holds its argument. *)
Written ==
  /\ producer # "idle" => item \in Items
  /\ producer = "store" => buffer[tail] = item

LEMMA SlotOfSteps ==
  ASSUME NEW i \in Slots, NEW k \in 1 .. SlotCount
  PROVE  /\ SlotOf(i, k) = IF i + k - 1 <= Capacity THEN i + k - 1
                                                    ELSE i + k - 1 - SlotCount
         /\ SlotOf(i, k) \in Slots
  <1>1. CASE i + k - 1 <= Capacity
    BY <1>1, RingAssumption DEF SlotOf, Slots, SlotCount
  <1>2. CASE i + k - 1 > Capacity
    <2>1. i + k - 1 - SlotCount \in 0 .. SlotCount - 1
      BY <1>2, RingAssumption DEF Slots, SlotCount
    <2>2. (i + k - 1) % SlotCount = i + k - 1 - SlotCount
      BY <1>2, <2>1, RingAssumption DEF Slots, SlotCount
    <2> QED BY <1>2, <2>1, <2>2, RingAssumption DEF SlotOf, Slots, SlotCount
  <1> QED BY <1>1, <1>2, RingAssumption DEF Slots, SlotCount

(* Where the slots from i up to j lie. *)
LEMMA SlotsBetween ==
  ASSUME NEW i \in Slots, NEW j \in Slots
  PROVE  /\ SlotOf(i, 1) = i
         /\ SlotOf(i, Distance(i, j) + 1) = j
         /\ \A k \in 1 .. Distance(i, j) : SlotOf(i, k) \in Slots \ {j}
         /\ \A k \in 2 .. SlotCount : SlotOf(i, k) # i
  <1>1. \A k \in 1 .. SlotCount :
          /\ SlotOf(i, k) = IF i + k - 1 <= Capacity THEN i + k - 1
                                                     ELSE i + k - 1 - SlotCount
          /\ SlotOf(i, k) \in Slots
    BY SlotOfSteps
  <1>2. Distance(i, j) \in 0 .. Capacity
    BY DistanceBounds, RingAssumption DEF SlotCount
  <1>3. SlotOf(i, 1) = i
    <2>1. 1 \in 1 .. SlotCount
      BY RingAssumption DEF SlotCount
    <2> QED BY <1>1, <2>1, RingAssumption DEF Slots
  <1>4. SlotOf(i, Distance(i, j) + 1) = j
    <2>1. Distance(i, j) + 1 \in 1 .. SlotCount
      BY <1>2, RingAssumption DEF SlotCount
    <2> QED BY <1>1, <2>1, RingAssumption DEF Slots, SlotCount, Distance
  <1>5. \A k \in 1 .. Distance(i, j) : SlotOf(i, k) \in Slots \ {j}
    <2> SUFFICES ASSUME NEW k \in 1 .. Distance(i, j) PROVE SlotOf(i, k) \in Slots \ {j}
      OBVIOUS
    <2>1. k \in 1 .. SlotCount
      BY <1>2, RingAssumption DEF SlotCount
    <2>2. SlotOf(i, k) # j
      BY <1>1, <2>1, RingAssumption DEF Slots, SlotCount, Distance
    <2> QED BY <1>1, <2>1, <2>2
  <1>6. \A k \in 2 .. SlotCount : SlotOf(i, k) # i
    <2> SUFFICES ASSUME NEW k \in 2 .. SlotCount PROVE SlotOf(i, k) # i
      OBVIOUS
    <2> QED BY <1>1, RingAssumption DEF Slots, SlotCount
  <1> QED BY <1>3, <1>4, <1>5, <1>6

LEMMA SlotOfSucc ==
  ASSUME NEW i \in Slots, NEW k \in 1 .. Capacity
  PROVE  SlotOf(Succ(i), k) = SlotOf(i, k + 1)
  <1>1. Succ(i) \in Slots /\ k \in 1 .. SlotCount /\ k + 1 \in 1 .. SlotCount
    BY SuccInSlots, RingAssumption DEF SlotCount
  <1>2. SlotOf(Succ(i), k) = IF Succ(i) + k - 1 <= Capacity THEN Succ(i) + k - 1
                                                     ELSE Succ(i) + k - 1 - SlotCount
    BY <1>1, SlotOfSteps
  <1>3. SlotOf(i, k + 1) = IF i + k <= Capacity THEN i + k ELSE i + k - SlotCount
    BY <1>1, SlotOfSteps, RingAssumption DEF Slots
  <1> QED BY <1>2, <1>3, SuccSteps, RingAssumption DEF Slots, SlotCount

-----------------------------------------------------------------------------
LEMMA ItemThere ==
  ASSUME RingIInv, consumer \in {"read", "store"}
  PROVE  head # tail
  <1>1. {head, seenTail, tail, seenHead} \subseteq Slots /\ head # seenTail
    BY DEF RingIInv, RingTypeOK, SeesItem
  <1>2. Distance(head, seenTail) + Distance(seenTail, tail) <= Capacity
    BY <1>1, DistanceBounds, RingAssumption DEF RingIInv, ViewsInOrder
  <1> QED BY <1>1, <1>2, RingAssumption DEF Distance, Slots, SlotCount

LEMMA FirstFacts ==
  ASSUME RingIInv
  PROVE  /\ FirstItem \in Slots /\ tail \in Slots
         /\ Distance(FirstItem, tail) \in 0 .. Capacity
         /\ Distance(FirstItem, tail) <= Distance(head, tail)
  <1>1. head \in Slots /\ tail \in Slots
    BY DEF RingIInv, RingTypeOK
  <1>2. CASE consumer = "store"
    BY <1>1, <1>2, ItemThere, SuccInSlots, NearerByOne, DistanceBounds, RingAssumption
       DEF FirstItem
  <1>3. CASE consumer # "store"
    BY <1>1, <1>3, DistanceBounds, RingAssumption DEF FirstItem
  <1> QED BY <1>2, <1>3

(* What the slots from i up to j hold, as a sequence. *)
Holding(f, i, j) == [k \in 1 .. Distance(i, j) |-> f[SlotOf(i, k)]]

LEMMA HoldingFacts ==
  ASSUME NEW f \in [Slots -> Values], NEW i \in Slots, NEW j \in Slots
  PROVE  /\ Holding(f, i, j) \in Seq(Values)
         /\ Len(Holding(f, i, j)) = Distance(i, j)
         /\ \A k \in 1 .. Distance(i, j) : Holding(f, i, j)[k] = f[SlotOf(i, k)]
  <1> DEFINE n == Distance(i, j)  S == Holding(f, i, j)
  <1>1. n \in Nat
    BY DistanceBounds, RingAssumption DEF SlotCount
  <1>2. S = [k \in 1 .. n |-> f[SlotOf(i, k)]]
    BY DEF Holding
  <1>3. \A k \in 1 .. n : f[SlotOf(i, k)] \in Values
    BY SlotsBetween
  <1> HIDE DEF n, S
  <1>4. S \in [1 .. n -> Values]
    BY <1>2, <1>3
  <1>5. S \in Seq(Values) /\ Len(S) = n
    BY <1>1, <1>4
  <1> QED BY <1>2, <1>5 DEF n, S

LEMMA ContentsHolding ==
  /\ Contents = Holding(buffer, FirstItem, tail)
  /\ Contents' = Holding(buffer', FirstItem', tail')
  BY DEF Contents, Holding, SlotOf, Distance, SlotCount

(* The steps that move neither end and write no slot in between. *)
LEMMA ContentsStay ==
  ASSUME RingIInv, UNCHANGED <<FirstItem, tail, got>>,
         \A i \in Slots \ {tail} : buffer'[i] = buffer[i]
  PROVE  UNCHANGED Fifo!fifoVars
  <1>1. \A k \in 1 .. Distance(FirstItem, tail) :
          buffer'[SlotOf(FirstItem, k)] = buffer[SlotOf(FirstItem, k)]
    BY FirstFacts, SlotsBetween
  <1>2. Holding(buffer', FirstItem, tail) = Holding(buffer, FirstItem, tail)
    BY <1>1 DEF Holding
  <1> QED BY <1>2, ContentsHolding DEF Fifo!fifoVars

(* The store of tail puts the item behind the others. *)
LEMMA StoreTailPuts ==
  ASSUME RingIInv, Written, StoreTail
  PROVE  Fifo!Put(item) /\ item \in Items
  <1> DEFINE n == Distance(FirstItem, tail)
  <1>1. /\ tail' = Succ(tail) /\ producer = "store"
        /\ UNCHANGED <<buffer, head, consumer, got>>
    BY DEF StoreTail
  <1>2. FirstItem' = FirstItem /\ FirstItem \in Slots /\ tail \in Slots /\ n \in 0 .. Capacity
    BY <1>1, FirstFacts DEF FirstItem, Succ, SlotCount
  <1>3. n < Capacity
    <2>1. {head, seenTail, seenHead} \subseteq Slots /\ Succ(tail) # seenHead
      BY <1>1 DEF RingIInv, RingTypeOK, SeesRoom, IsFull
    <2>2. Distance(seenHead, Succ(tail)) = Distance(seenHead, tail) + 1
      BY <1>2, <2>1, FartherByOne
    <2>3. Distance(seenHead, tail) < Capacity
      BY <1>2, <2>1, <2>2, SuccInSlots, DistanceBounds, RingAssumption
    <2>4. Distance(head, tail) <= Distance(seenHead, tail)
      <3>1. Distance(head, seenTail) + Distance(seenTail, tail) < Capacity
        BY <1>2, <2>1, <2>3, DistanceBounds, RingAssumption DEF RingIInv, ViewsInOrder
      <3>2. Distance(head, tail) = Distance(head, seenTail) + Distance(seenTail, tail)
        BY <1>2, <2>1, <3>1, RingAssumption DEF Distance, Slots, SlotCount
      <3> QED BY <1>2, <2>1, <3>2, DistanceBounds, RingAssumption DEF RingIInv, ViewsInOrder
    <2> QED BY <1>2, <2>1, <2>3, <2>4, FirstFacts, DistanceBounds, RingAssumption
  <1>4. Succ(tail) # FirstItem
    BY <1>2, <1>3, SuccSteps, RingAssumption DEF Distance, Slots, SlotCount
  <1>5. Distance(FirstItem, Succ(tail)) = n + 1
    BY <1>2, <1>4, FartherByOne
  <1>6. buffer[SlotOf(FirstItem, n + 1)] = item /\ item \in Items
    BY <1>1, <1>2, SlotsBetween DEF Written
  <1>7. /\ Contents \in Seq(Values) /\ Len(Contents) = n
        /\ \A k \in 1 .. n : Contents[k] = buffer[SlotOf(FirstItem, k)]
    BY <1>2, ContentsHolding, HoldingFacts DEF RingIInv, RingTypeOK, Values
  <1>8. /\ Contents' \in Seq(Values) /\ Len(Contents') = n + 1
        /\ \A k \in 1 .. (n + 1) : Contents'[k] = buffer[SlotOf(FirstItem, k)]
    <2>1. Contents' = Holding(buffer, FirstItem, Succ(tail)) /\ Succ(tail) \in Slots
      BY <1>1, <1>2, ContentsHolding, SuccInSlots
    <2>2. buffer \in [Slots -> Values]
      BY DEF RingIInv, RingTypeOK, Values
    <2>3. Distance(FirstItem, Succ(tail)) = n + 1
      BY <1>5
    <2> HIDE DEF n
    <2>4. /\ Holding(buffer, FirstItem, Succ(tail)) \in Seq(Values)
          /\ Len(Holding(buffer, FirstItem, Succ(tail))) = n + 1
          /\ \A k \in 1 .. (n + 1) :
               Holding(buffer, FirstItem, Succ(tail))[k] = buffer[SlotOf(FirstItem, k)]
      <3>1. /\ Holding(buffer, FirstItem, Succ(tail)) \in Seq(Values)
            /\ Len(Holding(buffer, FirstItem, Succ(tail))) = Distance(FirstItem, Succ(tail))
            /\ \A k \in 1 .. Distance(FirstItem, Succ(tail)) :
                 Holding(buffer, FirstItem, Succ(tail))[k] = buffer[SlotOf(FirstItem, k)]
        BY <1>2, <2>1, <2>2, HoldingFacts
      <3> QED BY <2>3, <3>1
    <2> QED BY <2>1, <2>4
  <1> HIDE DEF n
  <1>9. Contents' = Append(Contents, item)
    <2>1. item \in Values
      BY <1>6 DEF Values
    <2>2. /\ Append(Contents, item) \in Seq(Values)
          /\ Len(Append(Contents, item)) = n + 1
          /\ \A k \in 1 .. n : Append(Contents, item)[k] = Contents[k]
          /\ Append(Contents, item)[n + 1] = item
      BY <1>7, <2>1, AppendProperties
    <2>3. \A k \in 1 .. (n + 1) : k = n + 1 \/ k \in 1 .. n
      BY <1>2
    <2>4. \A k \in 1 .. (n + 1) : Contents'[k] = Append(Contents, item)[k]
      BY <1>6, <1>7, <1>8, <2>2, <2>3
    <2> QED BY <1>8, <2>2, <2>4, SeqEqual
  <1> QED BY <1>1, <1>3, <1>6, <1>7, <1>9 DEF Fifo!Put

(* The move out of a slot gets the oldest item. *)
LEMMA ReadSlotGets ==
  ASSUME RingIInv, ReadSlot
  PROVE  Fifo!Get
  <1> DEFINE n == Distance(head, tail)
  <1>1. /\ FirstItem = head /\ FirstItem' = Succ(head)
        /\ got' = buffer[head] /\ tail' = tail
        /\ \A i \in Slots \ {head} : buffer'[i] = buffer[i]
    BY DEF ReadSlot, FirstItem, Succ, SlotCount, RingIInv, RingTypeOK
  <1>2. /\ head \in Slots /\ tail \in Slots /\ Succ(head) \in Slots /\ head # tail
        /\ buffer \in [Slots -> Values] /\ buffer' \in [Slots -> Values]
    BY ItemThere, SuccInSlots DEF RingIInv, RingTypeOK, Values, ReadSlot
  <1>3. Distance(Succ(head), tail) = n - 1 /\ n \in 1 .. Capacity
    BY <1>2, NearerByOne, DistanceBounds, RingAssumption DEF SlotCount
  <1>4. /\ Contents \in Seq(Values) /\ Len(Contents) = n
        /\ \A k \in 1 .. n : Contents[k] = buffer[SlotOf(head, k)]
    BY <1>1, <1>2, ContentsHolding, HoldingFacts
  <1>5. /\ Contents' \in Seq(Values) /\ Len(Contents') = n - 1
        /\ \A k \in 1 .. (n - 1) : Contents'[k] = buffer'[SlotOf(Succ(head), k)]
    <2>1. Contents' = Holding(buffer', Succ(head), tail)
      BY <1>1, ContentsHolding
    <2>2. /\ Holding(buffer', Succ(head), tail) \in Seq(Values)
          /\ Len(Holding(buffer', Succ(head), tail)) = Distance(Succ(head), tail)
          /\ \A k \in 1 .. Distance(Succ(head), tail) :
               Holding(buffer', Succ(head), tail)[k] = buffer'[SlotOf(Succ(head), k)]
      BY <1>2, HoldingFacts
    <2>3. Distance(Succ(head), tail) = n - 1
      BY <1>3
    <2> HIDE DEF n
    <2> QED BY <2>1, <2>2, <2>3
  <1> HIDE DEF n
  <1>6. \A k \in 1 .. (n - 1) : Contents'[k] = Contents[k + 1]
    <2> SUFFICES ASSUME NEW k \in 1 .. (n - 1) PROVE Contents'[k] = Contents[k + 1]
      OBVIOUS
    <2>1. k \in 1 .. Capacity /\ k + 1 \in 2 .. SlotCount /\ k + 1 \in 1 .. n
          /\ k + 1 \in 1 .. SlotCount
      BY <1>3, RingAssumption DEF SlotCount
    <2>2. SlotOf(Succ(head), k) = SlotOf(head, k + 1)
      BY <1>2, <2>1, SlotOfSucc
    <2>3. SlotOf(head, k + 1) \in Slots \ {head}
      BY <1>2, <2>1, SlotsBetween, SlotOfSteps
    <2> QED BY <1>1, <1>4, <1>5, <2>1, <2>2, <2>3
  <1>7. Contents # <<>> /\ Head(Contents) = Contents[1]
    BY <1>3, <1>4
  <1>8. /\ Tail(Contents) \in Seq(Values) /\ Len(Tail(Contents)) = n - 1
        /\ \A k \in 1 .. (n - 1) : Tail(Contents)[k] = Contents[k + 1]
    BY <1>4, <1>7, HeadTailProperties
  <1>9. Contents' = Tail(Contents)
    BY <1>5, <1>6, <1>8, SeqEqual
  <1>10. Contents[1] = buffer[head]
    BY <1>2, <1>3, <1>4, SlotsBetween
  <1> QED BY <1>1, <1>7, <1>9, <1>10 DEF Fifo!Get

(* What push() has written stays until the store of tail. *)
LEMMA WrittenKept ==
  ASSUME RingIInv, Written, [RingNext]_ringVars
  PROVE  Written'
  <1>1. tail \in Slots /\ head \in Slots /\ buffer \in [Slots -> Values]
    BY DEF RingIInv, RingTypeOK, Values
  <1>2. ASSUME NEW x \in Items, Push(x) PROVE Written'
    BY <1>2 DEF Push, Written
  <1>3. CASE LoadHead
    BY <1>3 DEF LoadHead, Written
  <1>4. CASE WriteSlot
    BY <1>1, <1>4 DEF WriteSlot, Written
  <1>5. CASE StoreTail
    BY <1>5 DEF StoreTail, Written
  <1>6. CASE LoadTail
    BY <1>6 DEF LoadTail, Written
  <1>7. CASE ReadSlot
    <2>1. head # tail
      BY <1>7, ItemThere DEF ReadSlot
    <2> QED BY <1>1, <1>7, <2>1 DEF ReadSlot, Written
  <1>8. CASE StoreHead
    BY <1>8 DEF StoreHead, Written
  <1>9. CASE UNCHANGED ringVars
    BY <1>9 DEF ringVars, Written
  <1> QED BY <1>2, <1>3, <1>4, <1>5, <1>6, <1>7, <1>8, <1>9 DEF RingNext, Producer, Consumer

(* Every step of the ring buffer is a step of the queue, or none. *)
LEMMA StepOfFifo ==
  ASSUME RingIInv, Written, [RingNext]_ringVars
  PROVE  [Fifo!Next]_(Fifo!fifoVars)
  <1>1. tail \in Slots /\ buffer \in [Slots -> Values]
    BY DEF RingIInv, RingTypeOK, Values
  <1>2. ASSUME UNCHANGED <<head, tail, got>>,
               (consumer' = "store") = (consumer = "store"),
               \A i \in Slots \ {tail} : buffer'[i] = buffer[i]
        PROVE  UNCHANGED Fifo!fifoVars
    BY <1>2, ContentsStay DEF FirstItem, Succ, SlotCount
  <1>3. ASSUME NEW x \in Items, Push(x) PROVE UNCHANGED Fifo!fifoVars
    BY <1>2, <1>3 DEF Push
  <1>4. CASE LoadHead
    BY <1>2, <1>4 DEF LoadHead
  <1>5. CASE WriteSlot
    BY <1>1, <1>2, <1>5 DEF WriteSlot
  <1>6. CASE StoreTail
    BY <1>6, StoreTailPuts DEF Fifo!Next
  <1>7. CASE LoadTail
    BY <1>2, <1>7 DEF LoadTail
  <1>8. CASE ReadSlot
    BY <1>8, ReadSlotGets DEF Fifo!Next
  <1>9. CASE StoreHead
    <2>1. FirstItem' = FirstItem
      BY <1>9 DEF StoreHead, FirstItem, Succ, SlotCount
    <2> QED BY <1>9, <2>1, ContentsStay DEF StoreHead
  <1>10. CASE UNCHANGED ringVars
    BY <1>2, <1>10 DEF ringVars
  <1> QED BY <1>3, <1>4, <1>5, <1>6, <1>7, <1>8, <1>9, <1>10 DEF RingNext, Producer, Consumer

(* Nothing pushed is lost, doubled, overwritten or popped out of order, and
   the buffer never holds more than its capacity: for any capacity and any
   items, what the two threads do is what a bounded queue does.             *)
THEOREM RingIsFifo == RingSpec => ImplementsFifo
  <1>1. RingInit => Written /\ Fifo!Init
    <2> SUFFICES ASSUME RingInit PROVE Written /\ Fifo!Init
      OBVIOUS
    <2>1. Written
      BY DEF RingInit, Written
    <2>2. FirstItem = 0 /\ tail = 0 /\ Distance(FirstItem, tail) = 0
      BY RingAssumption DEF RingInit, FirstItem, Distance, SlotCount
    <2>3. /\ Contents \in Seq(Values) /\ Len(Contents) = 0
      BY <2>2, InitRingIInv, ContentsHolding, HoldingFacts, RingAssumption
         DEF RingIInv, RingTypeOK, Values, Slots
    <2>4. Contents = <<>>
      BY <2>3, EmptySeq
    <2> QED BY <2>1, <2>4 DEF RingInit, Fifo!Init
  <1>2. RingIInv /\ Written /\ [RingNext]_ringVars => Written' /\ [Fifo!Next]_(Fifo!fifoVars)
    BY WrittenKept, StepOfFifo
  <1> QED BY RingInvariance, <1>1, <1>2, PTL DEF RingSpec, ImplementsFifo, Fifo!Spec

-----------------------------------------------------------------------------
(***************************************************************************)
(* The sharded map.                                                        *)
(***************************************************************************)
InCritical(t) == pc[t] \in {"read", "write", "unlock"}

ReaderIn == reader \in {"copy", "unlock"}

(***************************************************************************)
(* The inductive invariant.  OneHolder counts holders; what survives a     *)
(* step is that a flag is set exactly when somebody is inside, and that no *)
(* two are inside one shard.  From this follows that the value an updater  *)
(* has read is still the value of its key when it stores, so counts only   *)
(* grow, and what the reader has gathered stays between the map it found   *)
(* and the map now.                                                        *)
(***************************************************************************)
Locked ==
  /\ \A t \in Threads : InCritical(t) => flag[ShardOf(key[t])]
  /\ ReaderIn => flag[shard]
  /\ \A s \in Shards : flag[s] =>
       \/ \E t \in Threads : InCritical(t) /\ ShardOf(key[t]) = s
       \/ ReaderIn /\ shard = s

Exclusive ==
  /\ \A t, u \in Threads :
       t # u /\ InCritical(t) /\ InCritical(u) => ShardOf(key[t]) # ShardOf(key[u])
  /\ \A t \in Threads : InCritical(t) /\ ReaderIn => ShardOf(key[t]) # shard

ReadIsCurrent ==
  \A t \in Threads : pc[t] = "write" =>
    /\ key[t] \in DOMAIN map[ShardOf(key[t])]
    /\ value[t] = map[ShardOf(key[t])][key[t]]

BeforeStays ==
  \A k \in DOMAIN before : k \in DOMAIN map[ShardOf(k)] /\ before[k] <= CountOf(k)

MapIsFunction == map = [s \in Shards |-> map[s]]

IInv ==
  /\ TypeOK /\ MapIsFunction
  /\ Locked /\ Exclusive
  /\ ReadIsCurrent /\ BeforeStays /\ GatheredInBetween

-----------------------------------------------------------------------------
LEMMA ShardOfType == \A k \in Keys : ShardOf(k) \in Shards
  BY MapAssumption DEF ShardOf, Shards

LEMMA ZeroIsShard == 0 \in Shards
  BY MapAssumption DEF Shards

(* The next shard, around the end. *)
LEMMA NextShard ==
  ASSUME shard \in Shards
  PROVE  /\ shard = NumShards - 1 => (shard + 1) % NumShards = 0
         /\ shard # NumShards - 1 => (shard + 1) % NumShards = shard + 1
         /\ (shard + 1) % NumShards \in Shards
  <1>1. CASE shard = NumShards - 1
    <2>1. shard + 1 = NumShards
      BY <1>1, MapAssumption
    <2>2. NumShards % NumShards = 0
      BY MapAssumption
    <2>3. QED
      BY <1>1, <2>1, <2>2, ZeroIsShard
  <1>2. CASE shard # NumShards - 1
    BY <1>2, MapAssumption DEF Shards
  <1>3. QED
    BY <1>1, <1>2

(* Set and cleared flags keep the critical sections apart. *)
LEMMA HoldersCounted == TypeOK /\ Locked /\ Exclusive => OneHolder
  <1> SUFFICES ASSUME TypeOK, Locked, Exclusive, NEW s \in Shards
               PROVE  Cardinality(HoldersOf(s)) = IF flag[s] THEN 1 ELSE 0
    BY DEF OneHolder
  <1>1. CASE ~flag[s]
    <2>1. HoldersOf(s) = {}
      BY <1>1 DEF HoldersOf, Locked, InCritical, ReaderIn
    <2>2. QED
      BY <1>1, <2>1, FS_EmptySet
  <1>2. CASE flag[s]
    <2>1. ASSUME NEW t \in Threads, InCritical(t), ShardOf(key[t]) = s
          PROVE  HoldersOf(s) = {t}
      BY <2>1 DEF HoldersOf, Exclusive, InCritical, ReaderIn
    <2>2. ASSUME ReaderIn, shard = s
          PROVE  HoldersOf(s) = {"reader"}
      BY <2>2 DEF HoldersOf, Exclusive, InCritical, ReaderIn
    <2>3. \E x : HoldersOf(s) = {x}
      BY <1>2, <2>1, <2>2 DEF Locked
    <2>4. QED
      BY <1>2, <2>3, FS_Singleton
  <1>3. QED
    BY <1>1, <1>2

-----------------------------------------------------------------------------
LEMMA InitIInv == Init => IInv
  <1> SUFFICES ASSUME Init PROVE IInv
    OBVIOUS
  <1>1. (CHOOSE k \in Keys : TRUE) \in Keys
    BY MapAssumption
  <1>2. TypeOK
    BY <1>1, ZeroIsShard, MapAssumption DEF Init, TypeOK, IsMap, NoPairs
  <1>3. QED
    BY <1>2 DEF Init, IInv, MapIsFunction, Locked, Exclusive, InCritical, ReaderIn,
                ReadIsCurrent, BeforeStays, GatheredInBetween, NoPairs

-----------------------------------------------------------------------------
(* What the two steps of an updater that touch the map do to the counts. *)
LEMMA Stored ==
  ASSUME TypeOK, MapIsFunction, NEW t \in Threads, NEW v \in Nat,
         v >= CountOf(key[t]),
         map' = [map EXCEPT ![ShardOf(key[t])] = With(@, key[t], v)]
  PROVE  /\ MapIsFunction'
         /\ \A s \in Shards : IsMap(map'[s]) /\ \A k \in DOMAIN map'[s] : ShardOf(k) = s
         /\ \A s \in Shards : DOMAIN map[s] \subseteq DOMAIN map'[s]
         /\ \A k \in Keys : CountOf(k) <= CountOf(k)'
         /\ \A k \in Keys : CountOf(k)' = IF k = key[t] THEN v ELSE CountOf(k)
         /\ \A s \in Shards \ {ShardOf(key[t])} : map'[s] = map[s]
         /\ key[t] \in DOMAIN map'[ShardOf(key[t])]
         /\ map'[ShardOf(key[t])][key[t]] = v
  <1> DEFINE k0 == key[t]
             s0 == ShardOf(key[t])
             m == With(map[s0], k0, v)
  <1>1. k0 \in Keys /\ s0 \in Shards
    BY ShardOfType DEF TypeOK
  <1>2. \A s \in Shards : map'[s] = IF s = s0 THEN m ELSE map[s]
    BY <1>1 DEF MapIsFunction
  <1>3. MapIsFunction'
    BY <1>1 DEF MapIsFunction
  <1>4. /\ DOMAIN m = DOMAIN map[s0] \union {k0}
        /\ m[k0] = v /\ \A k \in DOMAIN map[s0] \ {k0} : m[k] = map[s0][k]
    BY DEF With
  <1> HIDE DEF m
  <1>5. \A s \in Shards : IsMap(map'[s]) /\ \A k \in DOMAIN map'[s] : ShardOf(k) = s
    <2>1. IsMap(m) /\ \A k \in DOMAIN m : ShardOf(k) = s0
      BY <1>1, <1>4 DEF IsMap, TypeOK
    <2>2. QED
      BY <1>2, <2>1 DEF TypeOK
  <1>6. \A s \in Shards : DOMAIN map[s] \subseteq DOMAIN map'[s]
    BY <1>2, <1>4
  <1>7. ASSUME NEW k \in Keys
        PROVE  /\ CountOf(k) <= CountOf(k)'
               /\ CountOf(k)' = IF k = key[t] THEN v ELSE CountOf(k)
    <2>1. ShardOf(k) \in Shards
      BY ShardOfType
    <2>2. CountOf(k) \in Nat
      BY <2>1 DEF CountOf, ValueIn, TypeOK, IsMap
    <2>3. CASE k = k0
      BY <1>1, <1>2, <1>4, <2>2, <2>3 DEF CountOf, ValueIn
    <2>4. CASE k # k0
      <3>1. CountOf(k)' = CountOf(k)
        BY <1>2, <1>4, <2>1, <2>4 DEF CountOf, ValueIn
      <3> HIDE DEF CountOf
      <3>2. QED
        BY <2>2, <2>4, <3>1
    <2>5. QED
      BY <2>3, <2>4
  <1>8. QED
    BY <1>1, <1>2, <1>3, <1>4, <1>5, <1>6, <1>7, ShardOfType

(* Counts that grow leave what the reader has gathered in between. *)
LEMMA GrowthKeepsGathered ==
  ASSUME TypeOK, BeforeStays, GatheredInBetween,
         UNCHANGED <<reader, shard, result, before>>,
         \A s \in Shards : IsMap(map'[s]),
         \A s \in Shards : DOMAIN map[s] \subseteq DOMAIN map'[s],
         \A k \in Keys : CountOf(k) <= CountOf(k)'
  PROVE  BeforeStays' /\ GatheredInBetween'
  <1>1. \A k \in Keys : ShardOf(k) \in Shards /\ CountOf(k) \in Nat /\ CountOf(k)' \in Nat
    BY ShardOfType DEF CountOf, ValueIn, TypeOK, IsMap
  <1>2. DOMAIN result \subseteq Keys /\ \A k \in DOMAIN result : result[k] \in Nat
    BY DEF TypeOK, IsMap
  <1>3. DOMAIN before \subseteq Keys /\ \A k \in DOMAIN before : before[k] \in Nat
    BY DEF TypeOK, IsMap
  <1>4. BeforeStays'
    <2> SUFFICES ASSUME NEW k \in DOMAIN before
                 PROVE  k \in DOMAIN map'[ShardOf(k)] /\ before[k] <= CountOf(k)'
      BY DEF BeforeStays
    <2>1. k \in DOMAIN map[ShardOf(k)] /\ before[k] <= CountOf(k)
      BY DEF BeforeStays
    <2> HIDE DEF CountOf
    <2>2. QED
      BY <1>1, <1>3, <2>1
  <1>5. \A k \in DOMAIN result' : result'[k] <= CountOf(k)'
    <2> SUFFICES ASSUME NEW k \in DOMAIN result PROVE result[k] <= CountOf(k)'
      OBVIOUS
    <2>1. result[k] <= CountOf(k)
      BY DEF GatheredInBetween
    <2> HIDE DEF CountOf
    <2>2. QED
      BY <1>1, <1>2, <2>1
  <1>6. \A k \in DOMAIN before' :
          ShardOf(k) \in Copied' => k \in DOMAIN result' /\ before'[k] <= result'[k]
    BY DEF GatheredInBetween, Copied
  <1>7. QED
    BY <1>4, <1>5, <1>6 DEF GatheredInBetween

-----------------------------------------------------------------------------
(* The steps that leave the map and what is gathered of it alone. *)
LEMMA MapFrame ==
  ASSUME IInv, UNCHANGED <<map, result, before>>, Copied' = Copied
  PROVE  MapIsFunction' /\ BeforeStays' /\ GatheredInBetween'
  BY DEF IInv, MapIsFunction, BeforeStays, GatheredInBetween, CountOf, ValueIn

LEMMA CallUpdateStep ==
  ASSUME IInv, NEW t \in Threads, NEW k \in Keys, CallUpdate(t, k)
  PROVE  IInv'
  <1> USE DEF CallUpdate, GoTo, readerVars
  <1>1. TypeOK'
    BY MapAssumption DEF IInv, TypeOK
  <1>2. MapIsFunction' /\ BeforeStays' /\ GatheredInBetween'
    BY MapFrame DEF Copied
  <1>3. pc \in [Threads -> {"idle", "lock", "read", "write", "unlock"}]
          /\ key \in [Threads -> Keys]
    BY DEF IInv, TypeOK
  <1>4. \A u \in Threads :
          /\ InCritical(u)' => u # t /\ InCritical(u)
          /\ u # t => InCritical(u)' = InCritical(u)
                        /\ key'[u] = key[u] /\ pc'[u] = pc[u] /\ value'[u] = value[u]
          /\ InCritical(u) => u # t
    BY <1>3 DEF InCritical
  <1>5. Locked'
    BY <1>4 DEF IInv, Locked, ReaderIn
  <1>6. Exclusive'
    BY <1>4 DEF IInv, Exclusive, ReaderIn
  <1>7. ReadIsCurrent'
    BY <1>3, <1>4 DEF IInv, ReadIsCurrent
  <1>8. QED
    BY <1>1, <1>2, <1>5, <1>6, <1>7 DEF IInv

LEMMA LockStep ==
  ASSUME IInv, NEW t \in Threads, Lock(t)
  PROVE  IInv'
  <1> DEFINE s0 == ShardOf(key[t])
  <1> USE DEF Lock, TestAndSet, GoTo, readerVars
  <1>1. s0 \in Shards /\ ~flag[s0]
    BY ShardOfType DEF IInv, TypeOK
  <1>2. TypeOK'
    BY DEF IInv, TypeOK
  <1>3. MapIsFunction' /\ BeforeStays' /\ GatheredInBetween'
    BY MapFrame DEF Copied
  <1>4. \A u \in Threads :
          /\ InCritical(u)' = (u = t \/ InCritical(u))
          /\ pc'[u] = "write" => pc[u] = "write"
    BY DEF IInv, TypeOK, InCritical
  <1>5. \A s \in Shards : flag'[s] = (s = s0 \/ flag[s])
    BY DEF IInv, TypeOK
  <1>6. \A u \in Threads : ShardOf(key[u]) \in Shards
    BY ShardOfType DEF IInv, TypeOK
  <1>7. Locked'
    BY <1>1, <1>4, <1>5, <1>6 DEF IInv, Locked, ReaderIn, TypeOK
  <1>8. Exclusive'
    BY <1>1, <1>4 DEF IInv, Exclusive, Locked, ReaderIn
  <1>9. ReadIsCurrent'
    BY <1>4 DEF IInv, ReadIsCurrent
  <1>10. QED
    BY <1>2, <1>3, <1>7, <1>8, <1>9 DEF IInv

(* Read and Write: the map changes, in a shard that nobody else is in. *)
LEMMA InsideStep ==
  ASSUME IInv, NEW t \in Threads, Read(t) \/ Write(t)
  PROVE  IInv'
  <1> DEFINE k0 == key[t]
             s0 == ShardOf(key[t])
             v == IF Read(t) THEN ValueIn(map[s0], k0) ELSE value[t] + 1
  <1>1. k0 \in Keys /\ s0 \in Shards /\ InCritical(t)
    BY ShardOfType DEF IInv, TypeOK, Read, Write, InCritical
  <1>2. ValueIn(map[s0], k0) \in Nat
    BY <1>1 DEF IInv, TypeOK, IsMap, ValueIn
  <1>3. v \in Nat /\ v >= CountOf(k0)
    <2>1. CASE Read(t)
      BY <1>2, <2>1 DEF CountOf
    <2>2. CASE ~Read(t)
      <3>1. value[t] \in Nat /\ value[t] = CountOf(k0)
        BY <2>2 DEF IInv, TypeOK, Write, ReadIsCurrent, CountOf, ValueIn
      <3>2. QED
        BY <2>2, <3>1
    <2>3. QED
      BY <2>1, <2>2
  <1>4. map' = [map EXCEPT ![s0] = With(@, k0, v)]
    <2>1. CASE Read(t)
      BY <1>1, <2>1 DEF Read, IInv, MapIsFunction
    <2>2. CASE ~Read(t)
      BY <1>1, <2>2 DEF Write, IInv, MapIsFunction
    <2>3. QED
      BY <2>1, <2>2
  <1>5. Read(t) => value' = [value EXCEPT ![t] = v]
    BY DEF Read
  <1> HIDE DEF v
  <1>6. /\ MapIsFunction'
        /\ \A s \in Shards : IsMap(map'[s]) /\ \A k \in DOMAIN map'[s] : ShardOf(k) = s
        /\ \A s \in Shards : DOMAIN map[s] \subseteq DOMAIN map'[s]
        /\ \A k \in Keys : CountOf(k) <= CountOf(k)'
        /\ \A s \in Shards \ {s0} : map'[s] = map[s]
        /\ k0 \in DOMAIN map'[s0] /\ map'[s0][k0] = v
    BY <1>3, <1>4, Stored DEF IInv
  <1>7. UNCHANGED <<flag, key, calls, reader, shard, result, before>>
    BY DEF Read, Write, readerVars
  <1>8. /\ pc' \in [Threads -> {"idle", "lock", "read", "write", "unlock"}]
        /\ value' \in [Threads -> Nat]
        /\ \A u \in Threads : InCritical(u)' = InCritical(u)
        /\ \A u \in Threads \ {t} : pc'[u] = pc[u] /\ value'[u] = value[u]
        /\ pc'[t] = "write" => value'[t] = v
    BY <1>3, <1>5 DEF Read, Write, GoTo, IInv, TypeOK, InCritical
  <1>9. TypeOK'
    BY <1>6, <1>7, <1>8 DEF IInv, TypeOK
  <1>10. Locked' /\ Exclusive'
    BY <1>7, <1>8 DEF IInv, Locked, Exclusive, ReaderIn
  <1>11. ReadIsCurrent'
    <2> SUFFICES ASSUME NEW u \in Threads, pc'[u] = "write"
                 PROVE  /\ key[u] \in DOMAIN map'[ShardOf(key[u])]
                        /\ value'[u] = map'[ShardOf(key[u])][key[u]]
      BY <1>7 DEF ReadIsCurrent
    <2>1. CASE u = t
      BY <1>6, <1>8, <2>1
    <2>2. CASE u # t
      <3>1. pc[u] = "write" /\ InCritical(u)
        BY <1>8, <2>2 DEF InCritical
      <3>2. ShardOf(key[u]) \in Shards \ {s0}
        BY <1>1, <2>2, <3>1, ShardOfType DEF IInv, TypeOK, Exclusive
      <3>3. QED
        BY <1>6, <1>8, <2>2, <3>1, <3>2 DEF IInv, ReadIsCurrent
    <2>3. QED
      BY <2>1, <2>2
  <1>12. BeforeStays' /\ GatheredInBetween'
    BY <1>6, <1>7, GrowthKeepsGathered DEF IInv
  <1>13. QED
    BY <1>6, <1>9, <1>10, <1>11, <1>12 DEF IInv

LEMMA UnlockStep ==
  ASSUME IInv, NEW t \in Threads, Unlock(t)
  PROVE  IInv'
  <1> DEFINE s0 == ShardOf(key[t])
  <1> USE DEF Unlock, Clear, GoTo, readerVars
  <1>1. s0 \in Shards /\ InCritical(t)
    BY ShardOfType DEF IInv, TypeOK, InCritical
  <1>2. TypeOK'
    BY DEF IInv, TypeOK
  <1>3. MapIsFunction' /\ BeforeStays' /\ GatheredInBetween'
    BY MapFrame DEF Copied
  <1>4. \A u \in Threads :
          /\ InCritical(u)' = (u # t /\ InCritical(u))
          /\ pc'[u] = "write" => pc[u] = "write"
    BY DEF IInv, TypeOK, InCritical
  <1>5. \A s \in Shards : flag'[s] = (s # s0 /\ flag[s])
    BY DEF IInv, TypeOK
  <1>6. \A u \in Threads : ShardOf(key[u]) \in Shards
    BY ShardOfType DEF IInv, TypeOK
  <1>7. Locked'
    BY <1>1, <1>4, <1>5, <1>6 DEF IInv, Locked, Exclusive, ReaderIn, TypeOK
  <1>8. Exclusive'
    BY <1>4 DEF IInv, Exclusive, ReaderIn
  <1>9. ReadIsCurrent'
    BY <1>4 DEF IInv, ReadIsCurrent
  <1>10. QED
    BY <1>2, <1>3, <1>7, <1>8, <1>9 DEF IInv

-----------------------------------------------------------------------------
LEMMA CallGatherStep ==
  ASSUME IInv, CallGather
  PROVE  IInv'
  <1> USE DEF CallGather, threadVars
  <1>1. DOMAIN before' \subseteq Keys /\ DOMAIN result' = {}
    BY DEF AllPairs, NoPairs
  <1>2. \A k \in DOMAIN before' :
          /\ ShardOf(k) \in Shards /\ k \in DOMAIN map[ShardOf(k)]
          /\ before'[k] = map[ShardOf(k)][k] /\ before'[k] \in Nat
    BY <1>1, ShardOfType DEF AllPairs, IInv, TypeOK, IsMap
  <1>3. IsMap(result') /\ IsMap(before')
    BY <1>1, <1>2 DEF IsMap
  <1>4. TypeOK'
    BY <1>3, ZeroIsShard DEF IInv, TypeOK
  <1>5. BeforeStays'
    BY <1>2 DEF BeforeStays, CountOf, ValueIn
  <1>6. GatheredInBetween'
    BY <1>1 DEF GatheredInBetween, Copied
  <1>7. Locked' /\ Exclusive' /\ ReadIsCurrent' /\ MapIsFunction'
    BY DEF IInv, Locked, Exclusive, ReaderIn, InCritical, ReadIsCurrent, MapIsFunction
  <1>8. QED
    BY <1>4, <1>5, <1>6, <1>7 DEF IInv

LEMMA AddSizeStep ==
  ASSUME IInv, AddSize
  PROVE  IInv'
  <1> USE DEF AddSize, threadVars
  <1>1. shard \in Shards
    BY DEF IInv, TypeOK
  <1>2. shard' \in Shards /\ (reader' = "lock" => shard' = 0)
    BY <1>1, NextShard
  <1>3. Copied' = Copied
    <2>1. Copied = {}
      BY DEF Copied
    <2>2. 0 .. (0 - 1) = {}
      OBVIOUS
    <2>3. Copied' = {}
      BY <1>2, <2>2 DEF Copied
    <2>4. QED
      BY <2>1, <2>3
  <1>4. TypeOK'
    BY <1>2 DEF IInv, TypeOK
  <1>5. Locked' /\ Exclusive' /\ ReadIsCurrent'
    BY DEF IInv, Locked, Exclusive, ReaderIn, InCritical, ReadIsCurrent
  <1>6. QED
    BY <1>3, <1>4, <1>5, MapFrame DEF IInv

LEMMA LockShardStep ==
  ASSUME IInv, LockShard
  PROVE  IInv'
  <1> USE DEF LockShard, TestAndSet, threadVars
  <1>1. shard \in Shards /\ ~flag[shard]
    BY DEF IInv, TypeOK
  <1>2. TypeOK'
    BY DEF IInv, TypeOK
  <1>3. \A s \in Shards : flag'[s] = (s = shard \/ flag[s])
    BY DEF IInv, TypeOK
  <1>4. \A t \in Threads : ShardOf(key[t]) \in Shards
    BY ShardOfType DEF IInv, TypeOK
  <1>5. Locked'
    BY <1>1, <1>3, <1>4 DEF IInv, Locked, InCritical, ReaderIn
  <1>6. Exclusive'
    BY <1>1 DEF IInv, Exclusive, Locked, InCritical, ReaderIn
  <1>7. MapIsFunction' /\ BeforeStays' /\ GatheredInBetween'
    BY MapFrame DEF Copied
  <1>8. ReadIsCurrent'
    BY DEF IInv, ReadIsCurrent
  <1>9. QED
    BY <1>2, <1>5, <1>6, <1>7, <1>8 DEF IInv

(* A key is in one shard only, so copying a shard changes no pair that was
   gathered before.                                                         *)
LEMMA CopyShardStep ==
  ASSUME IInv, CopyShard
  PROVE  IInv'
  <1> USE DEF CopyShard, threadVars
  <1>1. shard \in Shards /\ IsMap(map[shard]) /\ IsMap(result) /\ IsMap(before)
    BY DEF IInv, TypeOK
  <1>2. /\ DOMAIN result' = DOMAIN result \union DOMAIN map[shard]
        /\ \A k \in DOMAIN result' :
             result'[k] = IF k \in DOMAIN map[shard] THEN map[shard][k] ELSE result[k]
    BY DEF Union
  <1>3. IsMap(result')
    BY <1>1, <1>2 DEF IsMap
  <1>4. TypeOK'
    BY <1>3 DEF IInv, TypeOK
  <1>5. \A k \in DOMAIN map[shard] : ShardOf(k) = shard
    BY <1>1 DEF IInv, TypeOK
  <1>6. \A k \in Keys : ShardOf(k) \in Shards /\ CountOf(k)' = CountOf(k) /\ CountOf(k) \in Nat
    BY ShardOfType DEF CountOf, ValueIn, IInv, TypeOK, IsMap
  <1>7. \A k \in DOMAIN map[shard] : k \in Keys /\ map[shard][k] = CountOf(k)
    BY <1>1, <1>5 DEF CountOf, ValueIn, IsMap
  <1>8. \A k \in DOMAIN result' : result'[k] <= CountOf(k)'
    <2> SUFFICES ASSUME NEW k \in DOMAIN result' PROVE result'[k] <= CountOf(k)'
      OBVIOUS
    <2>1. k \in Keys
      BY <1>3 DEF IsMap
    <2>2. k \in DOMAIN result => result[k] <= CountOf(k)
      BY DEF IInv, GatheredInBetween
    <2> HIDE DEF CountOf
    <2>3. QED
      BY <1>2, <1>6, <1>7, <2>1, <2>2
  <1>9. ASSUME NEW k \in DOMAIN before', ShardOf(k) \in Copied'
        PROVE  k \in DOMAIN result' /\ before'[k] <= result'[k]
    <2>1. k \in DOMAIN before /\ k \in Keys
      BY <1>1, <1>9 DEF IsMap
    <2>2. k \in DOMAIN map[ShardOf(k)] /\ before[k] <= CountOf(k)
      BY <2>1 DEF IInv, BeforeStays
    <2>3. CASE ShardOf(k) = shard
      BY <1>2, <1>7, <2>2, <2>3
    <2>4. CASE ShardOf(k) # shard
      <3>1. Copied' = 0 .. shard /\ Copied = 0 .. (shard - 1)
        BY DEF Copied
      <3>2. ShardOf(k) \in Copied
        BY <1>1, <1>9, <2>1, <2>4, <3>1, <1>6, MapAssumption DEF Shards
      <3>3. k \in DOMAIN result /\ before[k] <= result[k]
        BY <2>1, <3>2 DEF IInv, GatheredInBetween
      <3>4. k \notin DOMAIN map[shard]
        BY <1>5, <2>4
      <3>5. QED
        BY <1>2, <3>3, <3>4
    <2>5. QED
      BY <2>3, <2>4
  <1>10. GatheredInBetween'
    BY <1>8, <1>9 DEF GatheredInBetween
  <1>11. BeforeStays' /\ MapIsFunction' /\ ReadIsCurrent'
    BY DEF IInv, BeforeStays, MapIsFunction, ReadIsCurrent, CountOf, ValueIn
  <1>12. Locked' /\ Exclusive'
    BY DEF IInv, Locked, Exclusive, InCritical, ReaderIn
  <1>13. QED
    BY <1>4, <1>10, <1>11, <1>12 DEF IInv

LEMMA UnlockShardStep ==
  ASSUME IInv, UnlockShard
  PROVE  IInv'
  <1> USE DEF UnlockShard, Clear, threadVars
  <1>1. shard \in Shards
    BY DEF IInv, TypeOK
  <1>2. /\ shard' \in Shards
        /\ shard # NumShards - 1 => reader' = "lock" /\ shard' = shard + 1
        /\ shard = NumShards - 1 => reader' = "done"
    BY <1>1, NextShard
  <1>3. Copied' = Copied
    <2>1. Copied = 0 .. shard
      BY DEF Copied
    <2>2. CASE shard = NumShards - 1
      BY <1>2, <2>1, <2>2 DEF Copied, Shards
    <2>3. CASE shard # NumShards - 1
      <3>1. reader' = "lock" /\ shard' - 1 = shard
        BY <1>1, <1>2, <2>3 DEF Shards
      <3>2. Copied' = 0 .. (shard' - 1)
        BY <3>1 DEF Copied
      <3>3. QED
        BY <2>1, <3>1, <3>2
    <2>4. QED
      BY <2>2, <2>3
  <1>4. TypeOK'
    BY <1>2 DEF IInv, TypeOK
  <1>5. \A s \in Shards : flag'[s] = (s # shard /\ flag[s])
    BY DEF IInv, TypeOK
  <1>6. \A t \in Threads : ShardOf(key[t]) \in Shards
    BY ShardOfType DEF IInv, TypeOK
  <1>7. Locked'
    BY <1>5, <1>6 DEF IInv, Locked, Exclusive, InCritical, ReaderIn
  <1>8. Exclusive' /\ ReadIsCurrent'
    BY DEF IInv, Exclusive, InCritical, ReaderIn, ReadIsCurrent
  <1>9. QED
    BY <1>3, <1>4, <1>7, <1>8, MapFrame DEF IInv

-----------------------------------------------------------------------------
LEMMA InvStep == IInv /\ [Next]_vars => IInv'
  <1> SUFFICES ASSUME IInv, [Next]_vars PROVE IInv'
    OBVIOUS
  <1>1. ASSUME UNCHANGED vars PROVE IInv'
    <2>1. Copied' = Copied
      BY <1>1 DEF vars, readerVars, Copied
    <2>2. TypeOK' /\ Locked' /\ Exclusive' /\ ReadIsCurrent'
      BY <1>1 DEF vars, readerVars, IInv, TypeOK, Locked, Exclusive, ReadIsCurrent,
                  InCritical, ReaderIn
    <2>3. QED
      BY <1>1, <2>1, <2>2, MapFrame DEF IInv, vars, readerVars
  <1>2. ASSUME NEW t \in Threads, Update(t) PROVE IInv'
    BY <1>2, LockStep, InsideStep, UnlockStep DEF Update
  <1>3. ASSUME Gather PROVE IInv'
    BY <1>3, AddSizeStep, LockShardStep, CopyShardStep, UnlockShardStep DEF Gather
  <1>4. QED
    BY <1>1, <1>2, <1>3, CallUpdateStep, CallGatherStep DEF Next, Finished

LEMMA MapSafe == Spec => []IInv
  BY InitIInv, InvStep, PTL DEF Spec

(* Under any interleaving of update() and gather_all() the shards keep their
   types, and a key is never found outside the shard of its hash.           *)
THEOREM MapTypeCorrect == Spec => []TypeOK
  BY MapSafe, PTL DEF IInv

(* The spin locks of the shards exclude: one thread at most, or the reader,
   is inside a shard, and exactly when its flag is set.                     *)
THEOREM ShardsExclusive == Spec => []OneHolder
  <1>1. IInv => OneHolder
    BY HoldersCounted DEF IInv
  <1>2. QED
    BY <1>1, MapSafe, PTL

(* gather_all() during updates returns, of every shard, a state between that
   at its call and that at its return.                                      *)
THEOREM GatherIsBetween == Spec => []GatheredInBetween
  BY MapSafe, PTL DEF IInv

-----------------------------------------------------------------------------
(* Conservation.  A call that has begun is pending until its updater stores,
   and it stores one more than what is in the map at that moment.           *)
Pending == {t \in Threads : pc[t] \in {"lock", "read", "write"}}

LEMMA SumsFinite ==
  ASSUME TypeOK
  PROVE  /\ \A k \in Keys : CountOf(k) \in Nat
         /\ IsFiniteSet(Pending) /\ Cardinality(Pending) \in Nat
         /\ SumFunctionOnSet([k \in Keys |-> CountOf(k)], Keys) \in Nat
         /\ SumFunctionOnSet(calls, Threads) \in Nat
  <1>1. \A k \in Keys : CountOf(k) \in Nat
    BY ShardOfType DEF CountOf, ValueIn, TypeOK, IsMap
  <1> HIDE DEF CountOf
  <1>2. IsFiniteSet(Pending) /\ Cardinality(Pending) \in Nat
    BY FS_Subset, FS_CardinalityType, MapAssumption DEF Pending
  <1>3. \A t \in Threads : calls[t] \in Nat
    BY MapAssumption DEF TypeOK
  <1>4. SumFunctionOnSet(calls, Threads) \in Nat
    BY <1>3, SumNat, MapAssumption
  <1>5. SumFunctionOnSet([k \in Keys |-> CountOf(k)], Keys) \in Nat
    BY <1>1, SumNat, MapAssumption
  <1> QED BY <1>1, <1>2, <1>4, <1>5

(* The steps that change neither the counts nor who is pending. *)
LEMMA NothingStored ==
  ASSUME NoLostUpdate, UNCHANGED calls, Pending' = Pending,
         \A k \in Keys : CountOf(k)' = CountOf(k)
  PROVE  NoLostUpdate'
  <1>1. [k \in Keys |-> CountOf(k)]' = [k \in Keys |-> CountOf(k)]
    OBVIOUS
  <1> QED BY <1>1 DEF NoLostUpdate, Pending

LEMMA CallPending ==
  ASSUME IInv, NoLostUpdate, NEW t \in Threads, NEW k \in Keys, CallUpdate(t, k)
  PROVE  NoLostUpdate'
  <1>1. /\ t \notin Pending /\ Pending' = Pending \union {t}
        /\ calls' = [calls EXCEPT ![t] = @ + 1] /\ map' = map
    BY DEF CallUpdate, GoTo, Pending, IInv, TypeOK
  <1>2. Cardinality(Pending') = Cardinality(Pending) + 1 /\ Cardinality(Pending) \in Nat
    BY <1>1, SumsFinite, FS_AddElement DEF IInv
  <1>3. /\ \A u \in Threads : calls[u] \in Int /\ calls'[u] \in Int
        /\ \A u \in Threads : u # t => calls[u] = calls'[u]
        /\ calls'[t] = calls[t] + 1
    BY <1>1 DEF IInv, TypeOK
  <1>4. SumFunctionOnSet(calls', Threads) = SumFunctionOnSet(calls, Threads) + calls'[t] - calls[t]
    BY <1>3, SumChange, MapAssumption
  <1>5. [j \in Keys |-> CountOf(j)]' = [j \in Keys |-> CountOf(j)]
    BY <1>1 DEF CountOf, ValueIn
  <1>6. SumFunctionOnSet(calls, Threads) \in Nat
    BY SumsFinite DEF IInv
  <1>7. SumFunctionOnSet(calls', Threads) = SumFunctionOnSet(calls, Threads) + 1
    BY <1>3, <1>4, <1>6
  <1> QED BY <1>2, <1>5, <1>6, <1>7 DEF NoLostUpdate, Pending

LEMMA StoreCounts ==
  ASSUME IInv, IInv', NoLostUpdate, NEW t \in Threads, Read(t) \/ Write(t)
  PROVE  NoLostUpdate'
  <1> DEFINE k0 == key[t]
             s0 == ShardOf(key[t])
             now == [k \in Keys |-> CountOf(k)]
  <1>1. k0 \in Keys /\ s0 \in Shards /\ \A k \in Keys : CountOf(k) \in Nat
    BY ShardOfType, SumsFinite DEF IInv, TypeOK
  <1>2. CASE Read(t)
    <2>1. ValueIn(map[s0], k0) = CountOf(k0)
      BY DEF CountOf
    <2>2. map' = [map EXCEPT ![s0] = With(@, k0, CountOf(k0))]
      BY <1>1, <1>2, <2>1 DEF Read, IInv, MapIsFunction
    <2>3. \A k \in Keys : CountOf(k)' = IF k = k0 THEN CountOf(k0) ELSE CountOf(k)
      <3>1. CountOf(k0) \in Nat /\ CountOf(k0) >= CountOf(k0)
        BY <1>1
      <3> HIDE DEF CountOf
      <3> QED BY <2>2, <3>1, Stored DEF IInv
    <2>4. Pending' = Pending /\ UNCHANGED calls
      BY <1>2 DEF Read, GoTo, Pending, IInv, TypeOK
    <2> QED BY <2>3, <2>4, NothingStored
  <1>3. CASE Write(t)
    <2>1. value[t] = CountOf(k0) /\ value[t] + 1 \in Nat /\ value[t] + 1 >= CountOf(k0)
      BY <1>1, <1>3 DEF IInv, TypeOK, Write, ReadIsCurrent, CountOf, ValueIn
    <2>2. map' = [map EXCEPT ![s0] = With(@, k0, value[t] + 1)]
      BY <1>1, <1>3 DEF Write, IInv, MapIsFunction
    <2>3. \A k \in Keys : CountOf(k)' = IF k = k0 THEN CountOf(k) + 1 ELSE CountOf(k)
      <3>1. \A k \in Keys : CountOf(k)' = IF k = k0 THEN value[t] + 1 ELSE CountOf(k)
        BY <1>1, <2>1, <2>2, Stored DEF IInv
      <3> QED BY <2>1, <3>1
    <2>4. t \in Pending /\ Pending' = Pending \ {t} /\ UNCHANGED calls
      BY <1>3 DEF Write, GoTo, Pending, IInv, TypeOK
    <2>5. Cardinality(Pending') = Cardinality(Pending) - 1 /\ Cardinality(Pending) \in Nat
      BY <2>4, SumsFinite, FS_RemoveElement DEF IInv
    <2>6. now' = [k \in Keys |-> IF k = k0 THEN CountOf(k) + 1 ELSE CountOf(k)]
      BY <2>3
    <2> HIDE DEF k0
    <2>7. SumFunctionOnSet(now', Keys) = SumFunctionOnSet(now, Keys) + now'[k0] - now[k0]
      <3>1. /\ \A k \in Keys : now[k] \in Int /\ now'[k] \in Int
            /\ \A k \in Keys : k # k0 => now[k] = now'[k]
        BY <1>1, <2>6
      <3> HIDE DEF now
      <3> QED BY <1>1, <3>1, SumChange, MapAssumption
    <2>8. now'[k0] = now[k0] + 1 /\ now[k0] \in Nat
      BY <1>1, <2>6
    <2>9. SumFunctionOnSet(now, Keys) \in Nat /\ SumFunctionOnSet(calls, Threads) \in Nat
      BY SumsFinite DEF IInv
    <2> HIDE DEF now
    <2>10. SumFunctionOnSet(now', Keys) = SumFunctionOnSet(now, Keys) + 1
      BY <2>7, <2>8, <2>9
    <2> QED BY <2>4, <2>5, <2>9, <2>10 DEF NoLostUpdate, Pending, now
  <1> QED BY <1>2, <1>3

LEMMA NoLossStep == IInv /\ IInv' /\ NoLostUpdate /\ [Next]_vars => NoLostUpdate'
  <1> SUFFICES ASSUME IInv, IInv', NoLostUpdate, [Next]_vars PROVE NoLostUpdate'
    OBVIOUS
  <1>1. ASSUME NEW t \in Threads, Lock(t) \/ Unlock(t) PROVE NoLostUpdate'
    <2>1. Pending' = Pending /\ UNCHANGED <<calls, map>>
      BY <1>1 DEF Lock, Unlock, GoTo, Pending, IInv, TypeOK
    <2> QED BY <2>1, NothingStored DEF CountOf, ValueIn
  <1>2. ASSUME Gather \/ CallGather \/ UNCHANGED vars PROVE NoLostUpdate'
    <2>1. UNCHANGED <<calls, map, pc>>
      BY <1>2 DEF Gather, AddSize, LockShard, CopyShard, UnlockShard, CallGather,
                  threadVars, vars
    <2> QED BY <2>1, NothingStored DEF CountOf, ValueIn, Pending
  <1> QED BY <1>1, <1>2, CallPending, StoreCounts DEF Next, Update, Finished

LEMMA InitNoLoss == Init => NoLostUpdate
  <1> SUFFICES ASSUME Init PROVE NoLostUpdate
    OBVIOUS
  <1>1. Pending = {} /\ \A t \in Threads : calls[t] = 0
    BY DEF Init, Pending
  <1>2. \A k \in Keys : CountOf(k) = 0
    BY ShardOfType DEF Init, CountOf, ValueIn, NoPairs
  <1>3. SumFunctionOnSet(calls, Threads) = 0
    BY <1>1, SumZero, MapAssumption
  <1>4. SumFunctionOnSet([k \in Keys |-> CountOf(k)], Keys) = 0
    <2> HIDE DEF CountOf
    <2> QED BY <1>2, SumZero, MapAssumption
  <1> QED BY <1>1, <1>3, <1>4, FS_EmptySet DEF NoLostUpdate, Pending

(* The lock makes update() atomic: whatever the threads, the keys, the hash
   and the interleaving, the values of the map add up to the number of calls
   whose updater has stored.                                                *)
THEOREM NothingLost == Spec => []NoLostUpdate
  BY MapSafe, InitNoLoss, NoLossStep, PTL DEF Spec
================================================================================
