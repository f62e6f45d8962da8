----------------------------- MODULE SPSCRingBuffer -----------------------------
(***************************************************************************)
(* The single-producer single-consumer ring buffer of layer 4              *)
(* (ring_buffer.hpp): one thread calls push, another calls pop, and they   *)
(* share two indices and the slots, one more than the capacity.            *)
(*                                                                         *)
(* Each access to a shared variable is a step of its own.  A thread reads  *)
(* its own index as it left it.  Its acquire load of the other's index may *)
(* return an older value, no older than one it has already seen; it        *)
(* returns with the loads that precede the release store of that value.    *)
(* The model therefore lets a load return any value the index has had      *)
(* since the last one the thread saw.                                      *)
(***************************************************************************)
EXTENDS Integers, Sequences

CONSTANTS
  Capacity,   \* the capacity the buffer is constructed with
  Items,      \* what may be pushed
  None        \* the content of a slot without an item

ASSUME RingAssumption ==
  /\ Capacity \in Nat
  /\ None \notin Items

VARIABLES
  buffer,     \* buffer_
  head,       \* head_, stored by the consumer
  tail,       \* tail_, stored by the producer
  producer,   \* "idle", "load", "write" or "store": the next step of push
  item,       \* the argument of push
  seenHead,   \* the value of head_ the producer loaded last
  consumer,   \* "idle", "read" or "store": the next step of pop
  seenTail,   \* the value of tail_ the consumer loaded last
  got         \* the item pop moved out last

ringVars == <<buffer, head, tail, producer, item, seenHead, consumer, seenTail, got>>

(* capacity_, which tells a full buffer from an empty one. *)
SlotCount == Capacity + 1
Slots == 0 .. Capacity

(* A variant with a bug: the index is not wrapped. *)
BugNoWrap(i) == i + 1

Succ(i) == (i + 1) % SlotCount

(* How many slots lie from index i up to index j, around the ring. *)
Distance(i, j) == IF i <= j THEN j - i ELSE j - i + SlotCount

(* The values an index has had since it was i; it is j now. *)
Since(i, j) == {k \in Slots : Distance(i, k) <= Distance(i, j)}

-----------------------------------------------------------------------------
RingInit ==
  /\ buffer = [i \in Slots |-> None]
  /\ head = 0 /\ tail = 0
  /\ producer = "idle" /\ item = None /\ seenHead = 0
  /\ consumer = "idle" /\ seenTail = 0 /\ got = None

Push(x) ==
  /\ producer = "idle"
  /\ item' = x
  /\ producer' = "load"
  /\ UNCHANGED <<buffer, head, tail, seenHead, consumer, seenTail, got>>

(* A variant with a bug: the spare slot is used as well. *)
BugNoSpareSlot(h) == buffer[tail] # None

IsFull(h) == Succ(tail) = h

(* head_.load(acquire); push returns false on a full buffer. *)
LoadHead ==
  /\ producer = "load"
  /\ \E h \in Since(seenHead, head) :
       /\ seenHead' = h
       /\ producer' = IF IsFull(h) THEN "idle" ELSE "write"
  /\ UNCHANGED <<buffer, head, tail, item, consumer, seenTail, got>>

WriteSlot ==
  /\ producer = "write"
  /\ buffer' = [buffer EXCEPT ![tail] = item]
  /\ producer' = "store"
  /\ UNCHANGED <<head, tail, item, seenHead, consumer, seenTail, got>>

(* tail_.store(next_tail, release); push returns true. *)
StoreTail ==
  /\ producer = "store"
  /\ tail' = Succ(tail)
  /\ producer' = "idle"
  /\ UNCHANGED <<buffer, head, item, seenHead, consumer, seenTail, got>>

(* A variant with a bug: pop does not test for an empty buffer. *)
BugNoEmptyTest ==
  /\ consumer = "idle"
  /\ seenTail' = tail
  /\ consumer' = "read"
  /\ UNCHANGED <<buffer, head, tail, producer, item, seenHead, got>>

(* tail_.load(acquire); pop returns nullopt on an empty buffer. *)
LoadTail ==
  /\ consumer = "idle"
  /\ \E t \in Since(seenTail, tail) :
       /\ seenTail' = t
       /\ consumer' = IF head = t THEN "idle" ELSE "read"
  /\ UNCHANGED <<buffer, head, tail, producer, item, seenHead, got>>

(* The item is moved out of its slot. *)
ReadSlot ==
  /\ consumer = "read"
  /\ got' = buffer[head]
  /\ buffer' = [buffer EXCEPT ![head] = None]
  /\ consumer' = "store"
  /\ UNCHANGED <<head, tail, producer, item, seenHead, seenTail>>

(* head_.store(head + 1, release); pop returns the item. *)
StoreHead ==
  /\ consumer = "store"
  /\ head' = Succ(head)
  /\ consumer' = "idle"
  /\ UNCHANGED <<buffer, tail, producer, item, seenHead, seenTail, got>>

Producer == LoadHead \/ WriteSlot \/ StoreTail \/ \E x \in Items : Push(x)

Consumer == LoadTail \/ ReadSlot \/ StoreHead

RingNext == Producer \/ Consumer

RingSpec == RingInit /\ [][RingNext]_ringVars

-----------------------------------------------------------------------------
(* The types of the variables. *)
RingTypeOK ==
  /\ buffer \in [Slots -> Items \union {None}]
  /\ {head, tail, seenHead, seenTail} \subseteq Slots
  /\ producer \in {"idle", "load", "write", "store"}
  /\ consumer \in {"idle", "read", "store"}
  /\ item \in Items \union {None}
  /\ got \in Items \union {None}

(* Around the ring come first what the producer knows of the consumer, then
   the consumer, then what the consumer knows of the producer, then the
   producer, and they are less than a round apart.  So an old value only
   makes a thread believe that there is less room, or fewer items, than
   there are, however far its knowledge lags behind.                        *)
ViewsInOrder ==
  Distance(seenHead, head) + Distance(head, seenTail) + Distance(seenTail, tail)
    = Distance(seenHead, tail)

(* The plain accesses to the slots never meet: the producer writes a slot
   while the consumer reads or clears another one.  "We must acquire head to
   ensure we see the latest consumer reads", ring_buffer.hpp:33.            *)
NoDataRace == producer = "write" /\ consumer = "read" => head # tail

(* The slots that hold an item: from the one the consumer takes next. *)
FirstItem == IF consumer = "store" THEN Succ(head) ELSE head

Contents ==
  [k \in 1 .. Distance(FirstItem, tail) |-> buffer[(FirstItem + k - 1) % SlotCount]]

(* The ring buffer is a bounded queue: nothing is lost, doubled, overwritten
   or taken out of order, and it holds at most the capacity.                *)
Fifo == INSTANCE BoundedFifo WITH queue <- Contents

ImplementsFifo == Fifo!Spec
===============================================================================
