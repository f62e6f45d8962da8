------------------------------ MODULE BoundedFifo ------------------------------
(***************************************************************************)
(* What a bounded queue promises: items come out once each, in the order   *)
(* in which they went in, and there are never more than Capacity of them.  *)
(***************************************************************************)
EXTENDS Naturals, Sequences

CONSTANTS Capacity, Items, None

VARIABLES
  queue,    \* the items that have been put and not been got, oldest first
  got       \* the item that was got last

fifoVars == <<queue, got>>

Init == queue = <<>> /\ got = None

Put(x) ==
  /\ Len(queue) < Capacity
  /\ queue' = Append(queue, x)
  /\ UNCHANGED got

Get ==
  /\ queue # <<>>
  /\ got' = Head(queue)
  /\ queue' = Tail(queue)

Next == Get \/ \E x \in Items : Put(x)

Spec == Init /\ [][Next]_fifoVars
===============================================================================
