-------------------------------- MODULE SpinLock --------------------------------
(***************************************************************************)
(* The spin locks of layer 4 (spin_lock.hpp), one for each shard of a map. *)
(* A lock is one flag.  It does not say who holds it.                      *)
(***************************************************************************)

VARIABLE flag   \* flag[s]: the flag_ of the lock of shard s

(* A variant with a bug: the lock is taken whether or not it is free, as with
   a load and a store for the test_and_set.                                 *)
BugBlindSet(s) == flag' = [flag EXCEPT ![s] = TRUE]

(* The test_and_set that finds the flag clear: lock() leaves its loop, or
   try_lock() returns true.  One that finds it set changes nothing, and
   lock() tries again.                                                      *)
TestAndSet(s) ==
  /\ ~flag[s]
  /\ flag' = [flag EXCEPT ![s] = TRUE]

Clear(s) == flag' = [flag EXCEPT ![s] = FALSE]
===============================================================================
