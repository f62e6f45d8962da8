------------------------ MODULE MCConcurrentShardedMap ------------------------
(***************************************************************************)
(* ConcurrentShardedMap for TLC: two shards and three keys, two of which   *)
(* fall into the same shard.                                               *)
(***************************************************************************)
EXTENDS ConcurrentShardedMap

MCHashOf == [k \in Keys |-> k]
===============================================================================
