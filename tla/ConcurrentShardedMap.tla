-------------------------- MODULE ConcurrentShardedMap --------------------------
(***************************************************************************)
(* The sharded hash map of layer 4 (concurrent_hash_map.hpp).  Threads     *)
(* update the values of keys, each in the shard of its key and under the   *)
(* lock of that shard, and a reader gathers the pairs of all the shards,   *)
(* one shard after the other.  The reader may come while threads update:   *)
(* the class says of gather_all that "locking ensures absolute safety".    *)
(*                                                                         *)
(* A value is a counter and the updater adds one to it, as the groups of  *)
(* a COUNT do; it reads the value in one step and stores it in another.   *)
(***************************************************************************)
EXTENDS SpinLock, Integers, FiniteSets, Functions

CONSTANTS
  Threads,     \* the threads that call update
  Keys,        \* the keys
  NumShards,   \* the template parameter
  HashOf,      \* hasher_: a function on the keys
  MaxUpdates   \* bound: the calls of update each thread makes

ASSUME MapAssumption ==
  /\ NumShards \in Nat \ {0}
  /\ IsFiniteSet(Threads) /\ IsFiniteSet(Keys) /\ Keys # {}
  /\ HashOf \in [Keys -> Nat]
  /\ MaxUpdates \in Nat

VARIABLES
  map,       \* map[s]: the unordered_map of shard s
  pc,        \* pc[t]: "idle", "lock", "read", "write" or "unlock"
  key,       \* key[t]: the argument of t's update
  value,     \* value[t]: what t's updater has read
  calls,     \* calls[t]: how often t has called update
  reader,    \* "idle", "size", "lock", "copy", "unlock" or, in the end, "done"
  shard,     \* the shard the reader is at
  result,    \* the pairs gathered, as a function of the key
  before     \* the pairs of the map when gather_all was called

readerVars == <<reader, shard, result, before>>
vars == <<flag, map, pc, key, value, calls, readerVars>>

Shards == 0 .. (NumShards - 1)

(* get_shard_index *)
ShardOf(k) == HashOf[k] % NumShards

NoPairs == [k \in {} |-> 0]

(* operator[]: the value of a key that is absent is constructed, zero. *)
ValueIn(m, k) == IF k \in DOMAIN m THEN m[k] ELSE 0

With(m, k, v) == [j \in DOMAIN m \union {k} |-> IF j = k THEN v ELSE m[j]]

Union(m, n) ==
  [k \in DOMAIN m \union DOMAIN n |-> IF k \in DOMAIN n THEN n[k] ELSE m[k]]

GoTo(t, label) == pc' = [pc EXCEPT ![t] = label]

-----------------------------------------------------------------------------
Init ==
  /\ flag = [s \in Shards |-> FALSE]
  /\ map = [s \in Shards |-> NoPairs]
  /\ pc = [t \in Threads |-> "idle"]
  /\ key = [t \in Threads |-> CHOOSE k \in Keys : TRUE]
  /\ value = [t \in Threads |-> 0]
  /\ calls = [t \in Threads |-> 0]
  /\ reader = "idle" /\ shard = 0
  /\ result = NoPairs /\ before = NoPairs

CallUpdate(t, k) ==
  /\ pc[t] = "idle"
  /\ calls[t] < MaxUpdates
  /\ calls' = [calls EXCEPT ![t] = @ + 1]
  /\ key' = [key EXCEPT ![t] = k]
  /\ GoTo(t, "lock")
  /\ UNCHANGED <<flag, map, value, readerVars>>

(* ScopedSpinLock lock(shard.lock) *)
Lock(t) ==
  /\ pc[t] = "lock"
  /\ TestAndSet(ShardOf(key[t]))
  /\ GoTo(t, "read")
  /\ UNCHANGED <<map, key, value, calls, readerVars>>

(* shard.map[key]: the pair exists from here on. *)
Read(t) ==
  /\ pc[t] = "read"
  /\ LET s == ShardOf(key[t])
         v == ValueIn(map[s], key[t])
     IN  /\ map' = [map EXCEPT ![s] = With(@, key[t], v)]
         /\ value' = [value EXCEPT ![t] = v]
  /\ GoTo(t, "write")
  /\ UNCHANGED <<flag, key, calls, readerVars>>

(* The updater stores its result. *)
Write(t) ==
  /\ pc[t] = "write"
  /\ map' = [map EXCEPT ![ShardOf(key[t])] = With(@, key[t], value[t] + 1)]
  /\ GoTo(t, "unlock")
  /\ UNCHANGED <<flag, key, value, calls, readerVars>>

(* The scope ends. *)
Unlock(t) ==
  /\ pc[t] = "unlock"
  /\ Clear(ShardOf(key[t]))
  /\ GoTo(t, "idle")
  /\ UNCHANGED <<map, key, value, calls, readerVars>>

Update(t) == Lock(t) \/ Read(t) \/ Write(t) \/ Unlock(t)

-----------------------------------------------------------------------------
(* All pairs of the map. *)
AllPairs ==
  [k \in {j \in Keys : j \in DOMAIN map[ShardOf(j)]} |-> map[ShardOf(k)][k]]

threadVars == <<pc, key, value, calls>>

CallGather ==
  /\ reader = "idle"
  /\ reader' = "size"
  /\ shard' = 0
  /\ result' = NoPairs
  /\ before' = AllPairs
  /\ UNCHANGED <<flag, map, threadVars>>

(* A variant with a bug: the second loop goes on where the first has ended. *)
BugNoRestart ==
  /\ reader = "size"
  /\ reader' = IF shard = NumShards - 1 THEN "lock" ELSE "size"
  /\ shard' = shard + 1
  /\ UNCHANGED <<flag, map, threadVars, result, before>>

(* A turn of the loop that adds up the sizes.  It takes no lock.  The sum
   only reserves memory for the result.                                     *)
AddSize ==
  /\ reader = "size"
  /\ reader' = IF shard = NumShards - 1 THEN "lock" ELSE "size"
  /\ shard' = (shard + 1) % NumShards
  /\ UNCHANGED <<flag, map, threadVars, result, before>>

LockShard ==
  /\ reader = "lock"
  /\ TestAndSet(shard)
  /\ reader' = "copy"
  /\ UNCHANGED <<map, threadVars, shard, result, before>>

CopyShard ==
  /\ reader = "copy"
  /\ result' = Union(result, map[shard])
  /\ reader' = "unlock"
  /\ UNCHANGED <<flag, map, threadVars, shard, before>>

(* A variant with a bug: the last shard is left out. *)
BugSkipLastShard ==
  /\ reader = "unlock"
  /\ Clear(shard)
  /\ reader' = IF shard >= NumShards - 2 THEN "done" ELSE "lock"
  /\ shard' = (shard + 1) % NumShards
  /\ UNCHANGED <<map, threadVars, result, before>>

(* A variant with a bug: the lock of the shard is not released. *)
BugKeepLock ==
  /\ reader = "unlock"
  /\ reader' = IF shard = NumShards - 1 THEN "done" ELSE "lock"
  /\ shard' = (shard + 1) % NumShards
  /\ UNCHANGED <<flag, map, threadVars, result, before>>

(* The scope of the lock ends, and after the last shard the call. *)
UnlockShard ==
  /\ reader = "unlock"
  /\ Clear(shard)
  /\ reader' = IF shard = NumShards - 1 THEN "done" ELSE "lock"
  /\ shard' = (shard + 1) % NumShards
  /\ UNCHANGED <<map, threadVars, result, before>>

Gather == AddSize \/ LockShard \/ CopyShard \/ UnlockShard

(* Everybody has made the calls of this run. *)
Finished ==
  /\ reader = "done"
  /\ \A t \in Threads : pc[t] = "idle" /\ calls[t] = MaxUpdates
  /\ UNCHANGED vars

Next ==
  \/ \E t \in Threads : Update(t) \/ \E k \in Keys : CallUpdate(t, k)
  \/ CallGather
  \/ Gather
  \/ Finished

(* A thread that is in a call keeps running; nothing obliges it to make one.
   The lock is not fair: it may go to another thread again and again, as
   long as the others keep calling.                                         *)
Fairness ==
  /\ \A t \in Threads : WF_vars(Update(t))
  /\ WF_vars(Gather)

Spec == Init /\ [][Next]_vars /\ Fairness

-----------------------------------------------------------------------------
IsMap(m) == DOMAIN m \subseteq Keys /\ \A k \in DOMAIN m : m[k] \in Nat

(* The types of the variables; a key is only in its own shard. *)
TypeOK ==
  /\ flag \in [Shards -> BOOLEAN]
  /\ \A s \in Shards : IsMap(map[s]) /\ \A k \in DOMAIN map[s] : ShardOf(k) = s
  /\ pc \in [Threads -> {"idle", "lock", "read", "write", "unlock"}]
  /\ key \in [Threads -> Keys]
  /\ value \in [Threads -> Nat]
  /\ calls \in [Threads -> 0 .. MaxUpdates]
  /\ reader \in {"idle", "size", "lock", "copy", "unlock", "done"}
  /\ shard \in Shards
  /\ IsMap(result) /\ IsMap(before)

(* Those who are between lock() and unlock() of shard s. *)
HoldersOf(s) ==
  {t \in Threads : pc[t] \in {"read", "write", "unlock"} /\ ShardOf(key[t]) = s}
    \union {r \in {"reader"} : reader \in {"copy", "unlock"} /\ shard = s}

(* The flag of a shard tells whether somebody is in its critical section,
   and there is never more than one, the reader included.                   *)
OneHolder ==
  \A s \in Shards : Cardinality(HoldersOf(s)) = IF flag[s] THEN 1 ELSE 0

CountOf(k) == ValueIn(map[ShardOf(k)], k)

(* No update is lost to a concurrent one of the same key or of the same
   shard: the values add up to the updates that have been stored.           *)
NoLostUpdate ==
  SumFunctionOnSet([k \in Keys |-> CountOf(k)], Keys)
    = SumFunctionOnSet(calls, Threads)
        - Cardinality({t \in Threads : pc[t] \in {"lock", "read", "write"}})

(* The shards that gather_all has copied. *)
Copied ==
  CASE reader = "done" -> Shards
    [] reader = "unlock" -> 0 .. shard
    [] reader \in {"lock", "copy"} -> 0 .. (shard - 1)
    [] OTHER -> {}

(* What gather_all has gathered lies between the map at its call and the map
   now: it misses nothing that was there before, and it invents nothing.
   When nobody updates in the meantime it is therefore exact.               *)
GatheredInBetween ==
  /\ \A k \in DOMAIN result : result[k] <= CountOf(k)
  /\ \A k \in DOMAIN before :
       ShardOf(k) \in Copied => k \in DOMAIN result /\ before[k] <= result[k]

(* Every call returns: no lock is left behind, and no order of the locks can
   make two calls wait for each other.                                      *)
EveryCallReturns ==
  /\ \A t \in Threads : (pc[t] = "lock") ~> (pc[t] = "idle")
  /\ (reader = "size") ~> (reader = "done")

(* gather_all never looks at a shard while an update changes it.  The class
   claims as much: "we don't strictly need to lock if we guarantee no
   writers exist. But locking ensures absolute safety",
   concurrent_hash_map.hpp:63-64.                                           *)
NoUnlockedLook ==
  reader = "size" =>
    \A t \in Threads : pc[t] \in {"read", "write"} => ShardOf(key[t]) # shard
===============================================================================
