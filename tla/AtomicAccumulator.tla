-------------------------- MODULE AtomicAccumulator --------------------------
(***************************************************************************)
(* The AtomicAccumulators of layer 4 (atomic_accumulator.hpp) that the     *)
(* threads of a parallel aggregation share.  An integral add is one atomic *)
(* fetch_add.  A floating-point add, update_min and update_max load the    *)
(* value and then try a weak compare-and-swap until it succeeds or, for    *)
(* the extrema, until the thread's own value no longer improves on it.     *)
(*                                                                         *)
(* A weak compare-and-swap that fails spuriously reloads the value it      *)
(* compared equal to: it changes nothing and is a stuttering step.         *)
(***************************************************************************)

CONSTANT None   \* the "current" of a thread that is in none of these loops

VARIABLES
  acc,     \* acc[a]: the value_ of accumulator a
  cur      \* cur[t]: the local "current" of the loop thread t runs

accumulatorVars == <<acc, cur>>

(* add() of an integral type: sum is the accumulator's value plus val. *)
AddIntegral(a, sum) ==
  /\ acc' = [acc EXCEPT ![a] = sum]
  /\ UNCHANGED cur

Load(t, a) ==
  /\ cur[t] = None
  /\ cur' = [cur EXCEPT ![t] = acc[a]]
  /\ UNCHANGED acc

(* A variant with a bug: a store that does not compare. *)
BugStore(t, a, new) ==
  /\ cur[t] # None
  /\ acc' = [acc EXCEPT ![a] = new]
  /\ cur' = [cur EXCEPT ![t] = None]

(* The compare-and-swap finds the value it loaded and replaces it. *)
CasSucceeds(t, a, new) ==
  /\ cur[t] # None
  /\ acc[a] = cur[t]
  /\ acc' = [acc EXCEPT ![a] = new]
  /\ cur' = [cur EXCEPT ![t] = None]

(* Another thread has changed the value: "current" is reloaded. *)
CasFails(t, a) ==
  /\ cur[t] # None
  /\ acc[a] # cur[t]
  /\ cur' = [cur EXCEPT ![t] = acc[a]]
  /\ UNCHANGED acc

(* The loop of an extremum ends: the thread's value does not improve it. *)
StopLoop(t) ==
  /\ cur[t] # None
  /\ cur' = [cur EXCEPT ![t] = None]
  /\ UNCHANGED acc
===============================================================================
