------------------------------- MODULE OmpTeam -------------------------------
(***************************************************************************)
(* The team of an OpenMP parallel region as the operators of layer 3 use   *)
(* it: the threads meet an "omp single" that sizes the vector of per-      *)
(* thread results, wait at its implicit barrier, share the work, and each  *)
(* moves its local result into its own slot before the region joins.       *)
(*                                                                         *)
(* OmpFilter and OmpGroupBy extend the module; they say what the work is.  *)
(***************************************************************************)
EXTENDS Integers

CONSTANT MaxThreads    \* the largest team the runtime may give a region

ASSUME TeamAssumption == MaxThreads \in Nat \ {0}

VARIABLES
  numThreads,    \* omp_get_num_threads()
  pc,            \* pc[t]: where thread t is in the region
  singleTaken,   \* some thread has entered the single construct
  local,         \* local[t]: local_res or local_map of thread t
  slots          \* thread_results or thread_maps; empty before the resize

teamVars == <<numThreads, pc, singleTaken, local, slots>>

Team == 0 .. (numThreads - 1)

NoSlots == [t \in {} |-> 0]

(* A region begins with n threads, n chosen by the runtime. *)
Fork(n, empty) ==
  /\ numThreads' = n
  /\ pc' = [t \in 0 .. (n - 1) |-> "single"]
  /\ singleTaken' = FALSE
  /\ local' = [t \in 0 .. (n - 1) |-> empty]
  /\ slots' = NoSlots

At(t, label) == t \in Team /\ pc[t] = label

GoTo(t, label) == pc' = [pc EXCEPT ![t] = label]

(* The first thread to arrive runs the block of the single. *)
WinSingle(t) ==
  /\ At(t, "single")
  /\ ~singleTaken
  /\ singleTaken' = TRUE
  /\ GoTo(t, "resize")
  /\ UNCHANGED <<numThreads, local, slots>>

(* The others skip it and wait at its end. *)
SkipSingle(t) ==
  /\ At(t, "single")
  /\ singleTaken
  /\ GoTo(t, "barrier")
  /\ UNCHANGED <<numThreads, singleTaken, local, slots>>

(* A variant with a bug: one slot too many. *)
BugLongResize(t, empty) ==
  /\ At(t, "resize")
  /\ slots' = [u \in 0 .. numThreads |-> empty]
  /\ GoTo(t, "barrier")
  /\ UNCHANGED <<numThreads, singleTaken, local>>

(* thread_results.resize(num_threads) *)
Resize(t, empty) ==
  /\ At(t, "resize")
  /\ slots' = [u \in Team |-> empty]
  /\ GoTo(t, "barrier")
  /\ UNCHANGED <<numThreads, singleTaken, local>>

(* A variant with a bug: "single nowait", nobody waits for the resize. *)
BugNoBarrier(t) ==
  /\ At(t, "barrier")
  /\ GoTo(t, "work")
  /\ UNCHANGED <<numThreads, singleTaken, local, slots>>

(* The implicit barrier: every thread of the team has reached it. *)
PassBarrier(t) ==
  /\ At(t, "barrier")
  /\ \A u \in Team : pc[u] \notin {"single", "resize"}
  /\ GoTo(t, "work")
  /\ UNCHANGED <<numThreads, singleTaken, local, slots>>

(* The implicit barrier at the end of an "omp for". *)
PassForEnd(t) ==
  /\ At(t, "forEnd")
  /\ \A u \in Team : pc[u] \in {"forEnd", "publish", "done"}
  /\ GoTo(t, "publish")
  /\ UNCHANGED <<numThreads, singleTaken, local, slots>>

(* thread_results[thread_id] = std::move(local): the source is left empty. *)
Publish(t, empty) ==
  /\ At(t, "publish")
  /\ slots' = [slots EXCEPT ![t] = local[t]]
  /\ local' = [local EXCEPT ![t] = empty]
  /\ GoTo(t, "done")
  /\ UNCHANGED <<numThreads, singleTaken>>

(* The implicit barrier that ends the region. *)
Joined == \A t \in Team : pc[t] = "done"

(* The operator returns: its vectors are destroyed. *)
Release ==
  /\ slots' = NoSlots
  /\ UNCHANGED <<numThreads, pc, singleTaken, local>>
===============================================================================
