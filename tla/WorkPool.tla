------------------------------- MODULE WorkPool -------------------------------
(***************************************************************************)
(* What a parallel loop promises of its rows, whoever hands them out: a    *)
(* phase opens with a pool of rows, a thread takes rows out of the pool,   *)
(* which no other thread can then take, and the phase is over only when    *)
(* nothing is left in the pool.                                            *)
(***************************************************************************)
EXTENDS Integers

CONSTANTS Threads, MaxRows

VARIABLES
  pool,     \* the rows nobody has taken in this phase
  mine,     \* mine[t]: the rows thread t has taken in this phase
  open      \* a phase is running

poolVars == <<pool, mine, open>>

Init ==
  /\ pool = {}
  /\ mine = [t \in Threads |-> {}]
  /\ open = FALSE

Open(total) ==
  /\ ~open
  /\ open' = TRUE
  /\ pool' = 0 .. (total - 1)
  /\ mine' = [t \in Threads |-> {}]

Take(t) ==
  /\ open
  /\ \E rows \in (SUBSET pool) \ {{}} :
       /\ pool' = pool \ rows
       /\ mine' = [mine EXCEPT ![t] = @ \union rows]
  /\ UNCHANGED open

Close ==
  /\ open
  /\ pool = {}
  /\ open' = FALSE
  /\ UNCHANGED <<pool, mine>>

Next ==
  \/ \E total \in 0 .. MaxRows : Open(total)
  \/ \E t \in Threads : Take(t)
  \/ Close

(* A phase that is open comes to its end. *)
Ends == open ~> ~open

Safety == Init /\ [][Next]_poolVars

Spec == Safety /\ Ends
===============================================================================
