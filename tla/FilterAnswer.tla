----------------------------- MODULE FilterAnswer -----------------------------
(***************************************************************************)
(* What a filter promises its caller.  The reference is the sequential     *)
(* engine (src/layer3_execution/sequential/seq_filter.cpp): the rows of    *)
(* the input that satisfy the predicate, in the order of the input.  A     *)
(* parallel filter may return them in any order, each of them once.        *)
(***************************************************************************)
EXTENDS SelectionVector

CONSTANTS MaxRows

VARIABLES
  busy,      \* a call is running
  input,     \* the rows to look at: the whole table or a selection
  matches,   \* the rows that satisfy the predicate
  answer     \* what the last call returned

filterVars == <<busy, input, matches, answer>>

(* The loop of SeqFilter::filter and filter_subset. *)
SequentialAnswer(rows, good) == PushMatches(<<>>, rows, 1, Len(rows), good)

IsRearrangement(s, u) ==
  /\ Len(s) = Len(u)
  /\ \A k \in DOMAIN u : Occurrences(s, u[k]) = Occurrences(u, u[k])

Init ==
  /\ busy = FALSE
  /\ input = <<>>
  /\ matches = {}
  /\ answer = <<>>

Call ==
  /\ ~busy
  /\ busy' = TRUE
  /\ \A k \in DOMAIN input' : input'[k] \in 0 .. (MaxRows - 1)
  /\ matches' \subseteq 0 .. (MaxRows - 1)
  /\ answer' = <<>>

Return ==
  /\ busy
  /\ busy' = FALSE
  /\ IsRearrangement(answer', SequentialAnswer(input, matches))
  /\ UNCHANGED <<input, matches>>

(* Every call returns. *)
Returns == busy ~> ~busy

Spec == Init /\ [][Call \/ Return]_filterVars /\ Returns
===============================================================================
