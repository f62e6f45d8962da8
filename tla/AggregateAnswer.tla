---------------------------- MODULE AggregateAnswer ----------------------------
(***************************************************************************)
(* What an aggregation promises its caller, with the sequential engine     *)
(* (seq_aggregator.cpp) as the reference.                                  *)
(*                                                                         *)
(* A sum is represented by what went into it, the number of times each row *)
(* was added: two sums of different additions are different values, so the *)
(* sum is right for whatever column or expression the query adds up.       *)
(***************************************************************************)
EXTENDS Integers, Sequences, FiniteSets

CONSTANTS MaxRows

VARIABLES
  busy,      \* a call is running
  kind,      \* "price" for COUNT, SUM, AVG, MIN and MAX; "sum" or "intSum"
  input,     \* the rows to aggregate, in order
  price,     \* the price column
  answer     \* what the last call returned: [count, sum, min, max]

aggregateVars == <<busy, kind, input, price, answer>>

Rows == 0 .. (MaxRows - 1)

NoAnswer == [count |-> 0, sum |-> [r \in Rows |-> 0], min |-> 0, max |-> 0]

(* How often the loops of SeqAggregator add row r. *)
TimesAdded(r) == Cardinality({k \in DOMAIN input : input[k] = r})

Prices == {price[input[k]] : k \in DOMAIN input}

SumAgrees == answer'.sum = [r \in Rows |-> TimesAdded(r)]

CountAgrees == answer'.count = Len(input)

MinAgrees == answer'.min \in Prices /\ \A p \in Prices : answer'.min <= p

MaxAgrees == answer'.max \in Prices /\ \A p \in Prices : answer'.max >= p

Init ==
  /\ busy = FALSE
  /\ kind = "sum"
  /\ input = <<>>
  /\ price = [r \in Rows |-> 0]
  /\ answer = NoAnswer

Call ==
  /\ ~busy
  /\ busy' = TRUE
  /\ kind' \in {"price", "sum", "intSum"}
  /\ answer' = NoAnswer

(* The extrema are promised of an input that is not empty. *)
Return ==
  /\ busy
  /\ busy' = FALSE
  /\ SumAgrees
  /\ kind = "price" =>
       /\ CountAgrees
       /\ input # <<>> => MinAgrees /\ MaxAgrees
  /\ UNCHANGED <<kind, input, price>>

(* Every call returns. *)
Returns == busy ~> ~busy

Spec == Init /\ [][Call \/ Return]_aggregateVars /\ Returns
===============================================================================
