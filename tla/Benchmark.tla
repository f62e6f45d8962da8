------------------------------- MODULE Benchmark -------------------------------
(***************************************************************************)
(* What a run of pqe_engine promises its user: the ten queries, each under *)
(* its title ("Q2: Filter (Quantity > 50 AND CategoryID == 10)"), every    *)
(* one counted twice, by the sequential engine and by the parallel one,    *)
(* and reported in order.  The exit code tells whether the reports can be  *)
(* relied on: a run that was asked for the queries and exits with 0 has    *)
(* reported all ten, one that exits with 1 has reported none.  A process   *)
(* that is ended by an exception may stop after any number of reports, and *)
(* has no exit code of main().                                             *)
(***************************************************************************)
EXTENDS Integers, Sequences, FiniteSets

VARIABLES
  file,      \* the rows of the dataset: [quantity, category]
  asked,     \* the command line wants the queries to run
  status,    \* "running", "exited" or "aborted"
  code,      \* what main() has returned
  report     \* the queries reported: <<sequential rows, parallel rows>>

benchmarkVars == <<file, asked, status, code, report>>

NoCode == -1

NumQueries == 10

(* What the title of query q says of a row; Q1, Q4 and Q9 take them all. *)
Titled(q, row) ==
  /\ q = 2 => row.quantity > 50 /\ row.category = 10
  /\ q \in {3, 8} => row.quantity > 50
  /\ q = 5 => row.category = 1
  /\ q = 6 => row.quantity > 90
  /\ q = 7 => row.quantity > 20 /\ row.category = 5
  /\ q = 10 => row.category = 20

Promised(q) == Cardinality({k \in DOMAIN file : Titled(q, file[k])})

Init == ~asked /\ status = "running" /\ code = NoCode /\ report = <<>>

Ask ==
  /\ status = "running" /\ report = <<>>
  /\ ~asked /\ asked'
  /\ UNCHANGED <<file, status, code, report>>

Report ==
  /\ status = "running" /\ asked
  /\ Len(report) < NumQueries
  /\ LET n == Promised(Len(report) + 1) IN report' = Append(report, <<n, n>>)
  /\ UNCHANGED <<file, asked, status, code>>

(* A run that succeeds has reported all queries, if it was to run them; one
   that cannot load its dataset has reported none.                          *)
Exit ==
  /\ status = "running" /\ status' = "exited"
  /\ \/ code' = 0 /\ Len(report) = IF asked THEN NumQueries ELSE 0
     \/ code' = 1 /\ report = <<>>
  /\ UNCHANGED <<file, asked, report>>

(* An exception that nothing catches ends the process. *)
Abort ==
  /\ status = "running" /\ status' = "aborted"
  /\ UNCHANGED <<file, asked, code, report>>

Next == Ask \/ Report \/ Exit \/ Abort

(* Every run ends. *)
Ends == status = "running" ~> status # "running"

Spec == Init /\ [][Next]_benchmarkVars /\ Ends
===============================================================================
