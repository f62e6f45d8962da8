-------------------------------- MODULE Engine --------------------------------
(***************************************************************************)
(* The program pqe_engine (main.cpp): arguments, the mapping of the        *)
(* dataset, its conversion to columns, a look at the first rows, the       *)
(* division into morsels, the sequential suite and the parallel one.  The  *)
(* reader, the table and the allocator are those of layer 1.  An operator  *)
(* of layer 3 is its answer: the rows a filter selects, each once, which   *)
(* is what OmpFilter is shown to return.                                   *)
(*                                                                         *)
(* main() handles no exception.  One that is thrown, by the conversion of  *)
(* an argument or by an allocation, in the parallel regions too, ends the  *)
(* process without running destructors.                                    *)
(***************************************************************************)
EXTENDS ColumnarTable, MorselAllocator, FiniteSets

CONSTANTS
  Main,          \* main's MmapReader
  Files,         \* datasets: sequences of rows [quantity, category]
  Inspections,   \* values of --inspect
  MorselSizes    \* values of --morsel-size

ASSUME EngineAssumption ==
  /\ Main \in Readers
  /\ \A f \in Files : f \in Seq([quantity : Int, category : Int]) /\ Len(f) <= MaxRows
  /\ MaxRows < RowMod   \* see SequentialQuery

VARIABLES
  stage,      \* where main() is
  config,     \* [inspect, morselSize, runQueries]
  file,       \* the dataset
  metrics,    \* rows_matched of q1 .. q10, as far as they have been run
  report,     \* the pairs handed to ParallelSpeedupMetrics
  exitCode

mainVars == <<stage, config, file, metrics, report, exitCode>>
vars == <<readerVars, tableVars, allocatorVars, mainVars>>

NoCode == -1

-----------------------------------------------------------------------------
(* The filters of the two suites: quantity > gt and category = cat. *)
NoBound == -1
AnyCategory == 0
Everything == [gt |-> NoBound, cat |-> AnyCategory]
QuantityGt(n) == [gt |-> n, cat |-> AnyCategory]
CategoryEq(c) == [gt |-> NoBound, cat |-> c]
Both(n, c) == [gt |-> n, cat |-> c]

SequentialSuite ==
  <<Everything, Both(50, 10), QuantityGt(50), Everything, CategoryEq(1),
    QuantityGt(90), Both(20, 5), QuantityGt(50), Everything, CategoryEq(20)>>

(* A variant with a bug: Q6 was copied from Q3. *)
BugCopiedQuery ==
  <<Everything, Both(50, 10), QuantityGt(50), Everything, CategoryEq(1),
    QuantityGt(50), Both(20, 5), QuantityGt(50), Everything, CategoryEq(20)>>

ParallelSuite ==
  <<Everything, Both(50, 10), QuantityGt(50), Everything, CategoryEq(1),
    QuantityGt(90), Both(20, 5), QuantityGt(50), Everything, CategoryEq(20)>>

(* The rows the loops of a filter find, over the n rows of a column. *)
Selection(f, n) ==
  {r \in 0 .. (n - 1) :
     /\ f.gt # NoBound => file[r + 1].quantity > f.gt
     /\ f.cat # AnyCategory => file[r + 1].category = f.cat}

(* The length of the column that bounds the loop of a sequential filter. *)
Quantity == 3
Category == 6

Bound(f) ==
  CASE f.gt # NoBound -> columns[Quantity]
    [] f = Everything -> RowCount
    [] OTHER -> columns[Category]

-----------------------------------------------------------------------------
Init ==
  /\ ReaderInit /\ TableInit
  /\ totalRows = 0 /\ morselSize = DefaultMorselSize /\ morsels = <<>> /\ cursor = 0
  /\ stage = "args" /\ exitCode = NoCode
  /\ file \in Files
  /\ config = [inspect |-> 0, morselSize |-> 0, runQueries |-> FALSE]
  /\ metrics = <<>> /\ report = <<>>

(* main() is at stage s and goes on to t. *)
Step(s, t) ==
  /\ stage = s /\ stage' = t
  /\ UNCHANGED <<file, exitCode>>

(* A variant with a bug: the code of a failure is dropped. *)
BugNoCode(s, code) ==
  /\ stage = s /\ stage' = "return"
  /\ UNCHANGED <<exitCode, file, config, metrics, report>>

(* A return statement of main(). *)
Leave(s, code) ==
  /\ stage = s /\ stage' = "return"
  /\ exitCode' = code
  /\ UNCHANGED <<file, config, metrics, report>>

Help == Leave("args", 0) /\ UNCHANGED <<readerVars, tableVars, allocatorVars>>

ParseArgs ==
  /\ Step("args", "open")
  /\ config' \in [inspect : Inspections, morselSize : MorselSizes, runQueries : BOOLEAN]
  /\ UNCHANGED <<readerVars, tableVars, allocatorVars, metrics, report>>

(* MmapReader reader; reader.open(data_path) *)
OpenDataset ==
  /\ \/ OpenSucceeds(Main, Fresh) /\ Step("open", "load")
           /\ UNCHANGED <<config, metrics, report>>
     \/ OpenFails(Main, Fresh) /\ Leave("open", 1)
  /\ UNCHANGED <<tableVars, allocatorVars>>

(* The bytes of the file are those of the dataset. *)
Load ==
  /\ \/ LoadSucceeds(reader[Main], Len(file)) /\ Step("load", "inspect")
           /\ UNCHANGED <<config, metrics, report>>
     \/ LoadFails(reader[Main]) /\ Leave("load", 1)
  /\ UNCHANGED <<readerVars, allocatorVars>>

(* The rows that are shown: min(inspect_count, row_count()) of them. *)
Inspected ==
  0 .. ((IF config.inspect < RowCount THEN config.inspect ELSE RowCount) - 1)

Inspect ==
  /\ Step("inspect", IF \E i \in Inspected : GetRowThrows(i) THEN "aborted"
                                                            ELSE "partition")
  /\ UNCHANGED <<readerVars, tableVars, allocatorVars, config, metrics, report>>

PartitionTable ==
  /\ Step("partition", IF config.runQueries THEN "sequential" ELSE "shutdown")
  /\ Partition(RowCount, config.morselSize)
  /\ UNCHANGED <<readerVars, tableVars, config, metrics, report>>

(* One block of run_sequential_queries().  The loop of a sequential filter
   compares a row_id_t with a size: it ends when the size is below RowMod.  *)
SequentialQuery ==
  LET f == SequentialSuite[Len(metrics) + 1]
  IN  /\ Step("sequential", IF Len(metrics) = 9 THEN "parallel" ELSE "sequential")
      /\ f # Everything => Bound(f) < RowMod
      /\ metrics' = Append(metrics, Cardinality(Selection(f, Bound(f))))
      /\ UNCHANGED <<readerVars, tableVars, allocatorVars, config, report>>

(* One block of run_parallel_queries(); its filters take RowCount rows from
   an allocator of their own.                                                *)
ParallelQuery ==
  LET q == Len(report) + 1
  IN  /\ Step("parallel", IF q = 10 THEN "shutdown" ELSE "parallel")
      /\ report' = Append(report,
           <<metrics[q], Cardinality(Selection(ParallelSuite[q], RowCount))>>)
      /\ UNCHANGED <<readerVars, tableVars, allocatorVars, config, metrics>>

(* table.clear(); return 0 *)
Shutdown ==
  /\ ClearTable
  /\ Leave("shutdown", 0)
  /\ UNCHANGED <<readerVars, allocatorVars>>

(* The destructors of what main() has constructed. *)
Unwind ==
  /\ stage = "return" /\ stage' = "exited"
  /\ IF reader[Main].live THEN Destroy(Main) ELSE UNCHANGED readerVars
  /\ ClearTable
  /\ morsels' = <<>> /\ UNCHANGED <<totalRows, morselSize, cursor>>
  /\ UNCHANGED <<config, file, metrics, report, exitCode>>

(* A variant with a bug: a handler around the suites prints what it has
   caught and goes on to the end of main().                                 *)
BugSwallow ==
  /\ stage \in {"sequential", "parallel"}
  /\ stage' = "shutdown"
  /\ UNCHANGED <<readerVars, tableVars, allocatorVars>>
  /\ UNCHANGED <<config, file, metrics, report, exitCode>>

(* std::terminate(): the system takes back what the process had. *)
Throw ==
  /\ stage \in {"args", "open", "load", "inspect", "partition", "sequential", "parallel"}
  /\ stage' = "aborted"
  /\ UNCHANGED <<readerVars, tableVars, allocatorVars>>
  /\ UNCHANGED <<config, file, metrics, report, exitCode>>

Run ==
  \/ Help \/ ParseArgs \/ OpenDataset \/ Load \/ Inspect \/ PartitionTable
  \/ SequentialQuery \/ ParallelQuery \/ Shutdown \/ Unwind \/ Throw

Over == stage \in {"exited", "aborted"} /\ UNCHANGED vars

Next == Run \/ Over

(* The main thread keeps running. *)
Spec == Init /\ [][Next]_vars /\ WF_vars(Run)

-----------------------------------------------------------------------------
(* The types of the variables; there is an exit code once main() returns, and
   the suites run one after the other.                                       *)
TypeOK ==
  /\ reader \in [Readers -> ReaderStates]
  /\ fds \subseteq Descriptors /\ maps \subseteq Addresses
  /\ columns \in [Columns -> 0 .. MaxRows] /\ ~torn
  /\ stage \in {"args", "open", "load", "inspect", "partition", "sequential",
                "parallel", "shutdown", "return", "exited", "aborted"}
  /\ config \in [inspect : Inspections \union {0}, morselSize : MorselSizes \union {0},
                 runQueries : BOOLEAN]
  /\ exitCode \in IF stage \in {"return", "exited"} THEN {0, 1} ELSE {NoCode}
  /\ Len(metrics) \in 0 .. 10
  /\ report # <<>> => Len(metrics) = 10

(* Whichever return statement main() takes, and whether the dataset was
   missing, empty, unreadable or loaded, the destructors leave nothing open
   or mapped, although main() never calls close().                           *)
ReleasedOnExit == stage = "exited" => fds = {} /\ maps = {}

B == INSTANCE Benchmark
  WITH asked <- config.runQueries,
       status <- IF stage \in {"exited", "aborted"} THEN stage ELSE "running",
       code <- IF stage = "exited" THEN exitCode ELSE NoCode

(* Each query counts what its title says, by both engines, and is compared
   with its own counterpart.  An exit code of 0 vouches for the reports: if
   the queries were to be run, all ten are there.  With 1 there is none, and
   where an exception stops the program in the middle of its reports, there
   is no code.  And every run ends.                                         *)
ImplementsBenchmark == B!Spec
===============================================================================
