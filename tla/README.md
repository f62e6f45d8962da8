# A TLA+ model of the Parallel Query Execution Engine

The engine maps a CSV file into memory, loads it into a columnar table, and runs
ten queries over it twice: with a sequential engine, and with OpenMP teams that
take *morsels* of rows from a shared allocator. This directory models every part
of it that keeps or shares state, from the mapped file to the exit of the program;
checks the models with TLC on small instances; and proves the central properties
with TLAPS for all instances.

Paths below are those of the repository (`src/` is its C++ source directory,
`include/pqe/` its headers).

## 1. Inventory

| Component | State | Operations | Interacts with |
|---|---|---|---|
| `MorselAllocator` (layer 1) | `total_rows_`, `morsel_size_`, `morsels_`, atomic `next_morsel_idx_` | `partition`, `reset`, `get_next_morsel`, `remaining_morsels` | shared by all threads of a region; built by every full-table operator |
| `ColumnarTable` (layer 1) | seven column vectors | `reserve`, `clear`, `push_back`, `get_row`, `memory_usage_bytes`, `load_from_mmap` | reads a `MmapReader`; read-only during queries |
| `MmapReader` (layer 1) | `data_`, `size_`, `filepath_`, `impl_` with a descriptor | `open`, `close`, `advise_sequential`, move | operating system |
| `SeqScan` (layer 3) | the bounds and the position of an iterator | constructors, `has_next`, `next`, `reset`, `for_each` | refers to a table |
| `SeqFilter`, `SeqAggregator`, `SeqGroupBy` (layer 3) | none beyond the call | full-table and selection forms | reference answers for the parallel operators |
| `OmpScan` (layer 3) | none beyond the region | `for_each` | allocator |
| `OmpFilter` (layer 3) | per call: `thread_results`, a local vector per thread | `filter`, `filter_subset`, three specialised forms | allocator, or `omp for`; `omp single` with its barrier |
| `OmpAggregator` (layer 3) | per call: up to four `AtomicAccumulator`s, locals per thread | `count`, `sum_*`, `aggregate_price`, `sum_net_sales`, and vectorized forms | allocator or `omp for`; accumulators |
| `OmpGroupBy` (layer 3) | per call: `thread_maps`, `final_map` | `group_by_category`, `_sorted` | allocator or `omp for` |
| `AtomicAccumulator` (layer 4) | one atomic | `add`, `update_min`, `update_max`, `load` | aggregator |
| `SPSCRingBuffer` (layer 4) | slots, `head_`, `tail_` | `push`, `pop` | not used elsewhere |
| `SpinLock`, `ConcurrentShardedMap` (layer 4) | a flag per shard, a map per shard | `lock`, `try_lock`, `unlock`; `update`, `gather_all` | not used elsewhere |
| Telemetry (layer 5) | start times | timers, reports | main |
| `main.cpp` | its stage, the arguments, the metrics of ten queries | command line, open, load, inspect, partition, two query suites, clean-up | everything |

**How they interact.** A query is a call on the caller's thread. It opens one
parallel region; each thread of the team takes morsels from the allocator (one
`fetch_add` each) or chunks from the OpenMP runtime, works on them into
variables of its own, and hands its part over: to a slot of a vector (filter,
group-by) or to shared accumulators (aggregation). The region's closing barrier
joins the team and the caller combines what is left. The table is read-only
during queries. Around the queries `main` opens the dataset with a `MmapReader`, copies it
into the table, and hands the row counts of the sequential suite to the reports of
the parallel one. Nothing is persisted and there are no messages.

**What is hard.** The order of the `fetch_add`s; the end of the allocation, which
every thread overshoots; rounding and wrap-around in `partition()`; the resize of
the result vector by one thread against the publication by others; compare-and-swap
loops that must neither lose a value nor spin for ever; what a stale acquire load
may return; a gather that goes on while threads update; system calls and
allocations that fail in the middle of an operation, after which objects are closed,
reused, moved or destroyed; a query suite that is written out twice. `PROJECT.json` lists each
of these hazards with its line and the properties that cover it.

**What makes each part correct.** Allocator: every row once, to one thread, and a
phase that ends. Operators: the sequential answer, up to the order a parallel run
may change, and no intermediate state in which a row is lost or doubled. Ring
buffer: a bounded queue without data races. Sharded map: mutual exclusion per
shard, no lost update, a gather between two states of the map. Reader: every
descriptor and mapping released once and none forgotten. Table: whole rows as long
as no allocation has failed, and no column longer than an earlier one even then. Scan: rows
of its table only, as long as the table is only added to. Program: each query counts what its title
says; an exit code of 0 vouches for all ten reports, one of 1 for none (an uncaught
exception may stop a run between two reports, and leaves no exit code); every exit releases everything.

## 2. The modules

| Module | What it is |
|---|---|
| `CoreTypes` | the widths of `size_t` and `row_id_t` as constants |
| `SelectionVector` | what a loop appends to a vector of row identifiers, and how often one holds a row |
| `MorselAllocator` | the allocator's variables and operations |
| `WorkPool` | abstract: a pool of rows that threads take from, and a phase that ends when it is empty |
| `MorselDispatch` | the allocator with a team around it, phase after phase (`OmpScan::for_each` and every full-table loop); refines `WorkPool` |
| `OmpTeam` | the constructs of a region whose threads publish in slots: fork, `single`, barriers, `omp for`'s end, join, the slots |
| `WorkSharing` | morsels of the table, in its order, or chunks of a selection from `omp for schedule(dynamic, 10000)`, in any order |
| `FilterAnswer`, `OmpFilter` | what a filter returns (from `seq_filter.cpp`), and the five parallel filters, which refine it |
| `AtomicAccumulator` | the atomic and its loops, one step per load and per compare-and-swap |
| `AggregateAnswer`, `OmpAggregator` | what an aggregation returns (from `seq_aggregator.cpp`), and the scalar parallel forms, which refine it |
| `SimdAggregator` | the AVX2 and NEON forms: lanes, the rest of the rows, horizontal reductions, merges |
| `GroupAnswer`, `OmpGroupBy` | what a grouping returns (from `seq_group_by.cpp`), and the parallel one, which refines it |
| `BoundedFifo`, `SPSCRingBuffer` | a bounded queue, and the ring buffer, which refines it |
| `SpinLock`, `ConcurrentShardedMap` | the lock's flag, and the sharded map with its updating threads and a gathering reader |
| `MmapReader` | readers with their `Impl`, and the descriptors and mappings of the process |
| `ColumnarTable` | the lengths of the seven columns, under allocations that fail |
| `SeqScan` | the iterator of the sequential engine |
| `StorageClient` | composes the three: a program that calls their operations in any order |
| `Benchmark`, `Engine` | what a run of `pqe_engine` promises, and `main()` with its reader, table and allocator, which refines it |
| `CommonLemmas` | lemmas that are not about the code: induction, sums over finite sets, tiles of an interval, and divisions of one in any order |
| `MorselDispatchProofs`, `OmpFilterProofs`, `OmpAggregatorProofs`, `SimdAggregatorProofs`, `OmpGroupByProofs` | the theorems about the module each is named after |
| `ConcurrencyProofs` | those about the ring buffer and the sharded map |
| `EngineProofs` | those about the storage layer and the program |
| `MC...` | instances for TLC |

A module's actions carry the names of the code's functions or of the statement
they stand for, and the comment above says which. `PROJECT.json`, under `map`,
gives the lines of each definition. Definitions named `Bug...` are single plausible
mistakes; no specification uses them. Each property is known to be violated when
the definition after a `Bug...` is replaced by it, which shows that the property
depends on that line of the code.

**State and actions, where they are not one to one.** `MmapReader.reader[r]` is the object
with its `Impl`: `impl` says whether the `unique_ptr` holds one, `fd` is the `Impl`'s
descriptor, `data` and `size` are the plain members, which the defaulted moves copy.
`Closing` is `close()`; `OpenFails` and `OpenSucceeds` are the whole of `open()`, with
the `close()` it begins with and the second one on a failure of `fstat` or `mmap`.
`lostFds` and `lostMaps` are ghosts: what an `Impl` held that was deleted without
`cleanup()`. A column of `ColumnarTable` is its length, so `PushBackThrows` is a choice
of the column that could not grow; `torn` is a ghost that remembers such a failure.
`SeqScan.stale` is a ghost as well: the table shrank under the scan. `Engine.stage` is the
place in `main()`; `OpenDataset`, `Load` and `ClearTable` are the operations of the layer 1 modules,
`SequentialQuery` and `ParallelQuery` one block of a suite each, `Unwind` the
destructors of `main`'s locals, and `Throw` the exceptions nothing catches.

**How data is abstracted.** A predicate is the set of rows that satisfy it. A sum
is represented by how often each row was added, so that the result holds for every
column and every expression, and rounding is out of sight. Threads of a region are
`0 .. numThreads-1`. A row read inside a loop body, and a write to a thread's own
variable, is part of the step that took the morsel: the table does not change and
nobody else sees the variable.

**OpenMP is external.** `schedule(dynamic, n)` hands out chunks, each once, and
`WorkSharing` represents that by the allocator's variables. Since OpenMP 5.0 such a
loop without the `monotonic` modifier is nonmonotonic: a thread may be given
a chunk that lies before one it has had. So `ShareLoop` chooses any order of the
chunks when the loop begins, whereas the allocator's cursor grows. `schedule(static)` gives each thread one run of
iterations; `SimdAggregator` allows every division into runs. A region's team has
any size up to `MaxThreads`.

**Memory order.** The allocator's cursor (`acq_rel` in `fetch_add`) and the accumulators
are single atomics, whose read-modify-writes are totally ordered whatever their memory order;
results are read after the region's barrier. In the ring buffer the order matters, and an acquire
load may return any value its index has had since the last one the thread saw. That
covers stale indices. What the model takes from the code's pairs of acquire and release,
without examining it, is that a slot's contents are visible once its index is: it would not
tell a relaxed load in place of an acquire.

## 3. The runs

| Run | Question | Instance |
|---|---|---|
| `dispatch` | Does every row reach exactly one thread, in every phase, and does every phase end? | 3 threads (symmetric, but checked without symmetry because liveness is), tables of 0, 1, 4, 5 rows, morsels of 2 (default), 1, 3; sizes of 16 values, rows of 8 |
| `dispatch_wide` (*violation*) | The same when the morsel size is near the largest `size_t` | size 15 of 16 |
| `filter` | Is the parallel filter the sequential one? | teams of 1-3, 5 rows, every predicate, four selections, one of them with a row twice, their chunks in every order |
| `aggregator` | Are the shared accumulators exact under every interleaving of their loops? | teams of 1-3, 3 rows, two columns (ties, a negative price), three selections, chunks in every order |
| `simd` | Do the vectorized forms drop or double a row between lane, scalar and accumulator? | teams of 1-2, both architectures, tables of 0, 3, 10, 17 rows, the extrema in every lane |
| `simd_max` (*violation*) | Is the AVX2 maximum the maximum? | as above, AVX2, 10 rows |
| `group_by` | Is the parallel grouping the sequential one? | teams of 1-3, 4 rows, two categories, two tables, three selections, chunks in every order |
| `ring_buffer` | Is the ring a queue with stale views? | four slots, three items, no bound on the calls |
| `sharded_map` | Mutual exclusion, no lost update, an honest gather, every call returns | 2 threads, 2 updates each, 3 keys in 2 shards |
| `storage` | Is a descriptor or mapping ever released twice, or under another owner, or forgotten? Are rows whole until an allocation fails, and scans inside a table that only grows? | 2 readers, 2 descriptors, 2 addresses, empty and non-empty files, tables up to 2 rows, 3 row identifiers, every call sequence and every failure |
| `engine` | Does every run of the program report queries rightly and in order, tell by its exit code whether all ten or none are there, end, and leave nothing open? | 61 datasets of up to 3 rows, with and without queries, inspections of 0, 2 and 5 rows |
| `sharded_map_race` (*violation*) | Does `gather_all` ever look at a shard without its lock? | as `sharded_map` |

**Bounds.** The widths 16 and 8 put the wrap of the arithmetic within reach while
leaving the ordinary inputs inside. Three threads are enough for each of the roles an
interleaving of this code can have: one in the middle of a call, one that overtakes
it, one that has left. The tables of `dispatch` and `filter` go up to five rows in morsels of two, so
there is a partial last morsel and more morsels than some teams have threads. The
aggregator's three rows give three threads one row each, which is when all of them
compete for the accumulators. Ten rows are one AVX2 vector (two NEON ones) and a
rest. The ring has no call bound: its state space is finite. In the map
`MaxUpdates` bounds the calls.
Two readers are what it takes to give one reader the descriptor and the address that
another has just released, and two of each what it takes for both to be open. A table
of two rows can be torn in its first or a later row. `storage` bounds no sequence of
calls. Every query of the suite reads one row at a time, so a dataset that holds each
combination of a quantity at or just above a bound (20, 50, 90) and a category, alone
or in front of two fixed rows, shows every mistake in a bound or a category.

**Fairness.** Each thread of a region is weakly fair: the operating system runs
it, and no action of it waits for anything but other threads of the team. Nothing
obliges the program to call an operator, so no call action is fair. For the
compare-and-swap loops weak fairness is enough, since every failure is another
thread's success and each thread succeeds a bounded number of times. The spin lock
is not fair; `EveryCallReturns` holds because the calls are bounded, not because
the lock would prevent starvation under endless contention. In `Engine` the only
assumption is that the main thread keeps running (`WF_vars(Run)`): each of its steps
is one the code takes without waiting. `StorageClient` states no liveness: nothing
obliges a program to make a call.

**Deadlock** is checked in every run. The map's run ends in `Finished`, a step that
stutters when all calls of the run have been made, `Engine` in `Over`, the process
that has ended.

## 4. What the runs found

* `dispatch_wide`: `partition()` computes `(total_rows_ + morsel_size_ - 1) /
  morsel_size_` in `size_t` (`src/layer1_storage/morsel_allocator.cpp:30`). A morsel
  size above `SIZE_MAX - total_rows_ + 1`, which `--morsel-size` accepts, wraps the sum; no
  morsel is made and the rows are never handed out.
* `simd_max`: `hmax_ps` (`src/layer3_execution/parallel/omp_aggregator.cpp:33-41`)
  lacks the `_mm_max_ss` that `hmin_ps` and `hsum_ps` end with, so on AVX2 the
  maximum ignores lanes 2, 3, 6 and 7 of the vector.
* `sharded_map_race`: the comment in `gather_all` says that locking ensures absolute
  safety, but the loop that adds up the sizes
  (`include/pqe/layer4_concurrency/concurrent_hash_map.hpp:57-59`) takes no lock.

Two remarks that are no findings. The defaulted move assignment of `MmapReader`
(`include/pqe/layer1_storage/mmap_reader.hpp:19`) replaces the target's `Impl`, which has
no destructor, so what the target had open stays open; `README.md:70` calls the class an "RAII
abstraction". No code of the repository assigns a reader. `NothingForgotten` is stated
with this exception, and shows that it is the only one. The help text of
`main.cpp:38` offers `--run-queries`, which is not parsed (queries run by default),
and does not mention `--threads` and `--no-queries`, which are.

## 5. What is proved

Every theorem holds for all values of the constants that satisfy the named
assumptions; eight modules hold them. Every invariant a passing run checks is
also a theorem, and so is the safety part of every refinement.

**Method.** None of the important invariants is inductive as it stands; each module of
proofs begins with the invariant that is, in named parts, and a comment that says what
each part is for. Two kinds of step need an induction: sums over a team or over the
rows, and loops that the code runs inside one step. `CommonLemmas` has the means:
`SubsetInduction` and `UpwardInduction`, which are well-foundedness of the strict
subsets of a finite set and of the naturals applied to a *set* of good cases; what a
sum over a finite set becomes when one term changes (`SumTakeOut`, `SumChange`); and
that `partition()` divides its rows into tiles (`CutTiled`) and a dynamic loop divides
its iterations into chunks (`ChunksTiled`) whatever the order they come in
(`ReorderedDivided`), so that a step that takes the next one adds exactly its positions to
those seen (`BehindNext`) and nothing is left in the end (`BehindEnd`). For the same
reason the loops of the model are functions over an interval (`PushMatches`, `GroupRows`), and the
sorted answer of a group-by lists its categories in `Ascending` order.

**Allocator and dispatch.** `MorselDispatchProofs` proves, from `WidthAssumption`,
`DispatchAssumption`, `InputsInRange` (the rounding does not wrap and every row has an
identifier) and `TeamFits` (a `size_t` counts rows and threads):

* `TypeCorrect`: `Spec => []TypeOK`
* `NoRowTwice`: `Spec => []RowHandedOnce`
* `NoRowForgotten`: `Spec => []RegionDrainsTable`
* `NoWrapAround`: `Spec => []CursorOvershoot`
* `RemainingIsExact`: `Spec => []RemainingIsUntaken`
* `DispatchIsPool`: `Spec => Pool!Safety`, the dispatch implements `WorkPool`

The invariant `IInv` adds: the morsels tile the
table (`TilesOK`), every index a thread was given is behind the cursor
(`BehindCursor`), no index was given twice (`GivenOnce`), every index behind the
cursor was given (`NothingSkipped`), and the cursor is past the end by at most the
number of threads that have been told so (`OvershotOK`). That `InputsInRange` cannot
be dropped is what `dispatch_wide` shows. Under the invariant a fork fills the pool
because the morsels tile the table, a fetch takes rows nobody else can take because tiles are
disjoint, and the last thread to leave finds the pool empty.

**The operators' assumptions.** `FilterAssumption`, `AggregatorAssumption` and
`GroupByAssumption` say that every row of a table has a `row_id_t`, that a `size_t`
counts a default morsel or a team beyond the rows of any table (2^64 against 2^32),
and that a selection holds rows of the table, no more of them than the table has. Prices lie
strictly between the two infinities and categories are integers. A selection may hold
a row twice: the invariants count occurrences. `SimdAssumption` is the same without the
widths, since the static loop has no cursor.

**Filter.** `OmpFilterProofs`:

* `FilterTypeCorrect`, `SlotsAreThere`: `TypeOK`, `PublishInBounds`
* `NothingLostOrDoubled`: `MatchesHeldOnce`, between scan, move and concatenation
* `SlicesOrdered`: `SlicesInOrder`, in a whole-table filter each thread's slice has ascending rows.
  Of a selection no such thing holds, since the chunks come in any order
* `AnswersAreRearranged`: every step is a call or a return of `FilterAnswer` or none, the
  safety part of `ImplementsSequentialFilter`

The invariant has two halves. `TeamInv` follows the `single`: once entered, its thread is
still at the resize or the slots are the team's, and nobody is beyond the barrier
while somebody is before it. `FilterInv` has the division of the input, which for a whole table are tiles in
the table's order, and a cursor that overshoots by no more than the threads that are done with the loop (`WorkShared`), a slot that is empty
until its thread's move and a local vector that is empty after it (`SlotsFilled`), and, for the
order of a whole-table filter, that what a slice holds are rows of the positions seen (`SlicesSeen`): the
next morsel lies behind all of them.

**Scalar aggregations.** `OmpAggregatorProofs`:

* `AggregatorTypeCorrect`: `TypeOK`
* `NothingAddedTwice`: `SumConserved`, under every interleaving of the exchange loops
* `ExtremaExact`: `ExtremaTrack`
* `AnswersAreSequential`: the safety part of the refinement of `AggregateAnswer`

Here not even the types are inductive: that a count stays within the rows of a table rests on its
conservation. Besides `WorkShared` the invariant says that the counts are conserved as the sums are
(`CountConserved`), that the value a thread loaded before its exchange is no better than the shared extremum
(`StaleIsWorse`, hence a thread that leaves the loop without storing loses nothing), that the accumulators
are the best of what was offered (`ExtremaMerged`), and that what is offered are the prices
of rows that were met (`PricesMet`).

**Vectorized aggregations.** `SimdAggregatorProofs`, for AVX2 and NEON and every division
of the loop among the threads:

* `SimdTypeCorrect`, `SimdSumExact`, `SimdMinimumExact`: `TypeOK`, `SumConserved`, `MinimumTracked`
* `SimdAnswersAreSequential`: each return has the sequential sum and count, the minimum, and
  on NEON the maximum. On AVX2 the maximum is wrong (`simd_max`), and the theorem does not claim it.

`ThreadsHold` says that the lanes and scalars of a thread hold the rows of its own turns, `ExtremaHeld`
the same for the extrema; `SumsMerged`, `CountsMerged` and `ExtremaMerged` that the accumulators have what the
threads beyond the merge had. The lemmas `HSumIs`, `HMinIs` and `HMaxIs` show what the
horizontal reductions do to all lanes, shuffle by shuffle.

**Group-by.** `OmpGroupByProofs`:

* `GroupByTypeCorrect`: `TypeOK`
* `RowsCountedOnce`: `RowsGroupedOnce`, over local maps, slots and the final map
* `GroupsAgree`: `GroupsConsistent`
* `AnswersAreSequential`: the safety part of `ImplementsSequentialGroupBy`, with the order
  of the sorted form

The team and its slots are the filter's. In addition every group of every map agrees with
itself (`MapsSound`): its count is the number of its rows, its extrema are attained by one of them and
beaten by none. A merge keeps this and adds the multiplicities, so that at the end each
group is the one of all rows of its category. That no count exceeds the rows of the table follows for the maps that
are still live; the slots already merged keep what they had.

**Ring buffer.** `ConcurrencyProofs`, from `RingAssumption` alone:

* `RingTypeCorrect`, `ViewsStayInOrder`, `SlotsRaceFree`: `RingTypeOK`, `ViewsInOrder`, `NoDataRace`
* `RingIsFifo`: `RingSpec => ImplementsFifo`, the whole refinement of `BoundedFifo`

Its invariant adds to the order what the program counters know: a producer past its
test sees room behind it, a consumer past its test sees an item ahead of it. The
window in which a stale load may fall only moves forward, so what a thread knows
stays true until it acts. For the refinement the contents run from the slot the
consumer reads next to `tail`: the store of `tail` appends the item (which `Written`
says is in its slot), the move out of a slot takes the first, and all other steps stutter.

**Sharded map.** `ConcurrencyProofs`, from `MapAssumption` (there are shards and keys,
finitely many keys and threads, and a hash function):

* `MapTypeCorrect`, `ShardsExclusive`, `GatherIsBetween`: `TypeOK`, `OneHolder`, `GatheredInBetween`
* `NothingLost`: `NoLostUpdate`, every call that has returned is in the map

A flag is set exactly when somebody is inside (`Locked`), and no two are inside one
shard (`Exclusive`). Hence the value an updater has read is current when it
stores (`ReadIsCurrent`), counts only grow, and what has been gathered stays between the
map at the call and the map now. A store raises the sum of all counts by one, and with it the
number of updates that are past their store.

**Storage.** `EngineProofs`, for any number of readers, descriptors and addresses:

* `Typed`, `OneOwner`, `NoneForgotten`, `WholeRows`, `ScansInTable`: `ClientTypeOK`,
  `OwnedOnce`, `NothingForgotten`, `RowsWhole`, `ScanInTable`

`OwnedOnce` and `NothingForgotten` are inductive only together (`ReaderInv`): that what
is opened anew has no other owner follows from everything that is in use being owned, and that
a release leaves nothing behind from its having had one owner. `RowsWhole` (which excepts a table whose `push_back` has failed
from columns of one length) compares neighbouring columns; the invariant compares all pairs, since a failure may stop at any column.

**Program.** `EngineProofs`, for every set of datasets that are sequences of rows, fit
the table, and have fewer than `RowMod` rows:

* `EngineTypeCorrect`, `EverythingReleased`: `TypeOK`, `ReleasedOnExit`
* `ReportsArePromised`: `Spec => Promises`, the safety part of `Benchmark`: what is reported is
  right and in order, and the exit code vouches for it, all ten for 0 (none, if no
  queries were asked for) and none for 1. A run that an exception ends may
  have reported any number, and has no exit code

Query by query the suites' filters are the titles' (`SuiteKeepsTitles`); the loops
count rows from zero and sequences from one (`ShiftedCount`); and between a load that
succeeded and the clean-up all columns have the dataset's length, whichever of them bounds a loop.

**Only model-checked.** Liveness, which is out of TLAPS's reach: that regions, calls and
runs end, in `ImplementsPool`, in `ImplementsSequentialFilter` and its kin, `EveryCallReturns`
and `Benchmark!Ends`. And the three violations of section 4, which are counterexamples.

## 6. Not modelled, and why

* Telemetry and `app_config.hpp`: clocks, quotients and constants; there is no state a
  property could relate.
* The Win32 branch of `mmap_reader.cpp`, and `advise_sequential`, which is advice.
* A file that changes or is truncated while it is mapped: the code cannot notice.
* `munmap("")` after an `mmap` that fails on a reader whose last file was empty: the
  model takes the call to fail, as it does for an address that starts no page.
* Number parsing, CSV tokens, output, timing: data the properties do not look at. The bytes of
  a file are its number of well-formed lines, or the rows of a dataset.
* The number of threads, which only the runtime interprets: the operators are modelled
  for every team it may choose.
* Rounding of floating-point sums, also where the vectorized forms add in `float`; NaN
  prices, for which comparisons are all false; the signed indices of the AVX2 gather.
* `partition()` and `reset()` of an allocator that threads are taking from: its users
  never do that, and nothing in the code would keep rows from being handed out twice.
* An updater that calls `update()` of the same map: it would wait for its own thread.
* A ring buffer of capacity `SIZE_MAX`, whose number of slots is zero.
* Allocation failure inside a region ends the program; `Engine` has that step (`Throw`), the
  operators' own modules do not.
* Scripts, build files, dashboards, and `architecture_blueprint.md`, which describes
  intentions beyond the code.

## 7. Plan

Done in this order: the allocator with its dispatch and its proofs, because every
operator rests on it; the operators, each against its sequential reference; the
accumulators; the vectorized forms; the concurrent structures of layer 4; the storage
layer under any program; the program itself; the theorems about the dispatch, layer 4,
the storage layer and the program; and the theorems about the operators, which needed
the lemmas about sums and tiles.

What could follow: the Win32 branch of the reader beside the POSIX one, and a run of
`Engine` whose parallel queries are the steps of `OmpFilter` rather than its answer.
