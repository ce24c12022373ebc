# A TLA+ development for xorq-datafusion

xorq-datafusion wraps the DataFusion query engine for Python. Most of its Rust
code hands calls through; what is its own is the boundary: blocking Python
readers behind asynchronous streams, Python predicates behind SQL filters,
foreign table providers behind weak references, Python accumulators and
evaluators behind the engine's operators, calls that re-enter the runtime from
Python code it is running, and object stores registered by racing tasks. This
directory models that boundary. TLC checks the models on small instances, and
TLAPS proves the central properties for all instances.

Contents: [inventory](#1-inventory) · [plan](#2-plan) ·
[modules](#3-modules-and-their-correspondence-to-the-code) ·
[runs](#4-runs) · [where code and comments disagree](#5-where-code-and-comments-disagree) ·
[proofs](#6-proofs) · [limits](#7-what-is-only-model-checked-and-what-is-not-modelled).

Paths are relative to the repository: `utils.rs` is `src/utils.rs`.

## 1. Inventory

| Component | State | Operations | What makes it correct |
|---|---|---|---|
| Stream bridge (`utils.rs`) | per stream: demand semaphore, bounded channel, coordinator task, pull thread or pool round, the reader closure; per process: speculation and affine budgets, runtime | poll, drop, abort, take credit, reserve a slot, dispatch and end a round, pull, panic, shutdown | batches in order, none lost or repeated; no silent truncation; bounded read-ahead; the reader's contract; budgets that never leak; polls answered, drops released |
| Filter pushdown (`dataset.rs`, `ibis_table.rs`, `provider.rs` and the two `*_filter_expression.rs`) | none beyond the plan | classify filters, translate, scan | a filter declared Exact keeps exactly SQL's rows; scan is only given what it can translate |
| FFI table host (`ffi_table_provider.rs`) | fallback task context behind a lock, weak reference to the session | import, pushdown check, scan, insert, deregister | codec always usable, session never kept alive, fallback bounded |
| File-table registration (`context.rs`, `object_storage.rs`) | options extensions, object stores, tables of a session | register_parquet, register_csv, get_object_metadata, deregister_table | a table reported as registered can be read, whatever other calls do |
| Aggregates (`udaf.rs`) | one Python accumulator per partition and group | update, state, merge, evaluate, retract | each row counts once, in every state field; over a window, each row of the frame |
| Window functions (`udwf.rs`, frames in `expr/window.rs`) | one Python evaluator for all partitions | the methods of `RustPartitionEvaluator` | a row's value is the one its partition alone would give, whenever rows arrive |
| Scalar functions (`udf.rs`, `make_scalar_function`) | none | call a Python function on a batch | every row gets the value of its own arguments |
| Runtime and re-entry (`utils.rs`, `lib.rs`) | global runtime, the GIL, cores and pool threads | wait_for_future, get_tokio_handle, spawn, close | nobody waits with the GIL; every call comes back |
| Batch iterator (`record_batch.rs`) | stream behind an async mutex | next, `__anext__` | reads do not wait for one another |
| Record-batch reader table (`py_record_batch_provider.rs`) | a Python object with an Arrow stream | register with a sort order, open, pull | a reader that is used up is an error, never an empty table; the claimed order is true |
| Scan schemas (`dataset_exec.rs`, `ibis_table_exec.rs`, `check_batch_schema`) | the schemas declared, advertised and delivered | scan, pull, check, project | batches have the columns that the plan advertises |
| Session, catalog, DataFrame (`context.rs`, `catalog.rs`, `dataframe.rs`) | tables by name, frames, runs | register, deregister, table, combine, run, cache | a run that ends well has read each of its sources from first batch to last |
| Expression readings (`expr.rs`, `expr/*`) | none | rex_type, rex_call_operands, rex_call_operator, to_variant, types | what a client that walks operands finds, and what it cannot: columns in clauses, types of casts, escape characters |
| Type tables (`common/data_type.rs`) | none | conversions between Arrow, SQL, Python and names | conversions keep the Python type and never lead into a dead end |
| Plans, SQL, optimizer | the engine's | delegations | – |
| Errors, Arrow conversion, hash function, Python package | none | conversions, re-exports, an atexit hook | – |

How they interact. A Python table (dataset, ibis table, Python provider,
record-batch reader) is registered with a session; planning asks it which
filters it can apply and builds a scan; executing the scan calls
`spawn_channel_stream`, so every Python source is served by the stream bridge.
An FFI table is registered the same way but decodes filters through the
session's function registry, so it depends on the life of the session.
Registration of files shares the session's configuration and store registry
between tasks and threads. Aggregates and window functions are called back by
the engine's operators on its threads. All calls from Python that need the
engine's async code go through `wait_for_future` with the GIL released; the
Python code of a query may make such calls itself, on the blocked thread, on a
worker or on the blocking pool.

What is hard here: a coordinator that can be aborted at every await, while its
worker runs on; permits whose return is spread over destructors; a shutdown
during rounds; readers that never return and occupy threads; wake-ups between a
failed `try_acquire` and the await; a Python object that must be destroyed on a
particular kind of thread; the last reference to a session dropped during a
check; calls nested in the code that they wait for, with one worker, reads of
streams by each other's sources, and a runtime closed under them; readers that can be read once, shared by frames and
runs that do not know of each other; a Python object shared by concurrent
partitions; exceptions that count as "no"; tasks of one call that depend on each
other's order; errors that are discarded; tables of conversions that nothing keeps inverse to each other.
`PROJECT.json` lists each of these as a hazard, at its line, with the
properties that would notice it going wrong.

## 2. Plan

Order of work, most important behaviour first. Done so far:

1. `ChannelStream` with `ChannelStreamProperties`, its abstract specification
   `BatchStream`, and the proofs `ChannelStreamProofs`, the refinement included.
2. `FilterPushdown`: pure translations against a reference semantics.
3. `HostedFfi` with `HostedFfiProofs`.
4. `Registration` with `RegistrationProofs`.
5. `Aggregation`.
6. `DataTypes` and `RowExpressions`, with `RowExpressionsProofs`.
7. `Reentry` with `ReentryProofs`: `wait_for_future`, the GIL, workers, close,
   and the iterator of `record_batch.rs`.
8. `Windows`, `Sliding`, and `UserFunctions`, which has the scalar functions and
   composes the kinds for checking; `UserFunctionsProofs` for all of them.
9. `Session`, `ScanSchemas`, and `PythonTables`, which composes them with
   `FilterPushdown`; `PythonTablesProofs` for all three.
10. `Recursion`: recursive functions over trees, and induction, as theorems that
    the proofs about expressions instantiate.

To do:

11. Credentials of object stores in `Registration`, as values a later call may
    replace.
12. The safety half of `PollIsAnswered` and `CallsReturn` as invariants with
    proofs: what a waiting consumer or call waits for is held by an actor that
    has a step.

## 3. Modules and their correspondence to the code

`MC*` modules hold the constants of an instance; a definition with "faulty
variant" in its comment is a plausible mistake in the code next to it, which
one of the properties must notice when it takes the place of the definition.

### ChannelStream, BatchStream

`spawn_channel_stream` and everything under it. Three actors per stream:

* *Consumer* (`PollRequest`, `PollBatch`, `PollEnd`, `PollRaise`,
  `DropStream`): `DemandStream::poll_next` and dropping the stream. `requested`
  is the field of that name; the end or error of a
  `RecordBatchReceiverStream` is external.
* *Coordinator* (`co`): the async task. `StartAffine`/`StartPool` are
  `PullHost::new`; `TakeDemand`, `Speculate`, `Park` the credit; `Reserve` the
  channel slot; `Dispatch*` and `RoundDone` a round. `Abort` is possible at
  every await of a dropped stream or a runtime that is gone, and applies all
  destructors: credit, slot, guard (`DroppedFrom`).
* *Worker* (`thr`): `run_affine_pull` on its own thread, or a blocking-pool
  task; inside both, `drain_batches`: pull, send, try to get a slot and a credit
  for one more. A pull may yield, fail, end, panic or never return. Publishing the
  result and leaving the round are separate steps, since the coordinator can be
  aborted in between.

A batch is its position in the reader's output, 0 is the error item. Permits of
the speculation budget are individual values, so a permit returned twice is
visible. `reader` tells who owns the closure, and where it was destroyed.
`pulls`, `last` and `late` are history. After an error was raised to the
consumer it stops polling. The channel's end, queueing in the blocking pool and
cancellation of queued tasks follow tokio and are external. Nothing closes the
demand semaphore, so the error branch of the parked coordinator
(`utils.rs` 384–388) is unreachable and has no action. A coordinator that is
suspended may take one more step after its stream was dropped; tokio may or may
not allow it, so the model does.

`BatchStream` is what the bridge promises: a reader that yields and ends, fails
or panics, and a consumer that gets its batches in order, an error last, an end
only after everything, and an exception only for a panic or a shutdown. The
refinement maps `yielded` and `fate` and hides the rest.

### FilterPushdown

`SupportsFiltersPushdown` classifies each filter by trying its translation
(`PyArrow` or `Ibis`, the two `try_from`), `Scan` applies the translations of
those declared Exact, and the engine's `FilterExec` applies the others. `Sql` is
the reference, three-valued; a translation is the function that the built
expression computes from a row, by `PyOperator`, `Method`, `PyArrowIn` and
`IbisIn`, which are taken from the documented behaviour of Python, pyarrow and
ibis and external.
Expressions are trees over one nullable column; names, literal types and Python
calls are abstracted. A translation's error is a value, `Unsupported`, which
absorbs what contains it, as `?` does. `Expressions` is any set of finite trees
that has the parts of its members, and `Height` the height of each; `Sql`,
`PyArrow` and `Ibis` are recursive functions on it, each with its body as an
operator of its own (`SqlOf`, `PyArrowOf`, `IbisOf`), which the proofs need.
`Faithful` says of which queries the translations are right: see sections 4 and 6.

### HostedFfi

The objects are the `SessionContext`, the catalogs it shares with its frames, the
`HostedFfiTableProvider`, its `HostTaskContext`, the frames, the calls under way and
the `SessionTaskContext` of a scan. `strong` is the set of their strong references,
owner and object, as the `Arc`s of the code; an object is alive while something
owns it, and `Destroy` is its destructor, a step of its own, which drops what the
object owned while other threads run on. A decode upgrades the weak reference of
its codec whether or not its target is alive, and sets `lost` if it is not. So
that it never is depends on what each action keeps: the catalog the table, frames
and calls the table, the table its host, a scan its own context (`_task_ctx`).
A registry of functions is its version number. `BeginCheck`/`EndCheck` split
`HostTaskContext::task_ctx` at `remember`: the registry is read outside the lock
that protects the fallback. Imports that fail change nothing and are no actions.

### Registration

`register_parquet` and `register_csv`: `Call` spawns a task per path; a task is
`Extend` (options extension of its cloud), `Alter` (the call's options on a copy
of the session's table options) and `Store`; `Resolve` is reached when all tasks
have ended, *whatever their result*, since the results are discarded;
`RegisterTable` is the engine's atomic refusal of a name that is taken.
`get_object_metadata` also installs extensions (`Metadata`). Locations stand for
buckets, storage options for the namespaces of their keys; credentials are not
modelled, so whether a store is *the right one* is not either.

### Aggregation

`Update`, `State`, `MergeBatch`, `Evaluate` are the methods of
`RustAccumulator`; who calls them, and on which rows, is the engine and
external. A Python accumulator's value is how often it counts each row, per
state field. `MergeBatch` passes on the first field only, as the code does: an
array with one state per merged accumulator. `reads` is what the class takes
it for: the array that it is (the base class in `__init__.py`), or a list of
arrays, as in `python/tests/test_udaf.py`, of which it then reads the first
element, one state; `skipped` keeps the others for `EachRowOnce`. One partition
may be aggregated in one phase or in two (`single`).

### Windows, Sliding, UserFunctions

`Windows` is `RustPartitionEvaluator` under the engine's two window operators,
which are external: with bounded execution a row is evaluated as soon as its
range cannot grow, over a buffer that is pruned (`EvaluateBounded`); otherwise
when its partition is complete, by frames, by ranks or in one call. `Call` and
`Answer` split a call in two, because the GIL changes hands inside Python code
and `to_rust_partition_evaluator` gives all partitions the same object: what it
keeps in its `fields` may be another call's when it answers. A value is the set
of rows it was computed from. `Flag` is the reading of the methods that answer
yes or no: an exception, or an answer that is no bool, is no. `Memoize` is the call
between two evaluations in bounded execution over a frame with an unbounded start.
`NewFrame` is `PyWindowFrame::new`, with its refusals, which gives frames from
PRECEDING to FOLLOWING only; `Frames` adds SQL's frames in rows, which may end
before their row or start after it. Their ranges can be empty, and what is pruned
is then bounded by the last row evaluated. Frames by range and by groups are not
evaluated in the model.

`Sliding` is `RustAccumulator` over the frames of a window: `Create` asks
`supports_retract_batch` where rows can leave the frame, and `Slide` updates,
retracts and evaluates for the next row; for an empty range the engine takes the
default value and leaves the accumulator behind.

`UserFunctions` has the scalar functions: `MakeScalarFunction` with the length
that scalars are widened to. It also composes the kinds of functions: a query is
of one kind, and the others are queries that have failed.

### Session, ScanSchemas, PythonTables

`Session` follows what frames and runs share. A table or a frame is the sequence
of its sources; `Plan` begins a run with a plan of its own, `Open` is the first
pull of a source, `Pull` the others, `Break` an error or a stream dropped half
way, `Finish` the end, with the frame that `cache` makes. A reader gives its
stream once and raises from then on; a Python table's `scan()` gives a reader
when the query is planned, over which each execution iterates; the rest begin
anew. `Ordering` is the prefix of `sort_order` that the schema has.

`ScanSchemas` follows one batch from a table to a query through the schemas on
its way: read at registration, advertised by the scan, compared by
`check_batch_schema`, projected before the check (Python tables), by the scanner
(datasets) or after it (streams).

`PythonTables` puts both beside `FilterPushdown`: the three sides of a Python
table share no state, and a behaviour shows one of them.

### Reentry

A call is a method that waits for a future, with the Python code of its query:
`pc` is how far the method is, `code` how far the code, `parent` the call whose
code made it. `Plan`, `Collect`, `ExecuteStream`, `Next_` and `Anext` are the
methods, by where their code can run; all but `Anext` go through `Wait`, which
releases the GIL and blocks the code that called. `RunTask`, `RunPull` and
`HandOff` are tokio's: a task needs a core, a pull a pool thread, and a worker
that blocks in `block_in_place` passes its core to a pool thread. `Attach` and
`Return` take the GIL; `Close` may come whenever it is free, and keeps it while
it waits for its timeout. `Next_` refuses a stream that is borrowed; `Anext`
borrows it for no longer than the call and leaves the rest to the mutex. A pull
runs on the pool here; threads of their own only relieve it. `Awaits` is the
relation "waits for" between calls, over mutexes and nesting, and a `Circle` of it is
a deadlock.

### DataTypes, RowExpressions

`DataTypes` has the tables of `data_type.rs`. `RowExpressions` is a
client of the Python API on top of `expr.rs`: it walks an expression by
`rex_type` and `rex_call_operands` and afterwards converts a type back and
forth. The client is external; the functions it calls are the code's. `Nodes` has
the expressions, their parts and the operands they are told to have: arguments,
the base of a CASE, and `clauses` (FILTER, ORDER BY and PARTITION BY of aggregate
and window functions, the outer columns of IN over a subquery); `opt` is an escape
character, a null treatment or the parameters of a lambda. `Sql` and
`Apply` are the engine's meaning of an expression, against which both readings
(`rex_call_operator` with operands, and the wrapper of `to_variant`) are
compared; the type of a cast and the escape of a LIKE are part of it.

## 4. Runs

| Run | Instance | Checks | States |
|---|---|---|---|
| `one_buffered` | one read-ahead stream, capacity 2, two permits, dedicated thread or pool, spawn failure, shutdown, up to 4 batches | order, truncation, read-ahead, reader contract, drop, refinement of `BatchStream`, `PollIsAnswered`, `DropReleases` | 42,242 |
| `shared_budgets` | a read-ahead stream and an OnDemand one, which parks before each round; one permit, one dedicated and one pool thread, one batch each, one of the streams dropped | both budgets conserved, OnDemand reader entered only for polled batches, `PollIsAnswered` | 329,900 |
| `python_tables` | one name, one object of each kind, two frames and two runs of two sources; all filters of the bound, three kinds of provider, nullable column; schemas of up to two columns | sources read in full, claimed order, exact pushdown, scans that succeed, columns as planned | 991,547 |
| `ffi_table` | two frames, two registrations; session, frames and table dropped at any time, destructors delayed | codec in scope, session collected, fallback | 328,362 |
| `register` | two threads, ten kinds of call over six locations | readable tables, a race leaves one store | 2.2 M |
| `user_functions` | six rows, two groups, one to three partitions; windows over partitions of three and two rows, in one task or two, 30 evaluators, 29 frames in rows with offsets up to 1; batches of up to two rows and two arguments | each row once, partitions apart, frames exact, rows aligned | 1.08 M |
| `reentry` | two threads of the program; three calls of any kind, and four where all under way are reads, of two streams, whose sources read streams again; one worker, three pool threads, close at any time | the GIL, no deadlock with a `next`, every call returns | 275,952 |
| `row_expressions` | 892 expressions: every variant, with and without clauses and escapes, one level of nesting; literals and casts of every type | the walk, both readings, type conversions | 24,624 |
| `stranded_threads`, `destroyed_on_worker`, `ibis_in_list`, `mean_aggregate` | smallest instance that shows it | see section 5 | – |

Type invariants that are proved (`ChannelStream`, `HostedFfi`, `Registration`,
`Session`, `Reentry`) are not checked again by the runs; those of the other modules
are.

**Bounds and why they are enough.** A stream's behaviour repeats with each
batch: with capacity 2 and 4 batches the channel fills, drains and fills
again, rounds carry over, and an error, end, panic or hang falls on the first, a
middle and the last batch. Streams interact only through the two budgets and the
pool, so two streams and one permit of each suffice for every conflict between
them. One stream with two permits never parks, so `PollIsAnswered` is checked in both
runs: an OnDemand stream parks before every round, and its rounds and the other
stream's queue for one pool thread. One batch each, and the pull that ends the
stream, give a round that is asked for while the coordinator parks and one that was
asked for before; `OneDrop` keeps one of the streams, to poll beside the remains of
the other. Two frames overlap in every order; `MaxVersion` 2 gives a read
of an older and a newer registry with a registration between. Two callers with
two tasks each give every interleaving of the extension and alteration steps;
the requests are one for each combination that a branch tells apart. Filters are
compositional, so one level of nesting under NOT, AND, OR shows what a negation
does to a null from below. IN lists have four elements because DataFusion
rewrites lists of up to three to comparisons before pushdown. The type tables
are finite and complete. Three calls are the least with two below one another,
or two beside one that nests; one worker is the case in which a call that kept
its core would stop everything, and three pool threads let each call have one:
with fewer, nested pulls exhaust the pool, as they would the 512 threads of the
real one. Two calls that read and two that their sources make are the least with
which two streams are read by each other's source; the
fourth call and the second stream are left to such reads (`SomeCall`). Two runs over two sources put a reader into one plan twice, into two
runs at once, and into a run after another that broke; two batches leave it half
read. Ranges of a partition of three rows have a row before, at and behind the
frame, and frames that lie before or behind their row are empty at one end of it. Every safety property of a passing run is proved for all bounds
(section 6), with `Fields = 1` for the aggregates and `Faithful` queries for the
filters; TLC's bounds decide only what the liveness properties are worth.

**What `python_tables` leaves out**: IN lists on ibis tables and Python providers
(`ibis_in_list` shows why), and negated IN lists over nulls on pyarrow, where
`~isin` keeps the null rows that SQL's NOT IN drops.

**Fairness.** `ChannelStream`: weak fairness, per stream, of the coordinator's
steps (tokio polls a woken task), of the worker's (the operating system runs
its thread) and of `Answer`, the consumer's receipt of what is ready. Nothing
obliges a consumer to poll or to drop, a reader to fail, or anyone to shut
down. A pull may always choose to hang, and both liveness properties
say so: they allow for the stream's own reader being stuck and for a pool that is
full of stuck readers. `RowExpressions`: fairness of the client's own loop.
`Reentry`: weak fairness, per call, of whatever step it is at, `Step`, `Attach` or
`Return`, since tokio runs what can run, Python code ends or makes another call, of
which there are finitely many, and the interpreter gives the GIL to every thread
that asks for it; and of `TimeOut`. Nothing obliges anyone to call or to
close. `CallsReturn` excepts behaviours in which calls come to wait for one another
in a circle; `OnlyAsyncReadsLockUp` says that these are reads by `__anext__`.

**Deadlock.** Only `register` is checked for it, since its system always has a
next call. The others stop legitimately: a stream that has ended, a query
that has been answered, an expression that was walked, a session that has gone.

## 5. Where code and comments disagree

Each has a run that is expected to end in a violation.

* `stranded_threads` – `utils.rs` 35–38: a pathological reader "can cost at most
  this many threads". Every answered poll leaves a demand permit also when the
  batch had been pulled speculatively, and a later `try_acquire` spends it on a pull
  nobody asked for, outside the budget.
* `destroyed_on_worker` – `utils.rs` 121–131: `PullGuard` guarantees that the
  closure is destroyed on the blocking pool, also on abort. The guard is empty
  while a pool round runs: a coordinator aborted after the round ended and before
  it is polled drops the closure with the task's unread output on an async
  worker; one aborted before its first poll drops it with the future.
* `ibis_in_list` – `ibis_filter_expression.rs` 94–104: `isin` and `notin` are
  swapped, while the providers answer Exact.
* `mean_aggregate` – `udaf.rs` 71: `merge_batch` passes the first state field
  only; the class documented in `__init__.py` has any number.

Seen while modelling, without a run of their own:

* `udaf.rs` 71–79 hands `merge` an array, as `__init__.py` 81 declares it, while the
  accumulator of `python/tests/test_udaf.py` 24–27 takes "states: list[pa.Array]" and
  sums `states[0]`, which is then one state: in a merge batch of two it loses the rows
  of the other. `user_functions` has classes of both kinds: `EachRowOnce` holds the
  first to every row and says what the second loses. The test's table is one batch in
  one partition, where no merge batch has two states.
* A dropped stream may still dispatch one pull: `AtMostOnePullAfterDrop` is the
  strongest form that holds.
* Credit is taken before the slot, so a stream with a full channel holds a
  speculation permit while it waits.
* The fallback of an FFI table may be set back by overlapping checks
  (`FallbackSinceImport` bounds it), and is refreshed by each check rather than
  being the snapshot at registration that the module comment describes.
* A user's `scan()` that ignores its filters is not noticed: the provider has
  answered Exact.
* A Python table that a recursive query executes again has nothing left to give
  and raises nothing: `NoSilentLoss` excepts it. A reader's second use does raise.
* A Python table's reader that reports another schema than the table was
  registered with is projected by position over its own; the plan then gets the
  columns the scan advertises, which are not the ones the query asked for
  (`ColumnsAsPlanned`). The contents of a C stream are taken to be of the schema
  that it told first.
* All partitions share one window evaluator: one that keeps anything in its fields
  mixes the partitions of concurrent tasks, and the premise of `PartitionsApart`
  says so. The aggregate's factory makes a new object each time.
* The documented `Accumulator` class has no `supports_retract_batch`, so that its
  subclasses are refused over sliding frames unless they add it.
* The code of an `__anext__` that reads the stream it is a source of waits for a
  mutex that is held for it, and two `__anext__` whose sources read each other's
  streams wait for each other: `reentry` reaches both. Under `next` the borrow
  refuses the read, whichever circle it would close.
* `close` with a timeout keeps the GIL meanwhile, so that Python code it waits for
  cannot end before the timeout.
* `rex_call_operands` of an aggregate or window function are its arguments: a client
  that walks them does not meet `b` in `sum(a) FILTER (WHERE b > 0)` nor in `PARTITION
  BY b`. `WalkFindsColumns` says exactly that: it finds the columns outside clauses.
* `rex_call_operator` with operands does not tell NOT BETWEEN from BETWEEN, NOT IN
  from IN, a CAST from another to a different type, nor a LIKE or SIMILAR TO with an
  escape character from one without (`OperatorHides`); the wrappers do not tell
  ILIKE, nor the clauses and null treatment of an aggregate function
  (`WrapperHides`). `ReadingsKeepMeaning` excepts these nodes and no others.
  `SqlType.INTEGER` leads to `Int8`.

## 6. Proofs

All are checked by TLAPS with Z3, Zenon and LS4, for every value of the
constants that meets the assumptions: finitely many streams, of which the
OnDemand ones are a subset (`StreamsAssumption`); a positive capacity and pool
(`BoundsAssumption`); Boolean switches (`SwitchAssumption`); a natural
`MaxVersion`; a kind for each location and well-formed requests
(`KindAssumption`, `RequestsAssumption`); finitely many calls, numbered, and names
that differ from them (`CallsAssumption`, `NamesAssumption`); readers that are not
re-readable, finitely many batches, and sort lists that are sequences
(`ObjectsAssumption`, `BatchesAssumption`, `LimitsAssumption`,
`SortListsAssumption`); partitions with rows, offsets that are naturals,
evaluators that do not look past their row if they call themselves causal, and a
missing value that is no set of rows (`SizesAssumption`, `BoundsAssumption`,
`EvaluatorsAssumption`, `DealsAssumption`, `NullAssumption`); finitely many rows of an
aggregate, and layouts that place each (`RowsAssumption`, `LayoutsAssumption`,
`FieldsAssumption`); expressions that are finite trees and closed under their
parts (`ExpressionsAssumption`, `NodesAssumption`, `HeightAssumption`), and queries
made of them (`KindsAssumption`, `QueriesAssumption`). TLC evaluates each on its
runs. Two theorems have a hypothesis beside these, because the code does not keep
the property without it: `EachRowSafe` has `Fields = 1`, since `merge_batch` hands on
the first state field only, and `PushdownSafe` has `Faithful` queries, since the
translations of IN lists may be wrong for the others. `mean_aggregate` and
`ibis_in_list` show what happens without them.

**ChannelStreamProofs**: `TypeCorrect`, `SpeculationSafe`, `AffineSafe`,
`DropSafe`, `OnDemandSafe`, `ReaderSafe`, `PullSafe`. None of these is inductive
alone, because each depends on which of the actors may be where. `IInv` adds, per
stream, a conjunct for each idea, and each conjunct has a lemma with one step per action:

* `Control`: which states of coordinator, host and worker go together; a
  worker is in a round only while the coordinator awaits it or is gone;
* `Slotted`: where a channel slot may be held;
* `Results`: a reported result agrees with what the last pull returned;
* `Owned`: who has the closure in each state;
* `DropPart`: after one late pull nothing paid for another;
* `DemandPart`: pulls, demand and the credit in hand are at most the polls;
* `Partition`, `Paying`: permits are partitioned, and held only where a
  destructor returns them;
* the affine budget against the set of live threads.

Then what the consumer gets: `OrderSafe`, `ReadAheadSafe`, `TruncationSafe`, from
`DInv = IInv ∧ Flow ∧ Order ∧ End`. `Flow` counts the batches pulled, queued
and delivered; `Order` is `InOrder` split at the channel's head, with a failed reader's
error last; `End` says that a consumer told the end has a finished coordinator
and an empty channel behind it.

`BridgeIsBatchStream` is the refinement (`IsBatchStream`): under the mapping of
`ChannelStreamProperties` the initial state is one of `BatchStream`, and each
action maps to one of its steps or to none. A pull that returns is `Yield` or
`Finish`; `PollBatch` is `Deliver` or `DeliverError`, by `Order`; `PollEnd` is `End`,
by `End` and `Flow`; `PollRaise` is `Raise`; what coordinator, credits and hosts do is
a stutter.

**ReentryProofs**: `ReentryTypes`, `GilFree`, `LockUpsAsync`. The
invariant ties the views of a call together: `Stages`, how far the code is for
each stage of the method; `Nesting`, that calls are made in their order, each by
code that is blocked by it alone; `Borrowing`, that a stream is borrowed exactly by
the `next` that reads it, and its mutex held by a reader of it that is past the
lock. `LockUpsAsync` then follows: the holder of a mutex, if no `__anext__`, has the
borrow of its stream, so whoever waits for that mutex is an `__anext__`, which blocks
no code and holds nothing yet: no call waits for it, and it is in no circle.

**PythonTablesProofs**, in three parts.

* `Session`: `SessionTypes`, `LossSafe`, `OrderingSafe`. `Reading` says where
  each source of each run is, and that a reader whose stream was not taken is at
  its beginning; `OneReader`, that at most one source of one run is reading a
  reader. Without it a pull of one run would move another. `OrderingSafe` rests on
  two facts about sequences: `Ordering` is a prefix of the declared list, and rows in
  the order of a list are in the order of its prefixes.
* `ScanSchemas`: `ColumnsSafe`. Two projections by the same positions are
  functions on the same domain, so the comparison by position decides their
  equality; nothing is assumed about schemas.
* `FilterPushdown`: `FilterTypes`, `ScanSafe`, `PushdownSafe`. `ScanSafe` needs that
  scan translates the very filters that were classified. `PushdownSafe` is by
  induction on filters (`PyArrowFaithful`, `IbisFaithful`): a translation has the
  value of its filter on each row, null for null, where no IN list is in it; on a
  row without nulls also where one is; and with IN lists under AND and OR alone
  it is true of the same rows (`Same`, which takes false for null), which is all
  a scan looks at.

**UserFunctionsProofs**: `QueriesInvariant` joins one invariant for each kind of
function; the others follow.

* `EachRowSafe`: an accumulator counts each row it was given once, a sent state
  what its partition has, a final accumulator the sum of the states merged so far
  and read (`Merged`), in whatever order; states are skipped by classes that take the
  array for a list alone (`Skipping`), and none is merged into a group whose value
  was given (`Settled`). That sum is a fold over a set: `SumIs` shows that the fold
  satisfies its recursion, and takes its value from there.
* `PartitionsSafe`: an index into a buffer that was pruned, shifted by what was
  pruned, is an index into the partition. `RangeInBuffer` says that the range
  which `get_range` or the frame gives for a row that may be evaluated is then the one of
  the complete partition: nothing it needs was pruned, and nothing to come would
  extend it. `Calling` and `Keeping` follow a call under way: an evaluator that
  keeps something in its fields is under one call at a time if there is one task.
* `FramesSafe`: the accumulator counts exactly the rows of the range it stands
  for (`Spans`), unless the frames have left the partition behind (`Standing`), after
  which no range has a row; ranges move forward (`RangesMove`); a row that need not wait has the
  range it has in the complete partition (`RangeIsFinal`), which is why arrival
  does not matter.
* `AlignedSafe`: with an array among the arguments the inferred length is that of
  the batch, an empty one too; with none, the one value is that of each row.
* `QueriesTypes`.

**RowExpressionsProofs**: `RowExpressionsTypes`, `ColumnsFound`, `MeaningKept`,
`PythonTypeKept`, `SqlClosedAlways`. `WalkInv` says that the columns found and those
of the nodes still to visit are together the columns of the expression outside
clauses; each operand list has those of its node (`OperandsRefer`), whose only hard
case is the CASE with a base. `CaseMeans` is the same for meaning: a comparison with the
base is true where the base equals the when. `MapInv` says that a type is an
entry of the tables and still has the Python type given; once it has come through
a SQL type it is no interval, and in the part of the tables that leads back.

**Recursion**: `ValueIs`, and `Induction`. TLA+'s `f[e \in S] == ...` chooses a
function that satisfies its equation, and that there is one needs proof; for an
equation that looks at the parts of a finite tree only there is one. The module
has the equation and the fact to be shown as operator constants, and is
instantiated for each: five times for `FilterPushdown`, four times for
`RowExpressions`.

**HostedFfiProofs**: `HostedFfiTypes`, `ProviderNeverOutOfScope`, `FallbackBounded`,
`TableKeepsNoSession`, `PlansDecode`, `FallbackFixed`. `Structure` says what an object
that is alive still owns, since only `Destroy` takes that away; `Calls`, what a call
under way owns; `SessionOwners`, that only Python and the checks under way own the
session. `ProviderNeverOutOfScope` follows along the chain from the call over the table
to its host, `TableKeepsNoSession` from `SessionOwners`. `Versions` bounds what a check
under way has read; `PlansDecode` also needs that this is no older than its frame.

**RegistrationProofs**: `RegistrationTypes`, `TablesReadable`, `RaceLeavesOneStore`. The invariant says
what the finished steps of a task have left behind (`Effects`), that no task of
an assured call fails (`NeverFails`), and that among tasks that have all
extended, the last one to do so cannot fail (`LastExtender`), which is the whole
argument of the race.

## 7. What is only model-checked, and what is not modelled

Only model-checked: the liveness properties (`PollIsAnswered`, `DropReleases`,
`WalkEnds`, `CallsReturn`), which rest on fairness and are out of the prover's
reach. Every invariant and every other temporal property of a passing run is a
theorem, under the two hypotheses named in section 6.

Not modelled, with the reason in `PROJECT.json`: delegations to the engine (SQL,
optimizer rules, plan-node wrappers, accessors of plans and catalogs, what a
relational operator computes); stateless conversions (errors, Arrow, hash,
display strings). Inside modelled components: credentials of object stores, the
listing of files, statistics and limits of scans, the Python calls that build a
scanner, failing FFI imports.

Composition: streams that Python tables hand to a query are served by the bridge,
which `BatchStream` specifies; `Session` and `ScanSchemas` take from it that batches
arrive in order and that errors end a run. `Reentry` reduces a pull to a pool thread
held for as long as its code runs.
