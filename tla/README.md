# Verification of php-tree-viz

TLA+ models of the collector of php-tree-viz, the TLC configurations that check them on small
instances, and theorems about its core that TLAPS checks for every instance. Paths below are
relative to `src/`; `C/` stands for `crates/php-tree-viz-collector/src/`.

Contents: [1 The system](#1-the-system), [2 Modules](#2-modules), [3 How the modules follow the
code](#3-how-the-modules-follow-the-code), [4 Runs](#4-runs), [5 Fairness](#5-fairness),
[6 Proofs](#6-proofs), [7 What the runs found](#7-what-the-runs-found),
[8 What is not covered](#8-what-is-not-covered), [9 Plan](#9-plan).

To check: `tlc -config X.cfg M` for the pairs of section 4, `tlapm` for
`CallTreeProofs`, `TreeProofs`, `RawFilesProofs`, `TraceStoreProofs`, `IngestProofs`,
`CollectorProofs`, `ServiceProofs` and `WireProofs`.

## 1 The system

A PHP extension records the calls of a request and sends them in batches to the collector, which
merges the calls of one trace into a tree: one node per path of functions from the root, with the
number of calls and the sums of their times. A PHP API and a JavaScript viewer read the trees.
Batches are delivered at least once, in any order, and a trace may stay incomplete for ever.

```
 recorder --POST /ingest/v1--> handlers --bounded mpsc--> decoder task --+
                                  |                          | read      |  storage mutex
                                  v                          v           v
                     tmp/*.partial --rename--> traces/<key>.raw/      Storage: index.sqlite,
                                                  ^                   traces/<key>.sqlite
                                   remove_dir_all |                      ^
                                                  +-- idle-finalize loop |
                                                  +-- retention sweeper -+      PHP API (read only)
```

| Component | State | Operations | What is hard | What makes it correct |
|---|---|---|---|---|
| **Tree aggregation** `C/storage/aggregate.rs` | per trace: `nodes`, `call_to_node`, `pending_calls`, `dict`, `anomalies` | fold, park, drain with its cascade | calls arrive before their caller or their function's name; redelivery; inverted clocks; cycles in the claimed callers | the tree depends on what was received, not on the order; sums are exact; nothing resolvable stays parked |
| **Trace storage** `C/storage/mod.rs` | `index.sqlite`, one database per trace, a cache of connections | `record_batch`, `finalize_trace`, `delete_trace` | two databases without a common transaction; files beside them; failure between any two steps | the index agrees with the traces, and what a failure leaves is repaired |
| **Idle-finalize loop** `C/finalize.rs` | none of its own | tick: clean, by force, or defer | decides from the index about what the trace's database holds | every idle trace is finalized, a clean finalize gives nothing up |
| **Retention sweeper** `C/retention.rs` | none of its own | tick: list the expired, delete | a deletion half done | every expired trace disappears, no database is orphaned |
| **HTTP ingest** `C/http/{ingest,storage,tmp,mod,router}.rs` | partial files, locks per trace, batch files, permits of the channel | stream, parse meta, reserve, lock, number, rename, fsync, send | many handlers at once; I/O errors; clients that go away in the middle; directories removed underneath | 2xx means on disk; no file replaced; the channel is never overfilled; what is refused leaves no batch |
| **Decoder, lifecycle** `C/main.rs`, `C/http/server.rs` | channel, the item in hand; what the start has set up; the unit's state at systemd | receive, read, decode, record; start step by step, READY, drain, exit | the file is found by its path, later; the channel dies with the process; a signal or a failure between two steps of the start | every acknowledged batch is recorded once; what is announced works; it ends in order |
| **Configuration** `C/config/` | none after start | parse arguments, parse, validate | what is accepted must make every later step work | no accepted file disables a loop or turns its arithmetic round |
| **Disk-usage gauge** `C/observability/disk_usage.rs` | the walk under way | list, stat, compare | files come, go and are renamed under the walk | it warns if, and only if, there is reason to |
| **Probes** `C/http/health.rs` | none | readiness from the free slots of the channel | permits are held, too | degraded before the first 503 |
| **Trace key, wire** `C/tracekey.rs`, `C/wire.rs` | none | decode meta, decode all, make the key | two parsers of one body; a hash over joined bytes | two traces never share a key |
| **Auth, content type** `C/http/{auth,content_type}.rs` | none | two filters | a comparison written by hand | refused before anything is written |
| Request log, error texts, log formats | none | - | - | - |
| Read API `api/` | none, reads the databases | list with count, tree page | two queries without one transaction, while the collector writes | pages are consistent |
| Sessions `api/auth.php`, `api/internal/session.php` | session file | login, check | - | - |
| Tree view `viz/js/{detail,virtualizer,tree-row}.js` | rows, expansion, pending fetches | expand, collapse, sort, deep link | an index kept over an await | rows match the tree |
| Trace list `viz/js/{list,search,...}.js` | rows, offset, token | search, next page | late answers | the list is the last search's |
| Tooltip, keyboard, login | focus, timers | one event at a time | - | - |
| Installation `bin/` | - | - | - | - |

They meet in three places. The handlers hand over to the decoder through the channel, and only the
*name* of a file passes through it. The decoder and both loops share one
`Arc<tokio::Mutex<Storage>>`; the gauge walks over the same files without it. And the directories
`<key>.raw` are written by the handlers, read by the decoder and removed by the loops, with no lock
that all of them take: the handlers' lock per trace is unknown to the storage. Most of what is hard
in this code happens there. PROJECT.json lists each hazard at its line with the properties that are
for it.

## 2 Modules

| Module | What it is |
|---|---|
| `TraceTree` | abstract: the tree as a function of the calls and names held |
| `CallTree` | one trace's database and the transaction of `record_batch`, statement by statement; implements `TraceTree` |
| `CallTreeProofs` | the inductive invariant of `CallTree`: the shape of the tree, and the refinement |
| `TreeProofs` | its numbers: sums, counts, what is noted of each call, depths |
| `RawFiles`, `RawFilesProofs` | batch files and their numbering, used by `TraceStore` and `Ingest`; that the next number is free |
| `TraceStore` | `Storage` with both loops, cut at the commits and file operations; uses `TraceTree` for what a database holds |
| `TraceStoreProofs` | the inductive invariant and the theorems about `TraceStore` |
| `Intake` | abstract: what the HTTP side promises, a bounded FIFO that hands over each accepted batch once |
| `Ingest` | the handlers, the channel, the decoder, cut at their awaits; implements `Intake` |
| `IngestProofs` | the inductive invariants and the theorems about `Ingest`, and that it implements `Intake` |
| `Collector` | `Ingest` and `TraceStore` composed on the mutex and the raw directories |
| `CollectorProofs` | the theorems about the composition, from those about its two parts |
| `Gate` | the token and content-type filters before the handler |
| `Wire` | which fields the two parsers want, and the trace key byte by byte |
| `WireProofs` | theorems about the operators of `Wire` |
| `Config` | arguments, options, defaults and every rule of `validate` |
| `Gauge` | the walk of the disk-usage gauge and its threshold |
| `Service` | the process under its systemd unit, from ExecStart to exit, with what its loops do to the files; uses `Config` and `Gauge` |
| `ServiceProofs` | the inductive invariant and the theorems about `Service` |
| `MCCallTree`, `MCTraceStore`, `MCIngest`, `MCCollector`, `MCService` | the instances for TLC |

The abstraction goes upwards. `CallTree` works on single statements of one trace and shows that a
committed transaction is one step of `TraceTree`. `TraceStore` then takes that step as atomic, so
that it can afford two databases, files, failures and time. `Collector` instantiates `Ingest` and
`TraceStore` over shared `raw`, `rawDirs` and `faults`, and synchronises them where the code does.
`Service` stands beside them: there an upload, a batch in the channel and a trace are one step each,
and what is cut into steps is the process's life.

## 3 How the modules follow the code

**CallTree.** The variables with table names are the open transaction's view; `saved` is the last
commit, which is what readers see and what a rollback restores. `BeginBatch` is the start of
`record_batch` (upsert of `trace_meta`, `ensure_node` of the root, the dictionary); one of
`SkipKnown`, `Park`, `FoldInBatch` is an iteration of the loop over `batch.calls` in reverse;
`SkipDrain` and `SeedDrain` are the two outcomes of the gate; `FoldRow` and `PopParent` are the
drain and its cascade; `Commit` and `Rollback` end the transaction; `FinalizeTrace` is the per-trace
half of `finalize_trace`. A node is named by the path of functions to it, which `UNIQUE
(parent_node_id, fn_id)` makes a key. Rows a query returns are taken in any order. Of the sums,
count and wall time are kept: CPU, memory and abnormal exits are added by the same statement.
`dict`'s INSERT OR IGNORE is a union.

**TraceStore.** A batch is one call, which waits for the call of another batch or for none; what
a database has folded is `TraceTree`'s `Resolvable`. `pc` is where the holder of the storage mutex
is: every action with `pc = "free"` is somebody taking the mutex. `record_batch` is two commits
(`RecordTrace`, `RecordIndex`), `finalize_trace` a commit, a commit and the removal of the raw
files in two steps (`FinalizeTrace`, `FinalizeIndex`, `RemoveRawFiles`, `RemoveRawDir` or
`RawDirNotEmpty`), `delete_trace` four steps (`DeleteDb`, the removal, `DeleteRow`). Each has its
failing twin, and `Crash` may come between any two steps. The index row keeps state, counts and the
CPU flag. Time is how `last_batch_at_ns` compares with the two cutoffs (`age`: fresh, idle, old) and
whether `start_time_ns` is before the retention cutoff (`expired`, which stays: the start is part of
the trace). Time passes between operations only; an operation under the mutex reads the clock once.

**Ingest.** `at[r]` is the await at which the handler of request r is. A commit is `Lock`,
`EnsureDir`, `PickNumber`, `Rename`, `Sync`: the directory is listed in one step and renamed into in
another. `Send` sends the permit and answers 200 without an await between. A request not answered
200 may be sent again. A refusal, and a failed commit, removes the partial file and answers
(`Refuse`); the code ignores the error of `remove_file`, so that the file may stay although the
request was answered (`RefuseFails`). `unremoved` remembers those files, up to the next start, which
empties tmp/. `Disconnect` drops the handler at an await before that, which releases lock and permit
but not a rename that already runs on the blocking pool (`LateRename`); the removal, too, runs there
and is not called back. `Clean` stands for the
storage loops, of which this module does not know more than that they remove a directory;
`disturbed` remembers the traces it, or a client that left in mid-commit, has touched, so that the
properties can speak of all others. `EarlyStatus` is what the layers of the router and the declared
length decide, in their order, before a file is opened (`PostRefused`); a body sent in chunks is
measured as it comes. `Ready` is the readiness probe's view of the channel. `BatchMax` is 9999 in
the code; the model's small value brings the `TraceFull` path within reach.

**Gate, Wire.** A request is the record of the headers it has, a body the record of the fields its
MessagePack maps have. `ParsesMeta` is what the request path asks of a body, `ParsesBatch` what the
decoder task asks later, so that a batch can be acknowledged and dropped. `FromMeta` makes the trace
key: the digits of a UUID, or the bytes `synthesize` hashes, host, pid and start time, the numbers
as eight little-endian bytes (`LeBytes`, two's complement for `start_time`). `MCIngest`
makes the keys of its batches with it, and assumes, which TLC evaluates, that the requests its
handlers refuse are those that `Gate` and `Wire` refuse; `TraceOf`, in which
trace a batch was really recorded, is known to the model only.

**Config.** A file that is TOML is the set of options it gives, with their values; `Parses` is what
the `Deserialize` derives demand (required options, nothing unknown), `Parsed` adds the defaults,
`Validate` has one operator per section with one conjunct per check. An address, a path and a
secret are what their check tells of them. `Period` gives each loop the period it will pass to
`tokio::time::interval`.

**Gauge.** A tick is `BeginWalk`, then `List` and `Stat` per entry, then `Exhausted`. A directory
walk promises little: a file that was there all along is listed once, one that came or went may or
may not be. `steady` and `ever` remember which is which. The walk also passes over whatever it has an
error on: a directory that cannot be read, with all below it (`ListFails`), and a file without
metadata, whether it vanished or not (`StatFails`); `failed` remembers their paths. A file is one
unit large, so that the bytes of a set of files are its cardinality.

**Service.** `stage` is the next step of `main` and `http::run`, in their order: arguments and
configuration (`Load`), `CleanTmp`, `TracesDir`, the index (`OpenIndex`, `ApplySchema`, `SetVersion`,
`Migrate`, where a fresh file's two commits are two steps), `Spawn`, `Bind`, `Signals`, `Announce`.
`has` is what these have set up, and `Exit` what an error in `main` makes of it: status 2 for the
configuration, 3 for the rest. `unit` and `starts` are what systemd, as configured in `etc/`, knows
and does (`Type=notify`, `Restart=on-failure`, `TimeoutStartSec`, `StartLimitBurst`): these actions
are external in the map. `Kill` may come at any step, an I/O failure at each step that can fail
(`BootFails`, the log subscriber and the runtime included), a change of the configuration while the
process is down (`Edit`). While it serves, uploads, the decoder and the sweeper change the files
below the data directory, each in one step. An upload ends in `Commit`, in `Refuse`, or in `Leave`,
where its partial file stays: the trace is full, the handler was dropped, or `remove_file` failed.
(Bound: it is not sent again to the same process, which would take another name for its file.) The
gauge's errors are `GaugeFails`. Time is counted in days; the sweeper's arithmetic is in nanoseconds,
wrapped at 64 bits (`Wrap`), both scaled down together (`DayNanos`, `I64Half`).

**Collector.** `Http` are the handlers' and the decoder's steps up to the mutex; `RecordTrace` joins
the decoder with a batch in hand and the storage's first transaction, `RecordIndex` its second and
the decoder's release; `Loops` and `Time` are the storage's own; `Crash` takes both. Under `Resumes
= FALSE` a trace turns idle only when none of its batches is under way (`Underway`: to be sent, also
again, stored or read), which is what the idle timeout (30 s by default) is there for; under `TRUE`
it may turn idle at any moment. `CollectorAssumption` types the constants of both parts.

## 4 Runs

"Bound" gives what the instance is and why it is enough. The environment is bounded (so many
deliveries, posts, faults), and when it has run out the model stops; therefore the store, ingest and
collector runs do not check for deadlock. The CallTree runs do: there finalize is always possible.
So does the service run, where the operator can always start or stop the unit.

| Run | Module, cfg | Result | What it shows | Bound |
|---|---|---|---|---|
| order | MCCallTree, `_order` | pass | Any sequence of three batches out of *all* batches of at most two calls and any names, with redelivery, rollback and finalize anywhere: the properties of CallTree and the refinement of TraceTree; and every transaction ends | 5 calls, numbered as wire.rs documents (script body 0), 2 functions: two calls share a bucket, one is a recursion, one is inverted, one took longer than its caller, one claims itself as its caller; the chain is 3 deep, so that a cascade has a second generation; 3 deliveries let a call, its caller and a name arrive apart |
| redelivery | MCCallTree, `_redelivery` | violation | finding 1 | 2 deliveries |
| store_faults | MCTraceStore, `_faults` | pass | With any two failures or kills between steps: index never ahead, finalized traces reconciled, no connection on an unlinked file; before the first failure, index and traces agree and a clean finalize drops nothing | 1 trace, 2 batches, the second waiting for the first, 4 records: park, resolve, redeliver, re-activate; traces do not interact except in the order of a tick's candidates |
| store_live | MCTraceStore, `_live` | pass | Every trace is finalized, every expired one deleted with its database, although an attempt fails half way; nothing is orphaned | 2 traces, 3 batches, 2 records, so that one tick has two candidates |
| ingest | MCIngest, `_ingest` | pass | With an I/O error, a client going away, a directory removed or a kill at any step: channel bound, acknowledged means on disk, files stay, refusals leave no batch, every partial file is accounted for, also after a `remove_file` that failed, two traces never share a directory, no 503 while the probe says ready | 6 requests of two traces of one host that began in the same microsecond: two plain ones, one that only the decoder finds bad, three to refuse; capacity 2 and one file number for 2 storable batches of a trace reach 503 and TraceFull |
| disconnect | MCIngest, `_disconnect` | violation | finding 2 | 2 requests |
| steady | MCCollector, `_steady` | pass | If a trace turns idle only when nothing of it is under way: every acknowledged batch is recorded, the decoder reads what was sent, in order (refinement of Intake), no file goes before it is read | 3 requests in 2 traces, capacity 2, one I/O error: one trace is finalized or deleted while the other is being uploaded |
| any_time | MCCollector, `_any` | pass | Without that condition, with retries, an I/O error, a client going away or a kill: every handler answers or is dropped | 2 requests sent up to twice |
| resumed | MCCollector, `_resumed` | violation | finding 3 | 2 requests, no fault at all |
| killed | MCCollector, `_kill` | violation | finding 4 | 2 requests, one kill |
| service | MCService, `_service` | pass | Started with good and mistaken configurations, over whatever an earlier build, a crash or another program left, with a stop, a kill or a failure at any step: what systemd takes for active serves with every loop, a refused configuration leaves the disk alone, an announced process ends in order, the gauge, but for what an I/O error hid from it, and the sweeper are right about files that change under them, systemd's view settles | 1 trace, 2 good launches (one with a disk capacity of 3 units, of at most 4 files of the collector), 12 bad ones: one mistake per rule section, a missing and an unknown option, an unreadable file, wrong arguments; 4 indexes; a file of another program deep in the data directory; 1 failure or kill, of 2 starts in a burst; 2 days at a retention of 1 |
| forever | MCService, `_forever` | violation | finding 5 | a retention of more days than an i64 has nanoseconds for, at the scale 16 / 2 |

The properties, by what they guard against:

* *Order and completeness* - `ImplementsTraceTree`: the refinement mapping hides every intermediate
  state of a transaction, so each commit is one `Record` of the specification and the tree is the
  least closed set for what is held. It subsumes the question whether the drain's gate is right, and
  `NothingResolvableWaits` states that part directly. `PlacedUnderCaller`: where a call is put does
  not depend on which path put it there. The depth written beside it does: the fold writes the
  wire's, which is 0 for a script body, the drain the parent's plus one, which is 1 for it.
  `DepthWithinOne` is what remains: however the two take turns along a path, a node's depth is its
  distance from the root or one less (section 7).
* *Exactness under at-least-once delivery* - `BucketsAddUp`, `InvertedOnce`, `DeltasExact`,
  `NothingLost`, `OneHome`, `TreeOnlyGrows`. `SelfTimeExplained`: the code has no guard against a
  negative self time and needs none, unless the recorder itself sends callees longer than their
  caller.
* *Two databases* - `IndexAgrees` while nothing fails; `IndexNeverOvercounts`,
  `FinalizedIsReconciled`, `ConnsHaveFiles` whatever does; `NoOrphans` when finalize or deletion
  fails (a first batch whose index transaction is lost does leave a database without a row, until
  the next batch of its trace); `CleanMeansDrained` for the decision from the index.
* *Progress* - `TransactionEnds`, `EventuallyFinalized`, `EventuallyReclaimed`, `AckedIsRecorded`,
  `RequestsAnswered`.
* *Durability and files* - `AckedIsOnDisk`, `CommittedFilesStay`, `ChannelBounded`,
  `RefusedLeavesNothing` (but for a partial file that `remove_file` failed on), `PartialsAccounted`,
  `DecoderReadsWhatWasSent`, `CleaningSparesTheUnread`;
  `TracesApart` for what the trace key must tell apart.
* *Limits* - `BackpressureIsForeseen` for the probe, whose ratio counts the slots that commits hold;
  `GaugeTellsTheTruth` for the gauge, in both directions; what the walk had an I/O error on it does
  not know of, and it may then keep silent.
* *The process's life* - `ActiveServes`: whatever was accepted and whatever was left, all that is
  announced is there, and tmp/ holds no file of an earlier process; `RefusedTouchesNothing`, `AnnouncedEndsInOrder`, `StartSettles`.
* *Retention* - `KeepsTheYoung`: the sweeper removes nothing younger than the configured days.

Each property of a passing run has a mutant, a plausible slip in a definition that models the code
(`Mutant...`, beside the definition it changes), with which TLC finds it violated under the same
configuration. No symmetry is used: the calls, batches and requests of the instances differ.

## 5 Fairness

* `CallTree!FairSpec`: the loop, the drain and the commit go on once a transaction is open.
  `record_batch` is a synchronous function called with the mutex held; nothing in it waits for
  anyone. No fairness for arrivals, rollbacks or finalize.
* `TraceStore!FairSpec`: the holder of the mutex goes on (its operations await nothing but the
  disk); each loop ticks for ever (`tokio::time::interval`), and tokio's mutex is FIFO, so a loop
  that asks gets its turn; an idle trace grows older. That it expires is not assumed: otherwise
  retention would discharge `EventuallyFinalized` by deleting what the finalize loop leaves. Weak
  fairness on the ticks suffices because a bounded number of batches cannot keep the mutex taken for
  ever. Failures and arrivals are not fair.
* `Collector!FairSpec`: the runtime polls every handler past its body and the decoder (weak
  fairness); the lock of a trace and the storage mutex are FIFO, hence strong fairness for a waiter
  (`Lock`, `RecordTrace`). Receiving the body is up to the client and not fair; neither are the
  loops' ticks: nothing there is promised about them.

* `Service!FairSpec`: the start goes on (`Boot`: synchronous code or disk I/O), systemd's timers run
  out (`StartTimeout`, the restart of a waiting unit), the shutdown goes on (`Drain`, `Return`), and
  an upload comes to an end (`Commit`, `Refuse` or `Leave`), by its client or by its connection breaking. The last is an assumption
  about clients: `with_graceful_shutdown` has no deadline of its own, so a client that stalls and
  keeps its connection holds the shutdown until systemd's TimeoutStopSec.

## 6 Proofs

Every safety property and every action property of a passing run has a theorem, for all values of
the constants. For seven it has a condition, which their runs meet: `DepthWithinOne`, `NoOrphans`,
`RefusedLeavesNothing`, `TracesApart`, `KeepsTheYoung`, `CleaningSparesTheUnread` and
`DecoderReadsWhatWasSent`. Four of the five properties that a run finds violated have a theorem too,
with the condition under which they do hold; the fifth, `AckedIsRecorded`, is a liveness property.

`CallTreeProofs` proves, for every set of calls and functions, every claimed call graph (also a
cyclic one), every set of batches and any number of deliveries:

| Theorem | Statement |
|---|---|
| `Inductive` | `Spec => []IInv` |
| `TypeCorrect` | `Spec => []TypeOK` |
| `OneHomeHolds` | `Spec => []OneHome` |
| `PlacedUnderCallerHolds` | `Spec => []PlacedUnderCaller` |
| `NothingResolvableWaitsHolds` | `Spec => []NothingResolvableWaits` |
| `FinalizedIsDrainedHolds` | `Spec => []FinalizedIsDrained` |
| `TreeOnlyGrowsHolds` | `Spec => TreeOnlyGrows` |
| `Refinement` | `Spec => ImplementsTraceTree` |

Assumptions: `CallAssumption`, `MeasureAssumption`, `BatchAssumption`, `UnmappedAssumption`,
`BoundAssumption` of `CallTree`, which only type the constants. TLC evaluates them in the runs.

`NothingResolvableWaits` is not inductive, because nothing in it says why the drain may be skipped
or when it is done. `IInv` adds:

* `TxnTyped`, and `Sane` of the tables and of `saved`: types, `OneHome`, `PlacedUnderCaller`, a bucket
  for every call, and `Derived` (below);
* `Settled(saved)`, and `Settled(tables)` once `pc = "commit"`: no parked call is resolvable;
* `GateInv`: as long as the batch brought no name and the loop folded no call, still nothing parked
  is resolvable: this is why skipping the drain is safe;
* `DrainInv`: during the drain, each resolvable parked call is in `rows`, or is a child of a call in
  `work`: each is still going to be looked at;
* `Extends(tables, saved)`: a transaction takes no bucket away and lowers no sum;
* `TakesBatch`: what the transaction has taken over from its batch so far, and what couples `saved`
  with `pc` and `state`.

The refinement's non-stuttering steps are `Commit` and `FinalizeTrace`. The folded calls are the
resolvable ones: that they are in every closed set is `Derived`, a part of `Sane` that each fold
keeps (`SupportGrows`), so that no induction over the height of the tree is needed; that no
resolvable one is missing is `Settled`, since with it they are a closed set themselves.

`TreeProofs` builds on it and proves, for the same constants, what the tree's numbers are:

| Theorem | Statement |
|---|---|
| `CountsHold` | `Spec => []CountInv` |
| `BucketsAddUpHolds` | `Spec => []BucketsAddUp` |
| `DeltasExactHolds` | `Spec => []DeltasExact` |
| `InvertedOnceHolds` | `Spec => []InvertedOnce` |
| `NothingLostHolds` | `Spec => []NothingLost` |
| `SelfTimeExplainedHolds` | `Spec => []SelfTimeExplained` |
| `DepthWithinOneHolds` | `WireDepths` gives `Spec => []DepthWithinOne` |
| `RedeliveryHolds` | `Spec => []((\A c \in CallsOf(batch) : ~GivenUp(c)) => RedeliveryAddsNothing)` |

A sum over a set of calls is a fold in an order that CHOOSE picks, so that even "adding one element
adds its value" needs an induction over sets. The induction theorems of the library take a
predicate, which the provers cannot instantiate; the lemmas argue by a smallest counterexample
instead (`SmallestSubset`): the subsets of a finite set for which the sum differs are a set,
inclusion is well-founded on it, and its smallest member is not one (`SumsUnique`, `SumAdd`).
`CountInv` says of the open transaction and of the last commit (`Counted`) that each bucket is the
sum over its calls and is charged the sum over their callees, and that each call is merged or parked
or noted once; and of the transaction (`DeltaInv`) what it has added to the commit so far. From
`SelfTimeExplained`'s sums it follows by comparison that only a call sent with callees longer than
itself makes a bucket's self time negative. `WireDepths` is that the recorder gives a frame its caller's number plus one,
and a script body 0 (wire.rs:130) or 1 (the storage's tests); `DepthInv` says that the fold, which
believes the wire, and the drain, which counts, then stay within one of each other, also about the
rows and the work they still have in hand. `RedeliveryHolds` is finding 1 from its
other side: giving calls up at a finalize is the only way for a batch delivered again to be counted
twice.

`TraceStoreProofs` proves, for any keys and batches, whatever waits for what, any number of failures
and kills, and with files that others put into the raw directories:

| Theorem | Statement |
|---|---|
| `Inductive` | `Spec => []IInv` |
| `TypeCorrect` | `Spec => []TypeOK` |
| `ConnsHaveFilesHolds` | `Spec => []ConnsHaveFiles` |
| `FinalizedIsReconciledHolds` | `Spec => []FinalizedIsReconciled` |
| `IndexNeverOvercountsHolds` | `Spec => []IndexNeverOvercounts` |
| `IndexAgreesHolds` | `Spec => []IndexAgrees` |
| `CleanMeansDrainedHolds` | `Spec => CleanMeansDrained` |
| `NoOrphansHolds` | `Spec => []NoOrphans`, if neither recording nor the process fails |
| `GivenUpIsCountedHolds` | `Spec => []GivenUpIsCounted` |

from `BatchesAssumption`, `BoundsAssumption` and `RawAssumption`, which type the constants. The
properties speak of the two databases while the mutex is free, or of what failed long ago; `IInv`
says what they owe each other at each cut in between:

* `TickHolds`: a tick's candidates are, when their turn comes, as the index described them when it
  chose them (nobody else has the mutex, and no trace comes twice): this is what makes a decision
  from the index a decision about the trace;
* `ClosedHolds`, `RecordedHolds`, `SweepHolds`: what the first commit of finalize, of record and the
  first step of a deletion have done for the second to rely on;
* `AgreesWhileIdle`, `AgreesOnceRecorded`, `AgreesOnceClosed`: until something fails, index and
  database agree, or differ by `delta` between the commits of record, or by what finalize is going
  to write;
* `DrainedIsDrained`: a row that tells of nothing parked is right. It speaks of expired traces too,
  about which `IndexAgrees` is silent, because finalize may take one up just the same.

`GivenUpIsCounted` is no property of a run. It says that nothing `record_batch` returned Ok for
vanishes without a trace, whatever fails afterwards: as many as are not among a trace's calls any
more (`Missing`), `finalize_trace` has counted as given up. TLC agreed with it on the instance of
`store_faults` before it was proved.

`IngestProofs` proves, for any finite set of requests, any traces, batches, capacity and last batch
number, and any number of faults and retries:

| Theorem | Statement |
|---|---|
| `Inductive` | `Spec => []IInv` |
| `TypeCorrect` | `Spec => []TypeOK` |
| `ChannelBoundedHolds` | `Spec => []ChannelBounded` |
| `AckedIsOnDiskHolds` | `Spec => []AckedIsOnDisk` |
| `CommittedFilesStayHolds` | `Spec => CommittedFilesStay` |
| `BackpressureForeseen` | `Spec => BackpressureIsForeseen` |
| `CheckedHolds`, `PartialsKnownHolds` | `Spec => []Checked`, `Spec => []PartialsKnown` |
| `PartialsAccountedHolds` | `Spec => []PartialsAccounted` |
| `RefusedLeavesNothingHolds` | `Apart` gives `Spec => []RefusedLeavesNothing` |
| `TracesApartHolds` | `Spec => []TracesApart`, if batches with one key are of one trace |
| `FilesAreNeverReplacedHolds` | `Spec => FilesAreNeverReplaced`, without disconnects |
| `ImplementsIntakeHolds` | `Calm` and `Nothing` give `Spec => ImplementsIntake` |

from `IngestAssumption` and `RawAssumption`: batches belong to traces, requests are finitely many,
the capacity and the last batch number are positive. Neither durability property is inductive: they
say what is true after the rename, not why the rename is safe. `IInv` adds the chain of reasons:

* `LocksExclude`: a trace has at most one handler in its commit (`LockFree` is tested with the
  step);
* `NumberIsFree`: the number a handler picked is still free when it renames. It was free when the
  directory was listed (`NextNumberIsFree` of `RawFilesProofs`, which rests on `MaxBounds`: the
  maximum exists), and only a rename adds a number: that of another commit is of another trace by
  `LocksExclude`, and
* `LateDisturbs`: a late one is of a disturbed trace;
* `CommittedIsStored`: from the rename to the answer, and for ever after, the batch is on disk;
* `Begun`: what a handler has when it is where it is; without it a refusal could answer 200.

All but `CommittedIsStored` hold of the handlers whoever removes files beside them; they are
`CommitInv`, which is what the composition can use. The proof is organised by what a step may do to
the files, the locks and the channel (`FilesChange`, `HandlersMove`, `PermitsChange`): a few actions
matter to each, and the lemma says of the others that they leave it alone.

What a handler leaves on disk: `Checked` carries the outcome of each check through handlers, late
renames and files; `PartialsKnown` says where a request is that has a partial file, `StoredByItself`
and `LateIsGone` that a stored batch was renamed by its own handler or after it was cut off.
`UnremovedStay`: what is noted in `unremoved` stays noted until a restart.
`Apart`, that no two requests carry one body, is needed because a batch posted by two requests may
be stored by the one and refused to the other. That batches with one key are of one trace is what
`WireProofs` shows of the hash's input.

With fewer faults more holds. If no client leaves, no rename is late and a picked number stays free
(`StaysFree`) even while the loops remove directories, so that no file is ever replaced: finding 2
needs its disconnect. If nothing fails but file operations of handlers (`Calm`), `Ingest` implements
`Intake`. The mapping reads `waiting` off the channel and the item not yet read, so that `Send` is
`Accept`, `Read` is `HandOver`, and all else stutters. `DeliverInv` is what that rests on: a file
name has one file, and the file of every submission in the channel or in hand is there with what its
request carried. (`Nothing` says that the decoder can tell a batch from none.)

`CollectorProofs` proves, of the composition, for all constants of both parts:

| Theorem | Statement | Holds under |
|---|---|---|
| `CleaningSparesTheUnreadHolds` | `Spec => CleaningSparesTheUnread` | no resumed trace, no disconnect; kills and failures allowed |
| `DecoderReadsWhatWasSentHolds` | `Spec => DecoderReadsWhatWasSent` | no resumed trace, failing file operations only |
| `AckedIsKeptHolds` | `Spec => []AckedIsKept` | the same |
| `NothingLostWithoutKill` | `Spec => []KillLosesNothing` | the same, and every batch parses |
| `SettledIsCountedHolds` | `Spec => []SettledIsCounted` | the same as `AckedIsKept` |

from `CollectorAssumption`, from which those of the parts follow (`PartsAssume`). The proofs of the
parts are instantiated (`HP`, `SP`) over the composition's variables; the lemmas `Same...` say that a step of `Collector`'s own
instances is a step of theirs, and `Steps` what each step of the composition is to either part.
`IInv` is `HP!CommitInv` and `SP!IInv` together: the handlers keep the store's invariant because it
does not depend on the files (`OthersFiles`), the loops keep the handlers' because they only take
files away (`LosingFiles`).

The theorems are about the raw directories, which both sides change without a common lock.
`IdleTraces` is why that can go well: a trace the loops have chosen or are at has nothing under way
(`Busy`), and, under `~Resumes`, will not have again. Hence whatever the loops remove, `DeliverInv`
does not speak of (`LoopsSpare`), and `DeliveryInv`, the two together, is inductive. `KeepInv`
follows a batch on: what the decoder has read is what its submission was sent for, what
`record_batch` has between its commits is what the decoder has (`InHand`), and each acknowledged
batch is in the channel, in hand or recorded (`AckedIsKept`). With `GivenUpIsCounted` of the store
that closes the way from the 200 to the tree: `SettledIsCounted` says that of the acknowledged
batches the decoder is through with, as many as are not in their trace's database were counted there
as given up, until retention takes the trace.

`ServiceProofs` proves, for any launches, indexes, traces and stray files and any scale of time:

| Theorem | Statement |
|---|---|
| `Inductive` | `Spec => []IInv` |
| `TypeCorrect` | `Spec => []TypeOK` |
| `ActiveServesHolds` | `Spec => []ActiveServes` |
| `RefusedTouchesNothingHolds` | `Spec => []RefusedTouchesNothing` |
| `AnnouncedEndsInOrderHolds` | `Spec => AnnouncedEndsInOrder` |
| `GaugeTellsTheTruthHolds` | `Spec => []GaugeTellsTheTruth` |
| `KeepsTheYoungHolds` | `NoOverflow => (Spec => KeepsTheYoung)` |

from `ServiceAssumption` (the numbers of a parsed file are unsigned, a table of traces has its start
time, an index without tables has no version) and `FilesAssumption` (finitely many files; another
program's have no place in the layout). `IInv` is the start written as a table: `UnitFollows`, what
systemd may believe at which stage; `SetUp`, `Configured`, `IndexReady`, what has been set up by
then; `Untouched`, that a refusal comes before any change; `TmpIsOurs`, that a partial
file in tmp/ is of an upload this process has taken; `Counted`, types. `ActiveServes` needs all of it: that a unit is active only says that the process
is at its last stage. That the three loops run rests on `Configured`, since a period of 0 would
panic the task, and it is the rules of `validate` that exclude it. The gauge's theorem has an
invariant of its own, `WalkIsHonest`, from which the counted files lie between those that stayed and
no error hid, and those ever there; `OverMonotone` turns the inclusion into the threshold. `NoOverflow` says that the
days of every accepted configuration fit into an i64 of nanoseconds; finding 5 shows it is needed.

`WireProofs` proves `HashInputInjective`, that two metas without a UUID have the same bytes hashed only if
host, pid and start time agree: for all hosts, and all u64 and i64 numbers. The host has no length in
front of it; what makes it work is that the sixteen bytes behind it have one.

What only TLC checks:

* liveness: `TransactionEnds`, `EventuallyFinalized`, `EventuallyReclaimed`, `AckedIsRecorded`,
  `RequestsAnswered`, `StartSettles`. They rest on fairness, that is on ENABLED, which tlapm 1.4.5
  does not handle.
* what is true of the instances only: that the requests which the handlers of `MCIngest` refuse are
  those that `Gate` and `Wire` refuse, and that its keys are those of `FromMeta`.

## 7 What the runs found

1. **redelivery** - `C/storage/mod.rs:154` says a redelivered batch contributes 0 to both counts.
   Finalize deletes the calls it gives up from `pending_calls`; delivered again, they are new. There
   is no other way to it (`RedeliveryHolds`).
2. **disconnect** - `C/http/storage.rs:54` says two concurrent batches of a trace cannot pick the
   same file name. A handler dropped at the await of its rename frees the lock while the rename
   still runs; the next one lists the directory, picks the same number, and one file replaces the
   other. Only a client that leaves brings this about (`FilesAreNeverReplacedHolds`).
3. **resumed** - the promise that what is acknowledged with 2xx is recorded (SPECIFICATION.md:144,
   INV-1) fails without any fault: the batch is stored and acknowledged after its trace turned idle;
   the tick finalizes the trace clean and removes the directory before the decoder opens the file.
   Without traces that go on after they were idle the loops take no file that waits to be read
   (`CleaningSparesTheUnreadHolds`).
4. **killed** - AC-3.1.3 (SPECIFICATION.md:193): a SIGKILL loses no acknowledged batch. The file
   survives, but nothing replays it, and the clean finalize of its trace deletes it. As long as the
   process runs it cannot (`NothingLostWithoutKill`).
5. **forever** - `C/retention.rs:58` says the offset fits an i64 even at `u32::MAX` days, "~136
   years". That many days are 11.8 million years; from 106752 days on the product wraps in a release
   build, to a negative offset for some values, and the first tick then removes every trace.

Met while reading, and not checked by a run:

* `C/storage/mod.rs:239`: after a crash between the two commits the trace appears empty until the
  same batch is retried. The retry finds every call known and adds 0: the row appears, its counts
  never do. (`TraceStore` has the steps; `IndexAgrees` therefore speaks of the time before a failure.)
* `C/http/server.rs:51`: the decoder exits once the channel is drained. Nobody joins its task:
  `http::run` returns after the graceful shutdown, and the runtime drops the batches still queued.
* `C/http/health.rs`: with a capacity of 10 or less, no free-slot ratio lies between 0 and the
  threshold, so that the probe turns degraded only when no slot is left. It still comes before the
  503, as `BackpressureIsForeseen` demands.
* `etc/`: TimeoutStartSec, 90 s by default, is longer than StartLimitIntervalSec = 60, so a start that
  is always overdue never meets the start limit and is repeated for ever. And tmp/ is emptied and
  the loops are spawned before the address is bound: a second instance started by hand does both
  beside the first.
* `C/storage/schema.rs:21`: only the index checks `sapi`. A batch with another value is answered 200
  and recorded, and its index transaction fails each time.
* AC-7.2 (SIGHUP) is not implemented, as COMMENTS.md:240 records; nor is the check DI-3 promises at
  finalize (SPECIFICATION.md:1206, COMMENTS.md:250).
* `C/wire.rs:130` documents the depth of a script body as 0 and of its direct callees as 1. The fold
  writes that number into the node (aggregate.rs:391); the drain, for which `pending_calls` has no
  depth, writes the parent's plus one, which is 1 for a script body. So the depth of a node depends
  on the order of arrival, and a callee may be shown with its caller's depth. COMMENTS.md:563 calls
  it a locked guarantee that batches in any order give the same depths, since fold and drain agree on
  valid wire depths, and the test for it (`C/storage/mod.rs:2732`) numbers a top-level call 1, "exactly
  as they do for valid wire data". One of the two places is wrong about what is valid. The instances
  number as wire.rs does, and no property here says that depths are independent of the order.
* `C/observability/disk_usage.rs:127` and `:134` pass over every error, not only a file that vanished.
  After an I/O error the gauge counts too little and raises no warning, without a line in the log.
* The CPU flag of the index may differ from the trace's until finalize.

## 8 What is not covered

* Formats: MessagePack, TOML, SQL and log lines. A parser is which fields it demands; the hash of a
  trace key is taken to be injective on its input; a UUID is its digits. Sizes of files.
* SQLite: its transactions are taken to be atomic and durable; readers in other processes see
  `saved`.
* The disk: fsync is taken to do what it says. A power failure, as against a kill, is not modelled.
* CPU, memory and exit sums; the arguments and return values kept per node.
* In `Ingest` and `Collector` the graceful shutdown is not told apart from a kill: either way the
  channel is dropped. `Service` has the shutdown, without the detail of a handler.
* The request log and the wording of answers, which change no state.
* Lock-map growth (`TraceLocks` is never pruned), which has no effect on behaviour.
* Components with status `not_modelled` in PROJECT.json, each with its reason there: the PHP API and
  the JavaScript viewer, which are programs of their own, and the installation scripts.

## 9 Plan

Done: the core (`TraceTree`, `CallTree`), the storage with its loops, ingest, their composition, the
process and its configuration, the filters, the wire and the trace key; theorems for every safety and
action property of the runs. Next, in this order:

1. The index transaction that `sapi` makes fail for ever (the one hazard without a property), as a
   batch of `TraceStore`.
2. That `TraceStore`'s record and finalize implement the sequence of `TraceTree` steps of each
   trace, as a theorem; `Service` as the environment of `Collector`.
3. `TreeView`: expansion, collapse, sorting and deep link of `viz/js/detail.js` with several fetches
   in flight, over an abstract tree; the row list must stay a prefix walk of the tree.
4. `TraceList`: search and paging of `viz/js/list.js` over `api/traces.php`, whose count and page
   are two queries, while traces come and go.
