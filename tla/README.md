# A TLA+ model of blobscan-ipld

blobscan-ipld indexes the blobs of an Ethereum-like beacon chain as IPLD: for every finalized
epoch it fetches the blobs, builds a DAG of blocks, uploads it to IPFS (Kubo) and records the
epoch, its blobs and its own progress in PostgreSQL.  This directory holds a model of how it
decides which epochs are processed, how it fetches, builds, uploads and records them, and what is
left behind when something fails; the TLC runs that check the model; and machine-checked proofs of
its main invariants.

## 1. The system

| Part | Source | State | Operations |
|---|---|---|---|
| Pull loop | `generator/generator.go` 240-426 | live cursor | `Run`, `runLive`, `runSequential`, `processLiveTick` |
| Backfill | `generator/generator.go` 428-686 | backfill cursor, three channels, reorder map | `runBackfill`, `runBackfillPipeline` |
| Build and persist | `generator/generator.go` 700-883, 1187-1343 | in-memory blocks | `buildEpoch`, `persistEpoch`, `uploadAndPin`, `rebuildNetworkRoot` |
| Push, finalize, repair, re-upload | `generator/generator.go` 885-1183, 1346-1563 | - | `ProcessBlobInput`, `finalizeEpochInner`, `RepairEpochs`, `ProcessSingleEpoch`, `BackfillIPFS` |
| Database | `db/db.go` | `ipld_epochs`, `ipld_blobs`, `ipld_state` | `SaveEpoch`, `SaveBlobs`, cursors, `EpochExists`, reports |
| File state | `state/manager.go` | JSON file and its copy in memory | cursors without a database |
| Beacon client | `beacon/client.go`, `beacon/elclient.go` | shared backoff, counters, block cache | `get`, `FetchEpochInput`, `GetBlobTxData` |
| IPFS client | `ipfs/client.go` | blocks and pins of the Kubo node | `PutBlockstore`, `Pin`, `VerifyLocal` |
| DAG builders | `builder/*.go` | none | blob, epoch (map or shards), network root (pages), range |
| Stores, CAR | `store/*.go`, `car/exporter.go` | map of blocks; a file | put, get; export |
| HTTP API | `api/server.go` | none | `POST` of a blob, with or without finalization |
| Command line | `cmd/blobscan-ipld/main.go` | none | `run`, `serve`, `epoch`, `backfill-ipfs`, `health-check`, ... |
| Notifier, configuration, metrics, types | `blobscan/`, `config/`, `metrics/`, `types/` | none that decides anything | - |

How they interact.  `Run` reads the finalized epoch and both cursors, anchors the live goroutine
at the tip and starts the backfill goroutine for the epochs before it.  Both write to the same
tables and each advances its own cursor after each epoch.  Commands and push requests, in the
same process or another, write to the same tables and set the same cursors.

What is hard to get right, and hard to test: workers that finish out of order; errors, shutdowns
and losses of the process at any point of a pipeline of four kinds of goroutines; a write that
was committed although its answer was lost; a cursor whose value 0 means "none"; two goroutines
and several commands that share cursors; an epoch saved in two transactions; requests of five
kinds that write to the same rows, pushes of anything among them; a back-off and a cache shared by
parallel requests; a cursor kept in memory and in a file.  `PROJECT.json` lists these hazards with their lines.

## 2. Modules

| Module | Models |
|---|---|
| `SequentialBackfill` | what the backfill promises: one loop that saves an epoch, records it in the cursor, goes on, and returns to the cursor when the process is lost |
| `BackfillPipeline` | what the code runs: dispatcher, workers, collector, consumer, retry loop, shutdown, crash, restart |
| `PullLoop` | `Run` with a database: live goroutine, backfill goroutine (as the sequential loop), commands, finality, restarts |
| `EpochStore` | both tables, the blocks of the IPFS node and the NetworkRoot, written by concurrent pulls, pushes, finalizations, repairs and re-uploads; what health-check and the CAR export read |
| `Dag` | the pure algorithms: index of an epoch (map or shards), pages of the NetworkRoot, ranges and gaps of epochs |
| `Pools` | the five worker pools, with what their callers make of the results; extends `Dag` |
| `BeaconClient` | concurrent calls of `FetchEpochInput`, `get` with the back-off they share, the execution client's cache |
| `Service` | the process without a database: configuration, network check, `run` and `serve`, `runSequential`, the state file |
| `MC...` | constants and symmetry for TLC |
| `...Proofs` | theorems and their proofs; `PoolsProofs` rests on those of `DagProofs` |

`BackfillPipeline` is shown to implement `SequentialBackfill` (`ImplementsSequential`, with the
refinement mapping `next <- nextResume`), checked by TLC and proved.  `PullLoop` uses the
sequential loop for its backfill goroutine for that reason, and adds the one thing the
implementation does not rule out: an attempt that never returns (`stuck`).

### BackfillPipeline

One action per step that other goroutines or the database can observe.

| Code | Model |
|---|---|
| `workCh`, `resultCh`, `pending` | sequences with the capacities of the code (`ChanCap`, `PendingCap`); "closed" is a predicate on where the closing goroutine is |
| `reorder` | a set of results; `InOrder` is the one `nextExpected` asks for |
| `pctx` | `PctxDone`: the parent's `ctxDone` or the consumer's `cancelled` |
| dispatcher | `Dispatch`, `DispatchAbort` (returns *without* closing `resultCh`), `DispatchClose`, `DispatchFinish` |
| worker | `WorkerTake`, `WorkerLookup` (`EpochExists`), `WorkerBuild`, `WorkerFail`, `WorkerSend` (blocks; does not select on `pctx`), `WorkerExit` |
| collector | `CollectorReceive`, `CollectorFlush`, `CollectorAbort`, `CollectorFinish` |
| consumer | `ConsumerReceive`, `SaveEpoch`, `SaveBlobs`, `SetBackfillCursor`, one `...Fails` action for each, `Drain`, `PendingExhausted`, `Join` |
| `runBackfill` | `Join` (evaluates the attempt, rebuilds the root), `Retry`, `SleepInterrupted` |
| process | `Shutdown`, `Crash`, `Restart` |

A call fails when its context is cancelled or while a fault is left in the budget.  A failing
write may have been committed: only its answer was lost.  A successful call needs a live context;
a call that succeeds just after a cancellation is the same as one that succeeded just before.
An epoch that is built has no cached blob rows here: blob rows reference an epoch row, and an
epoch with a row is skipped.

### PullLoop

`Boot` reads, `Anchor` sets the live cursor and starts the backfill; `Tick`, `LiveProcess`,
`LiveSetCursor` are `processLiveTick`; `RunFails`, `LiveFails`, `BackfillFails` their errors.
`ProcessSingleEpoch` stands for the `epoch` command and for finalization, which save an epoch and
set the live cursor to it; `BackfillIPFS` for the write of the backfill cursor that the command of
that name ends each epoch with (the rest of it is in `EpochStore`), and is only part of
`SpecWithBackfillIPFS`.  `Init` has a fresh database or one that an older, sequential
release has filled, whose live cursor is read as the highest epoch in the table.

### EpochStore

A request is a record with the list of its remaining steps (`todo`); a step is one call to the
node or the database, and another request or a crash may come between any two.

| Code | Model |
|---|---|
| `ipld_epochs`, `ipld_blobs` | `epochRows`, `blobRows`, keyed as in the schema; `SaveEpochRow`, `Placeholder`, `UpsertRow` are the statements with their conflict clauses |
| blocks | `blocks` (on the node), `discarded` (put into a `NullBlockstore` because of `IPFS_SKIP_UPLOAD`) |
| CID | its content: `Data`, `Meta`, `EpochNode`; `Closure` is what a root reaches |
| `buildEpoch`, `persistEpoch` | `StartProcess` reads the cache or fetches; then `Upload`, `SaveEpoch`, `SaveBlobs`, `RebuildNetworkRoot` |
| `validateBlobRequest` | `Pushed`: a push may carry any blob, on the chain or not, at any slot and index |
| `ProcessBlobInput`, `finalizeEpochInner` | `StartPush` (with or without finalization), `StartFinalize`, `Finalize` |
| `RepairEpochs`, `BackfillIPFS` | `StartRepair` (strict or not), `StartBackfillIPFS`, `Verify` |
| failures | `UploadFails` (any part may have arrived), `SaveFails` (committed or not), `Crash` |
| health-check, empty epochs, `export-car`, `export-car-range` | `Unhealthy`, `GetEmptyEpochs`, `Exported`, `ExportedRange` |

The instance has one network and distinct commitments: with a shared database or a repeated blob
the keys of the tables make rows disagree by design (`PROJECT.json` lists both).  A push
carries the data and the versioned hash of its commitment, which the code does not verify.  An epoch
node is a function of the metadata it links to: places only order the occurrences of one hash.  `Unhealthy` leaves out the checks that only warn (sizes, gaps, cursors).

What a push can do that no later request undoes, and what the properties therefore except:

- The upsert of `SaveBlobs` keeps slot and `blob_index` of the first row.  A blob that was pushed at
  another place than the chain's (the API documents the index as that within the transaction, the
  beacon node numbers the blobs of a block) keeps it when `backfill-ipfs` re-fetches the epoch,
  while its metadata is replaced: tier 1 of `health-check` then fails on it.  These rows are
  `Misplaced`, and `Settled` promises an epoch that is sound in all respects only without them.
- A pushed blob that is not on the chain stays in the rows; `backfill-ipfs` builds its root of the
  chain's blobs alone.  `Genuine` are the other rows; `Settled` promises count and root, and
  `BackfillRecovers` the rows of the chain, for those.
- `health-check` fails an epoch on a `blob_index` that two rows share (`DuplicateIndices`), which an
  epoch with blobs in two blocks has however it was indexed.  `Settled` excepts this check.

### Dag and Pools

`Pools` draws in `Init` which pool runs, on which input, and what the work of each job comes to;
`CheckContext`, `Feed`, `CloseJobs`, `Collect`, `Return` are the goroutine that owns the pool,
`Take` and `Finish` a worker.  The kinds differ in the capacity of the channels, in what a failure
does (`blobs` returns at once, `upload` cancels and waits, the others go on) and in where results
go (by index or in order of arrival).  The functions of `Dag` are applied to these results and
compared with a definition by sets: an epoch's index with the occurrences of each hash, merged
ranges with the epochs they cover, pages with what a reader of the root looks up.

`Sorted` stands for `sort.Slice` and `ORDER BY`: the k-th element is the one that k - 1 others come
before.  `SortSeq` and `SelectSeq` of the libraries would do for TLC, but nothing can be proved of
them: the prover takes them for primitives without a definition.  The loop of `collapseRanges` is a
recursive function for the same reason; `Lead` is the window function of the query for gaps.

### BeaconClient

The workers of the backfill and the live loop (`Fetcher`) call `FetchEpochInput` beside each other:
one beacon client and one execution client are shared by all, the semaphore and the errgroup's
context belong to a call.  `pc[<<f, s>>]` is where the goroutine of caller `f` and slot `s` is: waiting
for the semaphore, looking up the cache, looking at the back-off, sleeping, waiting for an answer,
indexing a block.  `CheckBackoff`, `Wake`, `Answer`, `TooManyRequests` and `RequestError` are `get`;
`Call`, `Acquire`, `Wait` and `Interrupt` are `FetchEpochInput` with its errgroup; `LookUp`, `Index` and
`IndexFails` are `blockIndex`, which looks the block up and stores it under separate locks, so that
two callers may both fetch it: the comment on `ExecutionClient` ("at most once per process
lifetime") holds for callers that follow each other, `ResolvedByEach` for all.  All callers fetch the
same epoch, the case in which they share the most.  A 404 is true: the slot has no block.

`BackoffBase` may be longer than `BackoffCap`, as nothing in the configuration prevents: the cap is
applied when the back-off is doubled and not when it is set, so `Capped` (in `TypeOK`) allows the
configured value itself, where the documentation says "capped at 60s".

### Service

`Start` is `config.Load`, `generator.New` (`NetworkVerified`, `NewManager`) and the command.
`Tick`, `Process`, `ProcessFails` are `processLiveTick`; a save is `SaveStep` (memory), `Write`
(temporary file) and `Rename`, and `SaveFails` leaves memory and disk apart.  `Signal` and
`Stopped` are the orderly end, `Crash` the other one; `RunReturns` is the one thing `run` and
`serve -pull` treat differently: the first exits and is restarted, the second serves on without a
pull loop.

## 3. Runs

Runs that pass:

| Run | Question | Instance |
|---|---|---|
| `pipeline_safety` | does any interleaving of the pipeline with one build fault, one persist fault and one loss of the process break order, cursor or completeness, and does it implement the sequential loop? | 2 workers, 3 epochs, with and without blobs |
| `pipeline_liveness` | does a failing build with one worker always lead to a retry that completes, and is the range indexed in spite of a shutdown or a crash? | 1 worker, 4 epochs, 2 build faults, a crash |
| `pull_loop` | does every epoch belong to somebody, and never to both goroutines; is every finalized epoch indexed in the end; do commands that set the live cursor harm the backfill, and does the next start heal the gaps? | epochs 0..4, so that the cursor 0 is met; a fault, a crash, a command |
| `store` | do the tables, the node and the NetworkRoot agree after any mixture of requests, failures and crashes; do the recovery commands recover? | an epoch with two blobs and one without; pushes of the first blob, of the second at another index, and of one that is not on the chain; 3 requests, 2 at a time, 1 fault, uploads skipped or not |
| `pools` | are jobs lost, counted twice or mixed up, does anybody wait for ever, and are indices, ranges, pages and gaps exact? | 2 workers, each kind of pool, indices as map and as shards, epochs 0..5 |
| `beacon` | is an epoch fetched whole or not at all, the back-off kept, a block resolved once by each caller, and does every fetch end? | 2 callers, 2 slots (two blobs, missed), one at a time in a call, 2 calls, 2 faults, a base back-off above the cap |
| `service` | does the process without a database skip an epoch, read a broken file, repeat what the file says is done, or stop indexing? | 12 environments, epochs up to 3, 2 faults, 2 ends of the process |

Runs that show a disagreement between the code and what a comment or a document says of it:

| Run | Shows |
|---|---|
| `pipeline_build_error` | with two workers, a failing build can leave the attempt waiting for ever: the collector has returned, the other worker is blocked on `resultCh`, the dispatcher on the worker, the consumer on the dispatcher |
| `pipeline_persist_error` | a failing write can do the same: the dispatcher leaves through `pctx.Done` without closing `resultCh`, the collector waits for it, the consumer drains `pending` for ever |
| `pipeline_blob_rows` | a crash between `SaveEpoch` and `SaveBlobs` leaves an epoch without blob rows that is never processed again |
| `pull_anchor_gap` | the epoch before the finalized tip is given to neither goroutine until the next start |
| `pull_backfill_ipfs` | the `backfill-ipfs` command moves the backfill goroutine's cursor over epochs that were never indexed |

Bounds.  Two workers suffice for overtaking, for one worker stuck behind another, and (with
channels of capacity two) for full channels; three epochs keep both workers busy with a third
waiting; the failing build that blocks needs a fourth.  One fault of each kind can hit any call.
Budgets bound faults, crashes and commands, never their place.  In `PullLoop` four or five epochs
leave room for a backfill range, the anchor, the tip, and a tip that advances.  In `EpochStore` two
requests at a time meet at every step and a third sees what they left; two blobs distinguish a
part of an epoch from the whole, and a threshold of two makes the same epoch one with shards; the
three pushes are one of each kind (as on the chain, misplaced, not on the chain).  In
`Pools` there are more jobs than workers and than tier 1's channel holds, and page and shard sizes of two put epochs
and hashes on both sides of a boundary.  In `BeaconClient` there are more slots than places in the
semaphore, the cap of 2 is met when the base 3 is doubled, and two calls run beside each other or
one after the other.  Only one of its two slots has blobs: with a third slot two callers are beyond
TLC's reach, and that blobs come in the order of their slots is left to the proof.  In `Service` a second end of the process can
hit the recovery from the first.  Symmetry of workers
and of requests is used in `pipeline_safety` and `store`, which check no liveness.  Deadlock is
not checked, since these systems do stop: a backfill, a pool or a fetch ends, and requests and
epochs reach their bounds; that nobody stops too early is what the liveness properties say.

Fairness.  Each goroutine that can run does (weak fairness for the dispatcher, each worker, the
collector, the consumer; for `Run` and the live loop, whose ticker ticks).  After a signal the
process ends, and a supervisor starts it again (the compose files have a restart policy).
In `Pools` and `BeaconClient` every goroutine that can run does, clocks advance, and requests end
because clients and contexts have deadlines; in `Service` the ticker ticks, calls end, `Shutdown`
has a deadline and the supervisor restarts.  All of it is weak fairness.
Nothing obliges a call to fail, a process to crash, or the chain to finalize.

## 4. Theorems

For every value of the constants (pools of workers, ranges, epochs, slots, inputs, budgets of
faults).  Every invariant and action property of the runs that pass is among them:

| Theorem | States |
|---|---|
| `PipelineTypeCorrect` | `Spec => []TypeOK` |
| `PipelineStrictOrder` | the consumer sees the epochs in order, without a hole |
| `PipelineSkipsAreSaved` | a "skip" is still true wherever it has got to |
| `PipelineCursorCovered` | every epoch up to the cursor has its row |
| `PipelineResumeCovered` | everything before the epoch a retry starts at is saved |
| `PipelineImplementsSequential` | the pipeline implements `SequentialBackfill` |
| `PipelineCursorMonotonic` | the cursor is never moved back (from the refinement) |
| `PipelineNothingLost` | a dispatched epoch that is not forwarded is in exactly one place of the pool |
| `PipelineCompletionIsComplete` | completion is reported only for the whole range |
| `SequentialCovered`, `SequentialMonotonic` | the same for the abstract loop |
| `PullLoopCursorCovered` | the backfill cursor stays covered in the whole pull loop, commands included |
| `PullLoopHealedOnStart` | a start of `Run` that anchors leaves at most the anchor epoch to nobody |
| `PullLoopTypeOK` | cursors and ranges stay within the finalized epochs |
| `PullLoopNoGapButAnchor`, `PullLoopDisjoint` | while no command sets the live cursor, only the anchor may be nobody's, and the two goroutines never work on the same epoch |
| `ServiceCursorsCovered` | neither the file's cursor nor the one in memory passes an epoch that was not indexed |
| `ServiceNotRepeated`, `ServiceAtomic` | what the file says is done is not processed again, but for epoch 0; the file is never partial and its cursor never goes back |
| `BeaconCapped`, `BeaconPaced` | the doubled back-off is capped, also when the configured one is longer; during one, only requests are sent that waited for an earlier one when it began |
| `BeaconWholeEpoch`, `BeaconResolvedByEach` | a fetch returns the whole epoch in order or an error; a block is resolved at most once by each concurrent caller, for any number of callers |
| `BeaconTypeOK` | `Spec => []TypeOK`: the semaphore, the back-off and what each slot gathers keep their bounds |
| `StoreSavedResolves` | CIDs in the tables and in the NetworkRoots name blocks that were stored |
| `StoreExportComplete` | the CAR of a sound range has every block under its root, but shards |
| `StoreBackfillOnNode` | what `backfill-ipfs` has finished is on the node |
| `StoreGenuinelyEmpty`, `StoreBackfillRecovers`, `StoreSettled` | for `Separate` constants, whatever is pushed: no epoch only looks empty, `backfill-ipfs` recovers the epoch, and a request alone at its epoch leaves no orphans and the count and root of its rows; `backfill-ipfs` nothing that health-check fails on, with the exceptions of section 2 |
| `NetworkRootPages`, `EpochGaps`, `CollapsedRanges` | pages, gaps and merged ranges are exact for every finite set of epochs and every page size |
| `EpochIndex`, `NodeOrderIndependent` | the index of an epoch is exact, for every number of blobs, threshold and shard size, and does not depend on their order |
| `PoolsEpochIndexed`, `PoolsOrderIndependent` | the same for what `processEpochBlobs` makes in parallel |
| `PoolsNothingHidden`, `PoolsRemedyExact`, `PoolsUploadSettled` | what `pin-existing`, the summary, `health-check` and `PutBlockstore` report is what happened |
| `PoolsPagesExact`, `PoolsGapsExact` | the pure theorems in the form the run checks |

Assumptions: `PipelineAssumption` (the range is not empty, there is a worker, the pool is finite,
the bounds are naturals), `PullLoopAssumption`, `ServiceAssumption` and `BeaconAssumption` (bounds
are naturals, base and cap of the back-off at least 1, the callers finitely many);
`EpochStoreAssumption` (an epoch has finitely many blobs, and so have its pushes, `Ops` names operations, bounds are
naturals); `DagAssumption` (shards and pages have at least one entry); `PoolsAssumption` (slot and
index name a blob of an epoch, as the beacon node numbers them; epochs are naturals; the epochs
quantified over in `PagesExact` and `GapsExact` are finitely many without a hole).  The theorems on the
abstract loop have their hypothesis (`NonEmptyRange`) in their statement, and three theorems on the
store have `Separate`: one network in the database (`OneDatabaseEach`), no commitment at two places
of the chain, and none offered in two epochs, by the chain or by pushes (`NoBlobTwice`); the place
that a push names is free.  The tables are keyed by epoch and by commitment alone, so without it
another network or another epoch takes over a row, and the three statements are false; the
instance of the run `store` satisfies it.  The other theorems on the store do without.

The argument for the pipeline.  `CursorCovered` is not inductive: the cursor is set to whatever
the consumer holds.  It needs `ResumeCovered` (everything before `nextResume` is saved, and the
cursor is at most one cursor write ahead of it), `StrictOrder` (the epoch the consumer holds is
`nextResume`, and `pending` continues from there up to `nextExpected`, so what the collector
forwards next is what the consumer will need next) and `SkipsAreSaved` (an epoch that is not saved
by the consumer was saved before).  With `TypeOK` they are inductive; `pipeline_safety` checks the
same conjunction on its instance.  The workers need no ordering invariant: the collector forwards
only the result whose epoch is `nextExpected`.  For the refinement, a step of the consumer that
writes the row is `Save`, one that writes the cursor is `Record`, a crash or a restart is `Lose`, a
retry starts at `nextResume` and, like every other step, is a stutter.

`NothingLost` counts places; the invariant behind it (`FlowInv`) has no numbers: what was taken from
`workCh` and not forwarded is somewhere (`Present`), nothing else is (`Within`), nothing is in two
places (`Once`), and `workCh` continues where it ends.  The four cardinalities are then those of one
singleton and three empty sets (`CardinalityOne`).  `CompletionIsComplete` adds how the pool ends: a worker leaves with
work undone only behind an error that is on its way to the collector (`ShutInOrder`), so what the
collector leaves for the consumer ends with an error or with the last epoch (`Ending`).

For the pull loop, `Behind` says that the backfill goroutine is not ahead of what it has saved,
and `Launched` that while a backfill runs `Run` is past its anchor, so that `bNext` has one writer.
`NoGapButAnchor` and `Disjoint` need more (`GapInv`), as long as the live cursor has not been
disturbed: the cursor `Run` has read is the one in the table (`Read`, `Fresh`), the range of the
backfill ends before the live goroutine's epoch (`Apart`), which is ahead of its cursor (`Ahead`),
and only the anchor is left over.

For the service, a cursor in memory that is covered is not enough: the invariant adds that the
epochs before the loop variable are indexed, the current one too once it is being recorded, and
that this one is what is renamed (`Behind`), that the file is never ahead of memory (`Ordered`)
and that what is processed is after the cursor in memory (`Onward`).  For the beacon client `PaceInv`
says that who waits for the back-off in force waits as long as it lasts, and `FetchInv` says of each
goroutine that what it has gathered is a beginning of its blobs, all of them once it is done, unless a
failure of its call is recorded.  For `ResolvedByEach`: once a block is cached, nobody starts to
fetch it, and those who did fetch it and those still at it are different callers (`CacheInv`).  For `TypeOK`, a place of the semaphore is taken only while one is free (`StepHeld`).

For the store, `SavedResolves` needs that every request is sound (`RequestSound`): what it is going
to save is stored, or among what it will upload before it saves; and that the count of a row is that of
its root.  Other requests only add blocks, so what was stored stays stored.  `SeparateInv` follows a
request that is alone at its epoch: until it saves the rows of the blobs, its root is that of what it
will save, and then that of the rows there are, or for `backfill-ipfs` of those that are on the chain
(`Alone`); nobody else is active at the epoch
(`Exclusive`), so no row changes under it.  A row that counts no blobs belongs to an empty epoch, or
the blob rows give it away (`EmptyRows`).

For the algorithms, a finite set under a strict total order has exactly one element for each rank
(`RankBound`, `RankGrows`, `RankOnto`), so `Sorted` lists it.  Each page is an interval cut out by
division; the gaps are the interval from the first to the last epoch without the epochs themselves, so
their number is the difference of the two cardinalities (`GapsCounted`).  The loop of
`collapseRanges` has the invariant `Built`: the ranges so far cover the epochs read so far, apart
from each other, and the last one ends at the last epoch read.
Induction over numbers is done by least counterexample, with the well-foundedness of `<` on the naturals.
The shards partition the groups (`ShardsCover`).  A permutation maps the places of a hash onto each
other and keeps their ranks, hence the node.

For the pools, a job that was fed is on a channel, at a worker, handed over or counted (`Accounted`),
so when the goroutine that waits finds everything quiet all are counted; what is handed over or
entered for a job is what its work came to, made worse at most by an interrupt (`Sound`).  The reports
then reduce to the theorems on the algorithms.  The invariants of the store and the pools
(`StoreInv`, `SeparateInv`, `PoolInv`) were checked with TLC on small instances before they were proved.

Only model-checked: liveness (`Completes`, `TearsDown`, the three `IndexedEventually`, `AllEnd`,
`FetchEnds`), which like `ENABLED` is outside the prover's reach; and `PinJobs`, the selection of
`pin-existing`, which the run evaluates on its inputs: the theorems take any input.

## 5. Not modelled

- Metrics, logging, the notifier (one request whose failure is logged), the health, metrics and
  documentation endpoints, printing of reports, record types: no decision depends on them.
- The bytes: DAG-CBOR, CIDs, CAR files, JSON, hexadecimal.  A CID stands for its content, and
  which blocks a CAR holds is modelled, not how.
- The format of `export-blob-refs`; IPNS, `DagStat` and `RepoStat`: single requests and prints.
- Statistics of the database (largest epochs, months): queries that are only printed.
- The rate limiter of the beacon client, which delays requests and refuses none.
- Garbage collection of the IPFS node: blocks stay, so pins have no effect in `EpochStore`; what
  `pin-existing` reports is in `Pools`.
- A change of configuration between two starts, except that uploads are enabled (`EnableUpload`).
- The `epoch` command beside a process without a database: both would write the same state file.
  `Service` has one writer; with a database the command is part of `PullLoop`.
- Two networks in one database, and a blob that appears twice; see `EpochStore` above.
