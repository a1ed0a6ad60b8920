# TLA+ models of DMI

DMI records the internal tensors of a running language model. This directory holds
TLA+ models of its concurrent and durable parts, the TLC configurations that check them
on small instances, and proofs, checked by TLAPS, of what matters most for every instance.

## The system

| Part | Code | Modules |
|---|---|---|
| Legacy capture ring | `native/csrc/ring`: `ring_engine_py.cu`, `drain_thread.cpp`, `p2p_thread.cpp`, `producer.cu`; `hooks/point.py`, `adapters/base.py`, `transport/ring.py` | `Ring`, `RingInvariant` |
| Record consumer | `ring/record_consumer.cpp` | `RecordConsumer` |
| Record ring | `ring_engine_py.cu` (record half), `drain_thread.cpp`, `records.py`, `hooks/record.py` | `RecordRing` |
| Native pack sink | `sink/pack_sink.cpp`, `sink/native_pack_sink.cpp` | `PackSink` |
| Durable spool, uploader | `store/spool.cpp`, `store/uploader.cpp` | `Spool`, `SpoolUpload` |
| Spool ownership, storage service | `store/spool.cpp`, `catalog/storage_service.cpp`, `storage/native_capture.py` | `SpoolAdoption` |
| Monitoring engine | `engine.py` | `EngineLifecycle` |
| Publisher lease | `storage/capture/clickhouse_lease.py`, `clickhouse_catalog.py` | `PublisherLease`, `LeaseInvariant` |
| Catalog writer, indexer, collector | `clickhouse_catalog.py`, `catalog.py` | `CatalogPublish`, `CatalogInvariant`, `CatalogLog`, `SnapshotLog` |
| Catalog reader, hydration | `clickhouse_reader.py`, `cursor.py`, `reader.py` | `CatalogReader`, `Hydration` |
| Catalog schema | `clickhouse_schema.py` | `CatalogSchema` |
| Pack format | `pack.py` | `PackFormat` |
| Python reference storage | `spool.py`, `pipeline.py`, `record_adapter.py`, `filesystem.py`, `s3.py` | `HostSpool`, `HostPipeline` |
| Node toggle | `ring/toggle_registry.cu`, `node_toggle.py`, `transport/ring.py` | `ToggleRegistry`, `NodeToggle` |
| Request rows | `hook_rows.py` | `HookRows`, `RowPlanners` |

How they interact. CUDA kernels write tensors to a payload ring and publish them in slots.
The drain thread copies published bytes to pinned staging and hands a task per tensor to a
P2P thread. In a legacy ring that thread pairs the task with the next `TensorMeta` for the
host engine; in a record ring it pairs it with a descriptor and submits it to a record sink.
The native pack sink builds packs and stages them in a durable spool. The storage service
uploads packs to an object store, makes them visible in a ClickHouse catalog under a lease
that admits one publisher, and adopts the spools of dead processes. The engine owns ring,
sink, service and spool claim. Readers search the catalog at pinned snapshots and hydrate
selections from the store. Beside this chain, request-row plans choose what a hook copies,
and the node toggle switches captured graph nodes on and off.

What is hard in it: threads share rings without one lock; slots are released before bytes
are copied; waits must end when a copy fails; discard windows open while payloads are in
flight; packers and stagers sleep on condition variables; a crash may fall between any two
file operations; database statements take effect after their sender gave up; clocks of
database hosts differ; owners die at any step. The hazards are listed, at their lines, in
`PROJECT.json`.

## Modules

`RecordRing` extends `RecordConsumer`; `SpoolUpload` extends `Spool`; `EngineLifecycle`
extends `SpoolAdoption`; `CatalogPublish` extends `PublisherLease`; `Hydration` extends
`CatalogReader` and `PackFormat`; `HostPipeline` extends `HostSpool`, which extends
`PackFormat`; `NodeToggle` extends `ToggleRegistry`; `RowPlanners` extends `HookRows`. The
MC modules hold only values of constants. Three conventions recur.

* A *scenario* is a record of settings and bounds. `Scenarios` is a constant set of them, and
  one variable (`left` in `Ring`, `conf` elsewhere) holds the scenario of a behaviour, so that
  one run checks several deployments.
* A definition marked `Mutant` is a plausible mistake in the definition that follows it;
  replacing the one by the other must break a property.
* A control point variable (`hpc`, `dpc`, `wpc`, `pc`) names the places of the code where
  another thread may run: unlocks, waits, system calls and requests.

**Ring.** Counters are the code's monotonic positions; bytes count in units of the payload
alignment. The host thread runs `prepare_step` (`PrepareStep`, `HostFlushRequest`,
`HostFlushReturn`, `ReserveFlushed`), pushes metas (`PushMetas`), launches (`LaunchHook`) or
takes the eager path (`EagerLaunch` to `EagerRefused`, `SubmitCpuDirect`), and stops.
`KernelCopy` and `KernelPublish` are the GPU stream, `DrainTop` to `SubmitEnd` one iteration
of the drain loop, `P2PTake` to `P2PExit` the P2P thread, `BarrierStart` to `BarrierTimeout` a
second host thread, which may ask at any time, also beside and after `Stop`. The ratios and timeout of `should_flush` are one free choice on top of
the conditions that force a flush.

**RecordConsumer** is both the exact model of the consumer and its worker and, seen from the
ring, the abstract specification: payloads arrive in order, exactly those pushed.
**RecordRing** adds the ring, the drain thread and the host, and is checked to implement it
(`RefinesConsumer`). The stall budget is an event that may come once a wait has begun.

**PackSink** has a submitter, pairs of packer and stager threads, flushing threads and the
owner. A thread in `asleep` waits on a condition variable; an action wakes the threads its
`notify` reaches, and nothing wakes up by itself except timed waits.

**Spool** splits `Stage` at its system calls. `ready` are the linked files, `dirty` those
whose directory entry is not synced; a crash keeps or loses each of them. `RecoverSweep` and
`OpenSpool` are the restart. **SpoolUpload** adds the uploader with its own `Spool` object, an
object store, and requests that fail before or after they took effect.

**SpoolAdoption** has the directories of a node, their owner locks (gone with their process),
and the service's cycle. **EngineLifecycle** has the engine's steps of creation with their
undo, capture switch, flush, replacement, close, and what a dropped engine leaves.

**PublisherLease** separates sending a statement, its effect on the server and its answer. A
writer may give up at any time and its statement still lands. Each server host has a clock
within `skew` of the time. **CatalogPublish** adds an index pass (allocation of a version, pack
and capture rows, manifest chunks, watermark, ownership read, inventory) and the collector.
Both are translated from the Python writer; the native one issues the same statements.
**SnapshotLog** is the abstract specification of the catalog: an append-only log of snapshots;
**CatalogLog** maps the tables to it.

**CatalogReader** has search with pinned snapshots, cursors and chunked lookups over tables
that merge and replicas that lag; **Hydration** the plan of ranges, the limits and the shared
footer cache. **CatalogSchema** runs `ensure()` statement by statement beside another process,
an older build and a teardown. The install lease is claimed as the coordinator does it: head
read, insert, read-back (`Acquire`, `Insert`, `ReadBack`, `Contested`), so that two claims can meet
at one term. A borrower renews outside the retry loop and raises at once when it is refused. A
writer's endless renewals stay at their term (`Renew`) where nobody is about to insert; a dead
claimant's statement does not land later here (`PublisherLease` has that).

**HostPipeline** and **HostSpool** are the Python reference storage with its threads, its one
worker, recovery, uploads, power failures and bit rot, over the sizes of **PackFormat**. A caller
may upload a pack itself (`UploadDirect`) beside a recovery or an upload pass, so that a listed
file may be gone when it is validated. It does so with the filesystem store only: HEAD and PUT of
`PutS3` are one step, which two uploaders of one pack would not be.

**ToggleRegistry** is the native registry as operators; **NodeToggle** a serving worker that
captures, binds, activates, reconfigures and replays. CUDA calls fail: an eager apply raises with
some nodes flipped and the worker goes on; a failed upload at bind is an anomaly, and the graph
counts as uploaded (`node_toggle.py:798`). The re-enabling of nodes by `clear()`, best effort in
the code, is taken to succeed. Another copy of the package may have its class in place (`foreign`). **HookRows** defines the row plans twice,
as the code does, and the reference they are checked against; **RowPlanners** keeps what the
planners keep between steps. The thresholds of the planners (1024 rules, factor 4, 4096 pool
entries, 8 windows, 256 segments) are constants, scaled down in the run.

## Runs

| Run | Properties | What it shows |
|---|---|---|
| `ring` | `NoUnreadSlotOverwritten` `DeliveryMatchesMeta` `WaitedForIsDelivered` `NothingDrainedAfterFailure` `WaitsEnd` | No overwrite, right pairing; what a flush, stop or barrier waited for is delivered; every wait ends, also after a failed copy, but that of an untimed barrier requested too late before a stop (`Stranded`). |
| `record_ring` | `SubmitsOwnPayload` `RingNeverOverrun` `FlushStoresAll` `RefinesConsumer` `RecordWaitsEnd` | Right pairing and exact accounts through discards; a stuck sink does not hold the forward for ever. |
| `sink` | `ReturnedIsDurable` `ScopeOrder` `CallsReturn` | What a flush, release or close reports is so; no lost wakeup. |
| `spool` | `AckedSurvives` `NeverGrowsPastLimit` `AckedIsUploaded` | Acknowledged packs survive crashes, races and unheard requests, and reach the store. |
| `engine` | `StagersOwnTheirDirectory` `NothingLeaks` `CapturedIsKept` `FlushCatalogs` `SpoolsDrain` | Handovers lose nothing, failed steps leak nothing, dead directories are drained. |
| `catalog` | `OneFencedStatement` `CommittedVisible` `ImplementsSnapshotLog` | One publisher at a time, stable snapshots, no pack skipped before it is visible. |
| `reader` | `WalkShowsSnapshot` `SelectionsHydrate` `CacheAccounted` | A pinned walk shows exactly its snapshot; hydration keeps to its limits. |
| `schema` | `ReadyMeansInstalled` `SkippedPacksAreVisible` `EnsureEnds` | Who is let through works on a right and complete catalog; every call ends, and a cold start is told that the lease is held only where two claims met at one term. |
| `host` | `ReturnedMeansPersisted` `PersistedKept` `SpoolAccounted` `HostCallsReturn` | The reference storage keeps what it acknowledged, and its calls end, but for an untimed flush that the worker deserts at close (`Deserted`). |
| `toggle` | `LanesAgree` `PatchIsOwned` `UploadedBeforeLaunch` | Reservation, metadata and payloads of a step agree; a failed eager apply tears only the payloads off, until the next set heals them. |
| `rows` | `RowsAreDemanded` `PlannersAgree` `FeaturesAreTheAttachments` | Plans deliver exactly the demanded rows, through every cache. |
| `host_oversized` | `DropCostsOneRecord` | Violated: see below. |

`host_oversized` shows a departure from a comment: an oversized record that arrives behind an
expired pack takes that pack with it (`storage/capture/pipeline.py:211`; the comment at line
712 says that only the record is dropped).

### Bounds

The MC modules list the scenarios of each run. Why they are enough:

* Ring: two slots, three payload units, two staging units; steps of one to three tensors, with
  an empty tensor, a step larger than the slots and one larger than staging. Up to four hooks
  wrap both rings. An abandoned reservation, a warmup run, two barriers with or without a timeout
  beside a stop, one failing copy.
* Record ring: two slots, three units, up to four records in steps of one or two, up to three
  flushes, with and without stall budget, gate and failing copies. A third record is needed for a
  step that begins while the payloads of a discarded one are under way; a fourth to wait behind
  a stuck sink, where one is being submitted, one is staged and one fills the ring.
* Pack sink: three records, two scopes, one or two pairs, a stage queue of one pack, packs of two
  records, so that every queue fills and every pack limit is met.
* Spool: three stagings of two packs by two stagers, or two upload workers on two of three packs,
  or two packs of one id; one crash, one fault, a cancelled batch. Only the disk survives a crash,
  so a later one meets no memory the first did not.
* Engine: two processes, one or two engines each, one or two records, two directories; crashes,
  failing steps, a stalled lease, drops, switches and user-provided sinks one at a time.
* Catalog: two writers, a lease of two or three ticks, statements of one tick, three to five
  ticks, one or two passes. This is enough for a claim, its lapse, a takeover and the late effect
  of what the first holder sent. Settings are varied one at a time; the proofs vary them together.
* Reader: three captures in three packs that overlap, up to three versions and three rewrites, two readers.
* Schema: two processes, a TTL and a margin that leave several attempts; four statements of an older
  build, one crash, one teardown, one restart, two claims by writers. Two claims can meet at one term.
* Host: up to five records, packs of two, queues of one or two, three calling threads, two
  packs staged and uploaded directly, one power failure, one or two faults; one scenario closes
  while packs linger.
* Toggle: two hooks, two engines, two sessions, two execs, one failing CUDA call. The graphs are
  interchangeable, so the run is symmetric in them. Rows: two requests, two hooks, four
  tokens, three window lists, thresholds of one to three.

Deadlock is checked in the ring and spool runs. The other runs end where their bounds are used
up, so there it is off; their liveness properties, where they have one, cover waiting for ever.

### Fairness

Weak fairness throughout: the GPU runs what it was given, and a thread the code keeps in a loop,
or that waits for a condition or a deadline, proceeds when it can. In the engine run the lease of
a dead holder lapses and services keep cycling; in the spool run a process that went down is
started again; in the schema run time passes. New calls by the application, failures, crashes and
timeouts of requests are never fair. The record sink need not answer. The catalog, reader,
toggle and rows runs have no liveness: nothing in the code makes a writer win a contested term,
and the others are sequences of calls that return.

## Proofs

For every value of the constants that satisfies the assumptions below:

| Theorem | Module | Statement |
|---|---|---|
| `TypeCorrect` `SlotSafety` `FailureIsFinal` | `RingProofs` | `Spec => []TypeOK`, `[]NoUnreadSlotOverwritten`, `NothingDrainedAfterFailure` |
| `Invariance` | `RingProofs` | `Spec => []RingInv` |
| `DeliveryWaits` | `RingDeliveryProofs` | `Spec => []WaitedForIsDelivered` |
| `PairsAreRight` `IdleIsComplete` `DiscardsBalanced` | `RecordPathProofs` | `ConsumerSpec => []SubmitsOwnPayload`, `[]IdleMeansAllHandled`, `[]DiscardsBalance` |
| `PairingInvariant` | `RecordPathProofs` | `ConsumerSpec => []PairingInv` |
| `AckedPacksSurvive` `SpoolHolds` | `RecordPathProofs` | `Spec => []AckedSurvives`, `[]SpoolInv` |
| `FlushedIsDurable` `ScopesKeepOrder` | `PackSinkProofs` | `SinkSpec => []ReturnedIsDurable`, `[]ScopeOrder` |
| `SinkHolds` | `PackSinkProofs` | `SinkSpec => []SinkInv` |
| `OnePublisher` `LeaseHolds` | `CatalogProofs` | `Spec => []OneFencedStatement`, `[]LeaseInv` |
| `CommittedIsVisible` `CatalogHolds` | `CatalogProofs` | `Spec => []CommittedVisible`, `[]CatalogInv` |
| `CatalogIsSnapshotLog` | `LogProofs`, `CatalogProofs` | `Spec => ImplementsSnapshotLog` |

*An assumption on the server.* `PublisherLease` and `CatalogPublish` end a fenced statement at its
`max_execution_time` (`Tick`, `Capped`). ClickHouse checks that limit between blocks, and a
statement blocked in a lock can overrun it (`clickhouse_catalog.py:891`,
`docs/catalog-descriptor-key.md:518`). `OneFencedStatement`, `CommittedVisible` and
`ImplementsSnapshotLog`, checked or proved, hold as far as the limit does. The second read of the
collector and the last member check of a publish narrow that residue in the code; here they are
modelled but never needed.

*Assumptions on constants.* Capacities are positive, plans are nonempty sequences of ascending
ends, scenarios are of the right type and route every scope to a pair of the sink; pushes and bounds are natural numbers. A lease
configuration is one the code accepts: the TTL exceeds the publish timeout plus the clock
skew (`ValidLease`). Packs have sizes and ids, and `IdAssumption`: two contents under one `pack_id` are not staged
by two threads at once (ids are drawn by the sink). Every `ASSUME` is evaluated by a run.

*The ring argument.* That no slot is overwritten does not follow from the step before: it needs
that reservations cover every launch. `RingInv` (module `RingInvariant`) says that launched and
promised hooks never exceed the reserved head (`AcctInv`), nor the tail by more than the slots;
that a slot is READY exactly between the two task positions (`SlotInv`); that the scanned window
matches the tails and the batch under way (`DrainInv`); that a completed flush generation leaves
an empty ring, which is why the flushed path may reserve without a check (`FlushInv`); and where
in a step the host is (`StepInv`). `RingProofs` takes the conjuncts one
after the other, with one lemma per action. A warmup run has no reservation; it is covered by the
assumption that it is drained before the next step.

*The delivery argument.* A barrier waits for a stream position, then for a flush generation, then
for a number of tasks, and the property is about none of them: it is about metas. `FlowInv` (also
in `RingInvariant`) says that until a drain fails the FIFO holds one meta for every tensor in
flight, in their order, then those of the hooks that have yet to fire (`InOrder`); in flight is
what is on the stream, in the ring, in the batch or with the P2P thread, counted by the threads'
own counters (`CountInv`). `BarrierInv` says that the metas a barrier covers are among the first
ones: after the stream wait ahead of those of the stream, after the flush among those the P2P
thread has, later among those its target still lacks. The flush part rests on `RingInv`: a flush
that returns leaves an empty ring. For stop(), `EndInv` orders the ends of the threads.

*The pairing argument.* Descriptors and payloads are matched by position only. `PairingInv` says:
the payloads still to come are first those owed to closed windows, then exactly those of the
queued descriptors (`QueueInv`, `LiveInv`); once a failure is latched under `disable_capture` the
counters add up (`LatchedInv`). The theorems are about the consumer; that the whole record ring
implements it is checked by TLC.

*The spool argument.* A pack is removed when the store has it, and the store keeps it: a PUT is
sent only where nothing or the same pack was found. Another PUT could come in between, so
`SpoolInv` says that the packs of a batch are staged and each has one worker (`BatchInv`), and
that two packs of one id are around only when the store already has one of them
(`OneAroundInv`), which excludes two workers that PUT under one key (`StoreInv`). A stager that
linked or validated a file finds it there, uploaded or set aside when it syncs (`AckingInv`); a
crash undoes only names that are not synced, and an unsynced removal is of a stored pack.

*The sink argument.* A flush counts barrier copies, not records, and a record passes five places
on its way to the store. `SinkInv` (module `PackSinkInvariant`) puts the five places of a
packer/stager pair into one line: the stager's item, its queue, the open pack, the packer's item,
the packer's queue. The line is sorted by record number, and no record behind a barrier is one the
barrier was made for (`LineInv`). Every unsettled record is in the line of its pair while both
threads live, and a packer that failed lost only records behind all that its stager may still
store (`OpenInv`); so what is stored is stored in order (`StoredInv`). An open barrier's counter is
not below the number of pairs that still carry a copy, and every record it was made for is settled
or routed to one of them (`BarrierInv`): when the counter reaches zero all are settled, also for a
caller that reuses the barrier of another (`FlushInv`). A failure latches before anything is lost,
and completes the open barrier with an error (`StopInv`); nothing is admitted while no engine owns
the sink, so a release that flushed has sealed everything (`ReleaseInv`). `PackSinkLineProofs` has
what moving an item does to a line and the steps of packers and flushers, `PackSinkProofs` the
failures, the barrier countdown, admission and the theorems.

*The lease argument.* `LeaseInv` (module `LeaseInvariant`) holds because a lease id has one owner
(`OwnerInv`), a writer waits for at most one statement (`SentInv`, `OneEachInv`), a writer works
with a lease only after it read its claim back alone at its term, and claims that would take the
head over were sent when the head had run out on some host's clock, or was contested
(`ClaimInv`, `SoleInv`). So a running statement belongs to the head, whose lease outlives it on
every clock (`RunInv`), and two running statements are one. `LeaseInvariant` lists what a step
may be for the lease (`LocalStep` to `LandRelease`); `LeaseProofs` shows that each keeps
`LeaseInv`, and `CatalogProofs` that every action of `CatalogPublish` is one of them.

*The catalog argument.* The barrier of a watermark is evaluated when the statement starts and its
row lands later; it still holds then because one statement runs (`WatermarkInv`). What the
collector deletes lies below a published head and is not published, so it never will be
(`OrphanInv`). The inventory row is sent after the ownership read and the member count, so its
packs are readable while it is in flight and after it landed (`InventoryInv`).

*The refinement.* `CatalogLog` maps the tables to a log: at every version of the watermark, the
packs its manifest admits. A publish that lands appends one version; everything else stutters.
This needs that no manifest row of a publish lands after its watermark: `PubInv` says that a
publish id belongs to one pass, and that a statement with a pass's id is the one its writer
waits for, so an unheard manifest row belongs to a pass that was given up and never
gets its watermark. `LogProofs` shows that each step keeps `PubInv` and maps to a step of `SnapshotLog`.

TLC checked each inductive invariant on the instances of its run before it was proved.

### Only model-checked

* All liveness: fairness and `ENABLED` are out of the prover's reach.
* What is a sum over a set or a sequence, because a fold cannot be unfolded by the prover:
  `NeverGrowsPastLimit`, `SpoolAccounted`, `CacheAccounted`, and `RingNeverOverrun` and `RefinesConsumer`,
  whose reservations are sums of a plan.
* What the folds over layouts and windows of `HookRows` compute.
* Everything about payload bytes and staging in the ring (`DeliveryMatchesMeta`), the engine, the
  reader, the schema, the reference storage and the node toggle.

## Not modelled

Contracts the models assume:

* Toggle: the integration clears before a recapture, binds before an eager activation, binds
  full-model graphs only, creates graphs while patched, and replays toggled graphs on gated steps
  (`docs/node-toggle.md`).
* Rows: padding strip is not configured while gather is armed; gather and heads are armed on an
  installed `HookPoint`; demand entries are replaced, never changed in place; a refused layout changes nothing.
* Engine: one host thread drives engine and forward; one process at a time uses `spool_root` with an explicit sink.

Left out:

* The host engine behind the legacy ring and its ClickHouse path; batch queues and drop notices;
  fused, gather and head kernels (same protocol); telemetry.
* Stopping a record ring by itself (the engine module closes and replaces one); the milliseconds of the stall budget.
* In the engine: corrupt packs and blocked siblings, connection validation, a sink without a
  storage service.
* The native indexer's replay guard by lease id. Summaries of the reader.
* Fused two-key nodes, reuse of engine ids and the identity check of `replace_active_specs`.
* Encodings, SQL texts, HTTP, configuration and user interface.

Limits of the code that the runs reach, each a named exception of its property:

* A delivery barrier without a timeout that requests its flush after the drain loop's last look
  before a `stop()` waits for ever: `force_flush_and_wait` has no stop predicate
  (`drain_thread.cpp:143`) and the final flush completes no generation (`drain_thread.cpp:643`).
  The comment at `p2p_thread.cpp:155` is about the barrier's later wait. `WaitsEnd` excepts `Stranded`.
* An untimed flush that queues its barrier between a worker's timed-out `get()` and its look at a
  closed queue is left waiting (`pipeline.py:692`), and every later untimed flush behind its lock.
  `HostCallsReturn` excepts `Stuck`.
* After a failed eager apply (`node_toggle.py:114`) the payloads of a step may differ from its
  metadata until a set goes in, a clear or a new window. `LanesAgree` excepts a `torn` step.
* Installers whose claims meet at one term wait each other's rows out and may both raise
  `PublisherLeaseHeldError` (`tasks/todo.md:193`); one contested term is enough for one of them. The
  docstring at `clickhouse_schema.py:372` puts an exhausted budget down to a holder that renews.
  `EnsureEnds` excepts contested terms.

Known limits of the code, met while modelling and kept out of the runs:

* A handle of a destroyed exec that is used again (`node_toggle.py:703`, `docs/node-toggle.md:97`);
  captures outside a window while device mode is on; a device graph re-instantiated after
  `clear()`; a late bind under an eager gate; a graph created after an empty window closed.
* The full check of the spool counts a pack between link and commit twice (`spool.cpp:1430`).
* Two packs of one id staged by two threads at once can replace one another in the store.
* A fleet that starts cold and already indexes is refused (`clickhouse_schema.py:586`).
* After a failed drain a CPU-direct tensor takes another hook's meta (`hooks/point.py:451`).
* The flush of a disabled runtime reports before its counters are complete (`ring_engine_py.cu:935`).
* A directory claimed after a service's look that met no live sibling is not looked at again
  (`storage_service.cpp:828`); an engine dropped while capture is disabled leaves the device's null mode on.
