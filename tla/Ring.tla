-------------------------------- MODULE Ring --------------------------------
(***************************************************************************)
(* The legacy capture ring of native/csrc/ring: producer kernels on one     *)
(* CUDA stream publish tensors into a GPU payload ring and a ring of        *)
(* publication slots; the drain thread copies published payloads to pinned  *)
(* staging and queues one task per tensor; the P2P thread copies a task out *)
(* of staging and pairs it with the next TensorMeta the host pushed.        *)
(*                                                                          *)
(* Five actors run concurrently: the host thread that drives model steps    *)
(* (prepare_step, metadata push, kernel launches, the eager safety net,     *)
(* stop), the GPU stream, the drain thread, the P2P thread and a second     *)
(* host thread in the drain_to_sink_and_wait barrier.                       *)
(*                                                                          *)
(* All counters are the monotonic logical positions of the code; an index   *)
(* into a ring is a position modulo its capacity.  Bytes are counted in     *)
(* units of PAYLOAD_ALIGN.  The sum of the sizes of consecutive tensors is  *)
(* written as the difference of two logical positions.                      *)
(***************************************************************************)
EXTENDS Integers, Sequences

CONSTANTS
    TaskCap,        \* publication slots (task_ring_entries)
    PayloadCap,     \* payload ring capacity
    StagingCap,     \* pinned staging capacity
    Plans,          \* the steps: ends[i] is where hook i's tensor ends in the step
    Scenarios       \* bounds on a behaviour: its plans and values of
                    \* StepPlan.needs_eager, the hooks it may fire,
                    \* whether a D2H copy may return a CUDA error, how many
                    \* steps are abandoned between prepare_step and the push,
                    \* warmup runs, drain_to_sink_and_wait calls and whether they
                    \* have a timeout, and request_flush calls

ASSUME CapAssumption ==
    TaskCap \in Nat \ {0} /\ PayloadCap \in Nat \ {0} /\ StagingCap \in Nat \ {0}

\* A plan lists the ends of its tensors, so its last end is the step's bytes.
ASSUME PlansAssumption ==
    \A p \in Plans : /\ p \in Seq(Nat) /\ p # <<>>
                     /\ \A i, j \in 1 .. Len(p) : i <= j => p[i] <= p[j]

Bounds == [plans : SUBSET Plans, eager : SUBSET BOOLEAN, hooks : Nat, mayFail : BOOLEAN, leaks : Nat,
           warmups : Nat, barriers : Nat, timed : BOOLEAN, asyncs : Nat]
ASSUME BoundsAssumption == Scenarios \subseteq Bounds

VARIABLES
    \* host step driver: control point, current step, CPU reservation heads,
    \* hooks fired so far, the bounds left, an undrained warmup run
    hpc, step, cpuPayloadHead, cpuTaskHead, hooks, left, warm,
    \* GPU stream, its running kernel, the ring heads and the two rings
    stream, copying, gpuTaskHead, gpuPayloadHead, slots, payload,
    \* drain thread: control point, why it flushes, scanned entries (as the
    \* payload positions where they end), tails, the batch in flight
    dpc, dmode, dgen, visibleHead, scanned, cpuTaskTail, cpuPayloadTail,
    tailCommitted, flushCount, flushBytes, submitted,
    \* pinned staging
    stgHead, stgTail, staging,
    \* P2P thread: its task queue, batch and last delivery; the metadata FIFO
    ppc, queue, local, cursor, enqueued, processed, metas, out,
    \* flush generations, failure latch, stop flags, asynchronous flush mark
    requested, completed, failed, running, p2pStop, asyncUntil,
    \* the delivery barrier
    bpc, bgen, btarget, bcover

acct        == <<cpuPayloadHead, cpuTaskHead, warm>>
gpuVars     == <<copying, gpuTaskHead, gpuPayloadHead, payload>>
dctl        == <<dmode, dgen>>
scanVars    == <<visibleHead, scanned>>
tails       == <<cpuTaskTail, cpuPayloadTail, tailCommitted>>
batchVars   == <<flushCount, flushBytes, submitted>>
drainVars   == <<dpc, dctl, scanVars, tails, batchVars>>
stagingVars == <<stgHead, stgTail, staging>>
handoff     == <<queue, enqueued>>
outcome     == <<completed, failed>>
p2pVars     == <<ppc, local, cursor, processed, out>>
barrierVars == <<bpc, bgen, btarget, bcover>>
hostVars    == <<hpc, step, acct, hooks, left, stream, metas, running, p2pStop, asyncUntil>>
workers     == <<gpuVars, slots, drainVars, stagingVars, p2pVars, outcome>>
vars        == <<hostVars, workers, handoff, requested, barrierVars>>

Empty == -1                     \* a slot without the PUBLICATION_READY bit
NoStep == [plan |-> <<>>, hook |-> 1, eager |-> FALSE, after |-> "idle", gen |-> 0]
NoOut == [id |-> 0, size |-> 0, ids |-> {}, len |-> 0]
EffectiveCap == IF PayloadCap <= StagingCap THEN PayloadCap ELSE StagingCap
Slot(i)    == i % TaskCap       \* a position's publication slot
Bytes(p)   == p[Len(p)]
Size(p, i) == IF i = 1 THEN p[1] ELSE p[i] - p[i - 1]

Init ==
    /\ hpc = "idle"
    /\ step = NoStep
    /\ cpuPayloadHead = 0 /\ cpuTaskHead = 0 /\ hooks = 0 /\ warm = FALSE
    /\ left \in Scenarios
    /\ stream = <<>> /\ copying = FALSE /\ gpuTaskHead = 0 /\ gpuPayloadHead = 0
    /\ slots = [k \in 0 .. TaskCap - 1 |-> Empty]
    /\ payload = [k \in 0 .. PayloadCap - 1 |-> 0]
    /\ dpc = "top" /\ dmode = "auto" /\ dgen = 0 /\ visibleHead = 0 /\ scanned = <<>>
    /\ cpuTaskTail = 0 /\ cpuPayloadTail = 0 /\ tailCommitted = 0
    /\ flushCount = 0 /\ flushBytes = 0 /\ submitted = 0
    /\ stgHead = 0 /\ stgTail = 0 /\ staging = [k \in 0 .. StagingCap - 1 |-> 0]
    /\ ppc = "wait" /\ queue = <<>> /\ local = <<>> /\ cursor = 1
    /\ enqueued = 0 /\ processed = 0
    /\ metas = <<>> /\ out = NoOut
    /\ requested = 0 /\ completed = 0 /\ failed = FALSE /\ running = TRUE
    /\ p2pStop = FALSE /\ asyncUntil = 0
    /\ bpc = "idle" /\ bgen = 0 /\ btarget = 0 /\ bcover = 0

-----------------------------------------------------------------------------
(* The host thread: BackendAdapter.commit_step over RingEnginePy.           *)

\* legacy_ring_room: free room, saturated at both ends.
Room(cap, head, tail) ==
    IF head < tail THEN cap
    ELSE IF head - tail >= cap THEN 0 ELSE cap - (head - tail)

AvailableCapacity  == Room(PayloadCap, cpuPayloadHead, tailCommitted)
AvailableTaskSlots == Room(TaskCap, cpuTaskHead, cpuTaskTail)

\* DrainThread::reserve: reserve from the tails when they ran ahead.
LiftTo(head, tail) == IF head < tail THEN tail ELSE head
Reserve(bytes, tasks) ==
    /\ cpuPayloadHead' = LiftTo(cpuPayloadHead, tailCommitted) + bytes
    /\ cpuTaskHead' = LiftTo(cpuTaskHead, cpuTaskTail) + tasks
    /\ warm' = FALSE

\* Warmup runs of captured producers are over, and drained, before a step.
WarmupQuiesced ==
    warm => stream = <<>> /\ dpc = "top" /\ cpuTaskTail = gpuTaskHead /\ processed = enqueued

\* prepare_step(bytes, hooks, reserve = ~needsEager) up to its return, or up to
\* the stream synchronization and flush of its two slow paths.
PrepareStep(p, needsEager) ==
    LET oversized == Bytes(p) > EffectiveCap \/ Len(p) > TaskCap
        fits == Bytes(p) <= AvailableCapacity /\ Len(p) <= AvailableTaskSlots
        next == IF oversized \/ needsEager THEN "commit" ELSE "reserve"
    IN /\ hpc = "idle" /\ WarmupQuiesced
       /\ p \in left.plans /\ needsEager \in left.eager /\ hooks + Len(p) <= left.hooks
       /\ step' = [plan |-> p, hook |-> 1, eager |-> oversized \/ needsEager,
                   after |-> next, gen |-> 0]
       /\ \/ /\ oversized \/ ~fits
             /\ hpc' = "sync" /\ UNCHANGED acct
          \/ /\ ~oversized /\ fits /\ ~needsEager
             /\ hpc' = "commit" /\ Reserve(Bytes(p), Len(p))
          \/ /\ ~oversized /\ fits /\ needsEager
             /\ hpc' = "commit" /\ UNCHANGED acct
       /\ UNCHANGED <<hooks, left, stream, metas, running, p2pStop, asyncUntil, workers,
                      queue, enqueued, requested, barrierVars>>

\* cudaStreamSynchronize, then force_flush_and_wait up to its wait; on a
\* failed drain it returns at once.
HostFlushRequest ==
    /\ hpc = "sync" /\ stream = <<>>
    /\ IF failed
       THEN hpc' = step.after /\ UNCHANGED <<step, requested>>
       ELSE /\ requested' = requested + 1 /\ step' = [step EXCEPT !.gen = requested + 1]
            /\ hpc' = "wait"
    /\ UNCHANGED <<acct, hooks, left, stream, metas, running, p2pStop, asyncUntil, workers,
                   queue, enqueued, barrierVars>>

HostFlushReturn ==
    /\ hpc = "wait" /\ completed >= step.gen
    /\ hpc' = step.after
    /\ UNCHANGED <<step, acct, hooks, left, stream, metas, running, p2pStop, asyncUntil,
                   workers, queue, enqueued, requested, barrierVars>>

\* prepare_step's flushed path: reserve without checking the room again.
ReserveFlushed ==
    /\ hpc = "reserve"
    /\ Reserve(Bytes(step.plan), Len(step.plan))
    /\ hpc' = "commit"
    /\ UNCHANGED <<step, hooks, left, stream, metas, running, p2pStop, asyncUntil, workers,
                   queue, enqueued, requested, barrierVars>>

\* set_step_context and pre_push_all_metas: one meta per hook, in launch order.
PushMetas ==
    /\ hpc = "commit"
    /\ metas' = metas \o [i \in 1 .. Len(step.plan) |->
                             [id |-> hooks + i, size |-> Size(step.plan, i)]]
    /\ hpc' = "forward"
    /\ UNCHANGED <<step, acct, hooks, left, stream, running, p2pStop, asyncUntil, workers,
                   queue, enqueued, requested, barrierVars>>

\* The step fails after prepare_step, or strict mode rejects the eager
\* fallback: nothing is pushed or launched and a reservation stays behind.
AbandonStep ==
    /\ hpc = "commit" /\ left.leaks > 0
    /\ left' = [left EXCEPT !.leaks = @ - 1]
    /\ hpc' = "idle" /\ step' = NoStep
    /\ UNCHANGED <<acct, hooks, stream, metas, running, p2pStop, asyncUntil, workers, queue,
                   enqueued, requested, barrierVars>>

\* One hook of the forward is done; after the last one the step is over.
HookDone ==
    /\ hooks' = hooks + 1
    /\ IF step.hook = Len(step.plan)
       THEN hpc' = "idle" /\ step' = NoStep
       ELSE hpc' = "forward" /\ step' = [step EXCEPT !.hook = @ + 1, !.gen = 0]

HookSize == Size(step.plan, step.hook)
Launch(id, size) == stream' = Append(stream, [id |-> id, size |-> size])

\* The fast path: an unconditional producer launch (ring_producer_impl).
LaunchHook ==
    /\ hpc = "forward" /\ ~step.eager
    /\ Launch(hooks + 1, HookSize)
    /\ HookDone
    /\ UNCHANGED <<acct, left, metas, running, p2pStop, asyncUntil, workers, queue,
                   enqueued, requested, barrierVars>>

\* HookPoint._eager_row with room: reserve_one and launch.
\* Mutant: the safety net checks only the payload ring.
EagerRoomBytesOnly == HookSize <= AvailableCapacity /\ HookSize <= EffectiveCap
EagerRoom == HookSize <= AvailableCapacity /\ HookSize <= EffectiveCap /\ AvailableTaskSlots > 0
EagerLaunch ==
    /\ hpc = "forward" /\ step.eager /\ EagerRoom
    /\ Reserve(HookSize, 1)
    /\ Launch(hooks + 1, HookSize)
    /\ HookDone
    /\ UNCHANGED <<left, metas, running, p2pStop, asyncUntil, workers, queue, enqueued,
                   requested, barrierVars>>

\* HookPoint._eager_row without room, or for a tensor larger than the ring:
\* flush_and_wait first.
EagerFlush ==
    /\ hpc = "forward" /\ step.eager /\ ~EagerRoom
    /\ step' = [step EXCEPT !.after = IF HookSize <= EffectiveCap THEN "hook" ELSE "direct"]
    /\ hpc' = "sync"
    /\ UNCHANGED <<acct, hooks, left, stream, metas, running, p2pStop, asyncUntil, workers,
                   queue, enqueued, requested, barrierVars>>

\* A hook with a strip tensor always goes CPU-direct on an eager step.
\* Mutant: the strip hook submits CPU-direct without flushing first.
EagerStripUnflushed ==
    /\ hpc = "forward" /\ step.eager
    /\ hpc' = "direct"
    /\ UNCHANGED <<step, acct, hooks, left, stream, metas, running, p2pStop, asyncUntil,
                   workers, queue, enqueued, requested, barrierVars>>
EagerStrip ==
    /\ hpc = "forward" /\ step.eager
    /\ step' = [step EXCEPT !.after = "direct"]
    /\ hpc' = "sync"
    /\ UNCHANGED <<acct, hooks, left, stream, metas, running, p2pStop, asyncUntil, workers,
                   queue, enqueued, requested, barrierVars>>

\* reserve_one after the flush repeats the task check only.
EagerFlushedLaunch ==
    /\ hpc = "hook" /\ AvailableTaskSlots > 0
    /\ Reserve(HookSize, 1)
    /\ Launch(hooks + 1, HookSize)
    /\ HookDone
    /\ UNCHANGED <<left, metas, running, p2pStop, asyncUntil, workers, queue, enqueued,
                   requested, barrierVars>>

\* reserve_one raises without a free slot, which aborts the forward.
EagerRefused ==
    /\ hpc = "hook" /\ AvailableTaskSlots = 0
    /\ hpc' = "aborted"
    /\ UNCHANGED <<step, acct, hooks, left, stream, metas, running, p2pStop, asyncUntil,
                   workers, queue, enqueued, requested, barrierVars>>

\* submit_cpu_direct: the tensor joins the P2P queue without the ring.
SubmitCpuDirect ==
    /\ hpc = "direct"
    /\ queue' = Append(queue, [direct |-> hooks + 1, pos |-> 0, len |-> HookSize])
    /\ enqueued' = enqueued + 1
    /\ HookDone
    /\ UNCHANGED <<acct, left, stream, metas, running, p2pStop, asyncUntil, workers,
                   requested, barrierVars>>

\* A capture-time warmup run fires the producers of a plan with no
\* reservation and no metadata; integrations run it with the ring idle.
Warmup(p) ==
    /\ hpc = "idle" /\ left.warmups > 0 /\ p \in left.plans
    /\ stream = <<>> /\ dpc = "top" /\ cpuTaskTail = gpuTaskHead /\ processed = enqueued
    /\ Bytes(p) <= EffectiveCap /\ Len(p) <= TaskCap
    /\ stream' = [i \in 1 .. Len(p) |-> [id |-> 0, size |-> Size(p, i)]]
    /\ warm' = TRUE
    /\ left' = [left EXCEPT !.warmups = @ - 1]
    /\ UNCHANGED <<hpc, step, cpuPayloadHead, cpuTaskHead, hooks, metas, running, p2pStop,
                   asyncUntil, workers, queue, enqueued, requested, barrierVars>>

\* request_flush: ask for everything reserved so far, without waiting.
RequestFlush ==
    /\ hpc = "idle" /\ running /\ left.asyncs > 0
    /\ cpuTaskHead > cpuTaskTail /\ cpuTaskHead > asyncUntil
    /\ asyncUntil' = cpuTaskHead
    /\ left' = [left EXCEPT !.asyncs = @ - 1]
    /\ UNCHANGED <<hpc, step, acct, hooks, stream, metas, running, p2pStop, workers,
                   queue, enqueued, requested, barrierVars>>

\* RingEngine::stop: device sync and forced flush, stop and join the drain
\* thread, then let the P2P thread finish its queue.
Stop ==
    /\ hpc \in {"idle", "aborted"}
    /\ step' = [NoStep EXCEPT !.after = "stop"]
    /\ hpc' = "sync"
    /\ UNCHANGED <<acct, hooks, left, stream, metas, running, p2pStop, asyncUntil, workers,
                   queue, enqueued, requested, barrierVars>>
StopDrain ==
    /\ hpc = "stop"
    /\ running' = FALSE /\ hpc' = "join"
    /\ UNCHANGED <<step, acct, hooks, left, stream, metas, p2pStop, asyncUntil, workers,
                   queue, enqueued, requested, barrierVars>>
StopP2P ==
    /\ hpc = "join" /\ dpc = "exit"
    /\ p2pStop' = TRUE /\ hpc' = "closed"
    /\ UNCHANGED <<step, acct, hooks, left, stream, metas, running, asyncUntil, workers,
                   queue, enqueued, requested, barrierVars>>

HostNext ==
    \/ \E p \in Plans, e \in BOOLEAN : PrepareStep(p, e)
    \/ \E p \in Plans : Warmup(p)
    \/ HostFlushRequest \/ HostFlushReturn \/ ReserveFlushed \/ PushMetas \/ AbandonStep
    \/ LaunchHook \/ EagerLaunch \/ EagerFlush \/ EagerStrip
    \/ EagerFlushedLaunch \/ EagerRefused \/ SubmitCpuDirect \/ RequestFlush \/ Stop \/ StopDrain \/ StopP2P
-----------------------------------------------------------------------------
(* The GPU: kernels run one after the other on the producer stream.         *)

\* The blocks of the head kernel copy the tensor into the payload ring ...
KernelCopy ==
    /\ stream # <<>> /\ ~copying
    /\ payload' = [k \in DOMAIN payload |->
                      IF (k - gpuPayloadHead) % PayloadCap < Head(stream).size
                      THEN Head(stream).id ELSE payload[k]]
    /\ copying' = TRUE
    /\ UNCHANGED <<hostVars, gpuTaskHead, gpuPayloadHead, slots, drainVars, stagingVars,
                   p2pVars, completed, failed, queue, enqueued, requested, barrierVars>>

\* ... and the last one to arrive publishes it (publish_last_block_arrives).
KernelPublish ==
    /\ copying
    /\ slots' = [slots EXCEPT ![Slot(gpuTaskHead)] = Head(stream).size]
    /\ gpuTaskHead' = gpuTaskHead + 1
    /\ gpuPayloadHead' = gpuPayloadHead + Head(stream).size
    /\ stream' = Tail(stream)
    /\ copying' = FALSE
    /\ UNCHANGED <<hpc, step, acct, hooks, left, metas, running, p2pStop, asyncUntil,
                   payload, drainVars, stagingVars, p2pVars, completed, failed, queue,
                   enqueued, requested, barrierVars>>

GpuNext == KernelCopy \/ KernelPublish

-----------------------------------------------------------------------------
(* The drain thread: DrainThread::loop and do_full_flush.                   *)

othersOfDrain == <<hostVars, gpuVars, p2pVars, requested, barrierVars>>

\* Top of the loop: a forced flush, an autonomous pass, or the final flush.
\* A failed drain only waits for stop.
\* Mutants: the loop goes on after a failed copy; a forced flush of an empty
\* ring is skipped and never completed.
DrainTopAfterFailure ==
    /\ dpc = "top"
    /\ dmode' = (IF running THEN "auto" ELSE "final") /\ dpc' = "scan" /\ UNCHANGED dgen
    /\ UNCHANGED <<othersOfDrain, slots, scanVars, tails, batchVars, stagingVars,
                   outcome, handoff>>
DrainTopSkipsEmpty ==
    /\ dpc = "top"
    /\ \/ /\ running /\ ~failed /\ requested > completed /\ gpuTaskHead > cpuTaskTail
          /\ dmode' = "force" /\ dgen' = requested /\ dpc' = "scan"
       \/ /\ running /\ ~failed /\ (requested <= completed \/ gpuTaskHead = cpuTaskTail)
          /\ dmode' = "auto" /\ dpc' = "scan" /\ UNCHANGED dgen
       \/ /\ ~running /\ ~failed /\ stream = <<>>
          /\ dmode' = "final" /\ dpc' = "scan" /\ UNCHANGED dgen
       \/ /\ ~running /\ failed
          /\ dpc' = "exit" /\ UNCHANGED <<dctl>>
    /\ UNCHANGED <<othersOfDrain, slots, scanVars, tails, batchVars, stagingVars,
                   outcome, handoff>>
DrainTop ==
    /\ dpc = "top"
    /\ \/ /\ running /\ ~failed /\ requested > completed
          /\ dmode' = "force" /\ dgen' = requested /\ dpc' = "scan"
       \/ /\ running /\ ~failed /\ requested <= completed
          /\ dmode' = "auto" /\ dpc' = "scan" /\ UNCHANGED dgen
       \/ /\ ~running /\ ~failed /\ stream = <<>>
          /\ dmode' = "final" /\ dpc' = "scan" /\ UNCHANGED dgen
       \/ /\ ~running /\ failed
          /\ dpc' = "exit" /\ UNCHANGED <<dctl>>
    /\ UNCHANGED <<othersOfDrain, slots, scanVars, tails, batchVars, stagingVars,
                   outcome, handoff>>

\* Where the next entry to scan begins in the payload ring; the difference to
\* cpuPayloadTail is pending_bytes_.
ScanPosition == IF scanned = <<>> THEN cpuPayloadTail ELSE scanned[Len(scanned)]

\* scan_ready acquires one publication; it stops at task_cap pending entries
\* or at a slot that is not READY.
ScanMore == Len(scanned) < TaskCap /\ slots[Slot(visibleHead)] # Empty
ScanReady ==
    /\ dpc = "scan" /\ ScanMore
    /\ scanned' = Append(scanned, ScanPosition + slots[Slot(visibleHead)])
    /\ visibleHead' = visibleHead + 1
    /\ UNCHANGED <<othersOfDrain, slots, dpc, dctl, tails, batchVars, stagingVars,
                   outcome, handoff>>

\* A flush takes whole entries, up to the first that no longer fits staging.
Fits(k)  == scanned[k] - cpuPayloadTail <= StagingCap
Batch(n) == Fits(n) /\ (n < Len(scanned) => ~Fits(n + 1))
NoBatch  == scanned # <<>> => ~Fits(1)

\* should_flush: true at a full ring or below a request_flush mark; the
\* configured ratios, thresholds and timeout may make it true earlier.
MustFlush ==
    /\ scanned # <<>>
    /\ \/ Len(scanned) >= TaskCap \/ ScanPosition - cpuPayloadTail >= PayloadCap
       \/ asyncUntil > cpuTaskTail

\* flush_state_update: under mgmt_mu_, before the copy, clear the slots of
\* the batch and advance the task and payload tails.
FlushStateUpdate ==
    /\ dpc = "scan" /\ ~ScanMore
    /\ \E n \in 1 .. Len(scanned) :
          /\ Batch(n)
          /\ slots' = [k \in DOMAIN slots |->
                          IF \E i \in cpuTaskTail .. cpuTaskTail + n - 1 : k = Slot(i)
                          THEN Empty ELSE slots[k]]
          /\ cpuTaskTail' = cpuTaskTail + n
          /\ cpuPayloadTail' = scanned[n]
          /\ flushCount' = n
          /\ flushBytes' = scanned[n] - cpuPayloadTail
    /\ dpc' = "space"
    /\ UNCHANGED <<othersOfDrain, dctl, scanVars, tailCommitted, submitted, stagingVars,
                   outcome, handoff>>

\* An autonomous pass that does not flush goes back to the poll.
DrainIdle ==
    /\ dpc = "scan" /\ ~ScanMore /\ dmode = "auto" /\ (~MustFlush \/ NoBatch)
    /\ dpc' = "top"
    /\ UNCHANGED <<othersOfDrain, slots, dctl, scanVars, tails, batchVars, stagingVars,
                   outcome, handoff>>

\* do_full_flush returns once nothing (that fits staging) is pending; a forced
\* flush then completes the generation read before it began.
FlushDone ==
    /\ dpc = "scan" /\ ~ScanMore /\ dmode # "auto" /\ NoBatch
    /\ IF dmode = "force"
       THEN completed' = dgen /\ dpc' = "top" /\ dmode' = "auto" /\ dgen' = 0
       ELSE dpc' = "exit" /\ UNCHANGED <<completed, dctl>>
    /\ UNCHANGED <<othersOfDrain, slots, scanVars, tails, batchVars, stagingVars,
                   failed, handoff>>

\* Wait until the P2P thread has freed enough staging.
StagingFree == StagingCap - (stgHead - stgTail)
StagingSpace ==
    /\ dpc = "space" /\ StagingFree >= flushBytes
    /\ dpc' = "copy"
    /\ UNCHANGED <<othersOfDrain, slots, dctl, scanVars, tails, batchVars, stagingVars,
                   outcome, handoff>>

\* enqueue_d2h and sync_stream: cell by cell from the payload ring to staging.
BatchStart == cpuPayloadTail - flushBytes
CopyD2H ==
    /\ dpc = "copy"
    /\ staging' = [c \in DOMAIN staging |->
                      LET j == (c - stgHead) % StagingCap
                      IN IF j < flushBytes THEN payload[(BatchStart + j) % PayloadCap]
                                           ELSE staging[c]]
    /\ dpc' = "commit"
    /\ UNCHANGED <<othersOfDrain, slots, dctl, scanVars, tails, batchVars, stgHead,
                   stgTail, outcome, handoff>>

\* A CUDA error on the copy: record_drain_failure latches it and releases
\* every flush waiter; the batch is lost.
CopyFails ==
    /\ dpc = "copy" /\ left.mayFail
    /\ failed' = TRUE /\ completed' = requested
    /\ dpc' = IF dmode = "final" THEN "exit" ELSE "top"
    /\ UNCHANGED <<othersOfDrain, slots, dctl, scanVars, tails, batchVars, stagingVars,
                   handoff>>

\* The copied bytes may be overwritten from here on.
CommitTail ==
    /\ dpc = "commit"
    /\ tailCommitted' = cpuPayloadTail
    /\ submitted' = 0 /\ dpc' = "submit"
    /\ UNCHANGED <<othersOfDrain, slots, dctl, scanVars, cpuTaskTail, cpuPayloadTail,
                   flushCount, flushBytes, stagingVars, outcome, handoff>>

\* submit_to_p2p pushes the tasks of the batch one by one ...
EntryStart(i) == IF i = 1 THEN BatchStart ELSE scanned[i - 1]
SubmitOne ==
    LET i == submitted + 1
    IN /\ dpc = "submit" /\ submitted < flushCount
       /\ queue' = Append(queue, [direct |-> 0, pos |-> stgHead + (EntryStart(i) - BatchStart),
                                  len |-> scanned[i] - EntryStart(i)])
       /\ enqueued' = enqueued + 1
       /\ submitted' = i
       /\ UNCHANGED <<othersOfDrain, slots, dpc, dctl, scanVars, tails, flushCount,
                      flushBytes, stagingVars, outcome>>

\* ... advances the staging head, and trim_scanned drops the batch.
SubmitEnd ==
    /\ dpc = "submit" /\ submitted = flushCount
    /\ stgHead' = stgHead + flushBytes
    /\ scanned' = SubSeq(scanned, flushCount + 1, Len(scanned))
    /\ flushCount' = 0 /\ flushBytes' = 0 /\ submitted' = 0
    /\ dpc' = IF dmode = "auto" THEN "top" ELSE "scan"
    /\ UNCHANGED <<othersOfDrain, slots, dctl, visibleHead, tails, stgTail, staging,
                   outcome, handoff>>

DrainNext ==
    \/ DrainTop \/ ScanReady \/ FlushStateUpdate \/ DrainIdle \/ FlushDone \/ StagingSpace
    \/ CopyD2H \/ CopyFails \/ CommitTail \/ SubmitOne \/ SubmitEnd

-----------------------------------------------------------------------------
(* The P2P thread: wait_for_tasks, pop_tasks, process.                      *)

othersOfP2P == <<hostVars, gpuVars, slots, drainVars, stgHead, staging, enqueued, outcome,
                 requested, barrierVars>>

P2PTake ==
    /\ ppc = "wait" /\ queue # <<>>
    /\ local' = queue /\ queue' = <<>>
    /\ cursor' = 1 /\ ppc' = "copy"
    /\ UNCHANGED <<othersOfP2P, stgTail, processed, out>>

\* Copy the next task out of staging; a CPU-direct tensor is already pageable.
P2PCopy ==
    LET t == local[cursor]
    IN /\ ppc = "copy"
       /\ out' = [id |-> 0, size |-> 0, len |-> t.len,
                  ids |-> IF t.direct > 0 THEN {t.direct}
                          ELSE {staging[c % StagingCap] : c \in t.pos .. t.pos + t.len - 1}]
       /\ ppc' = "deliver"
       /\ UNCHANGED <<othersOfP2P, stgTail, queue, local, cursor, processed>>

\* Release its staging, pop the next meta and deliver the pair; a task that
\* finds no meta is dropped.  The batch counts as processed after its last task.
P2PDeliver ==
    LET t == local[cursor]
        last == cursor = Len(local)
    IN /\ ppc = "deliver"
       /\ stgTail' = IF t.direct > 0 THEN stgTail ELSE stgTail + t.len
       /\ IF metas = <<>>
          THEN out' = NoOut /\ UNCHANGED metas
          ELSE /\ out' = [out EXCEPT !.id = Head(metas).id, !.size = Head(metas).size]
               /\ metas' = Tail(metas)
       /\ processed' = IF last THEN processed + Len(local) ELSE processed
       /\ local' = IF last THEN <<>> ELSE local
       /\ cursor' = IF last THEN 1 ELSE cursor + 1
       /\ ppc' = IF last THEN "wait" ELSE "copy"
       /\ UNCHANGED <<hpc, step, acct, hooks, left, stream, running, p2pStop, asyncUntil,
                      gpuVars, slots, drainVars, stgHead, staging, handoff, outcome,
                      requested, barrierVars>>

P2PExit ==
    /\ ppc = "wait" /\ queue = <<>> /\ p2pStop
    /\ ppc' = "exit"
    /\ UNCHANGED <<othersOfP2P, stgTail, queue, local, cursor, processed, out>>

P2PNext == P2PTake \/ P2PCopy \/ P2PDeliver \/ P2PExit

-----------------------------------------------------------------------------
(* drain_to_sink_and_wait on another host thread.                           *)

othersOfBarrier == <<hpc, step, acct, hooks, stream, metas, running, p2pStop, asyncUntil,
                     workers, handoff>>

\* The caller's stream position: every hook fired so far.  The caller is a thread
\* of its own and may call during stop() and after it.
BarrierStart ==
    /\ bpc \in {"idle", "done"} /\ left.barriers > 0
    /\ left' = [left EXCEPT !.barriers = @ - 1]
    /\ bcover' = hooks
    /\ bpc' = "sync"
    /\ UNCHANGED <<othersOfBarrier, requested, bgen, btarget>>

\* wait_stream_until / cudaStreamSynchronize, then the forced flush.
BarrierFlush ==
    /\ bpc = "sync" /\ \A i \in 1 .. Len(stream) : stream[i].id > bcover
    /\ IF failed
       THEN bpc' = "idle" /\ UNCHANGED <<requested, bgen>>
       ELSE /\ requested' = requested + 1 /\ bgen' = requested + 1
            /\ bpc' = "wait"
    /\ UNCHANGED <<othersOfBarrier, left, btarget, bcover>>

\* After the flush, wait for everything handed to the P2P thread so far; a
\* drain failure is rethrown.
\* Mutant: the target is read before the flush has completed.
BarrierFlushedUnwaited ==
    /\ bpc = "wait"
    /\ bpc' = "deliver" /\ btarget' = enqueued
    /\ UNCHANGED <<othersOfBarrier, left, requested, bgen, bcover>>
BarrierFlushed ==
    /\ bpc = "wait" /\ completed >= bgen
    /\ IF failed
       THEN bpc' = "idle" /\ UNCHANGED btarget
       ELSE bpc' = "deliver" /\ btarget' = enqueued
    /\ UNCHANGED <<othersOfBarrier, left, requested, bgen, bcover>>

\* True once the target is processed; false when the P2P thread stopped short.
BarrierReturn ==
    /\ bpc = "deliver" /\ (processed >= btarget \/ ppc = "exit")
    /\ bpc' = IF processed >= btarget THEN "done" ELSE "idle"
    /\ UNCHANGED <<othersOfBarrier, left, requested, bgen, btarget, bcover>>

\* A finite timeout is one deadline over the whole barrier; 0 is none.
BarrierTimeout ==
    /\ bpc \in {"sync", "wait", "deliver"} /\ left.timed
    /\ bpc' = "idle"
    /\ UNCHANGED <<othersOfBarrier, left, requested, bgen, btarget, bcover>>

BarrierNext == BarrierStart \/ BarrierFlush \/ BarrierFlushed \/ BarrierReturn \/ BarrierTimeout

-----------------------------------------------------------------------------
\* Everything has been stopped.
Done == hpc = "closed" /\ ppc = "exit" /\ UNCHANGED vars

Next == HostNext \/ GpuNext \/ DrainNext \/ P2PNext \/ BarrierNext \/ Done

Spec == Init /\ [][Next]_vars

\* The GPU and the two worker threads keep running; a host thread that waits
\* goes on when its wait is over, or when its deadline has come.
Fairness ==
    /\ WF_vars(GpuNext) /\ WF_vars(DrainNext) /\ WF_vars(P2PNext)
    /\ WF_vars(HostFlushRequest) /\ WF_vars(HostFlushReturn)
    /\ WF_vars(StopDrain) /\ WF_vars(StopP2P)
    /\ WF_vars(BarrierFlush) /\ WF_vars(BarrierFlushed) /\ WF_vars(BarrierReturn)
    /\ WF_vars(BarrierTimeout)

FairSpec == Spec /\ Fairness

-----------------------------------------------------------------------------
(* Properties.                                                              *)

Kernel == [id : Nat, size : Nat]
Task   == [direct : Nat, pos : Nat, len : Nat]

StepRecord == [plan : Seq(Nat), hook : Nat, eager : BOOLEAN, gen : Nat,
               after : {"idle", "commit", "reserve", "hook", "direct", "stop"}]
HostType ==
    /\ hpc \in {"idle", "sync", "wait", "reserve", "commit", "forward", "hook", "direct",
                "aborted", "stop", "join", "closed"}
    /\ step \in StepRecord
    /\ cpuPayloadHead \in Nat /\ cpuTaskHead \in Nat /\ hooks \in Nat /\ warm \in BOOLEAN
    /\ left \in Bounds
    /\ running \in BOOLEAN /\ p2pStop \in BOOLEAN /\ asyncUntil \in Nat
GpuType ==
    /\ stream \in Seq(Kernel) /\ copying \in BOOLEAN
    /\ gpuTaskHead \in Nat /\ gpuPayloadHead \in Nat
    /\ slots \in [0 .. TaskCap - 1 -> Nat \cup {Empty}]
    /\ payload \in [0 .. PayloadCap - 1 -> Nat]
DrainType ==
    /\ dpc \in {"top", "scan", "space", "copy", "commit", "submit", "exit"}
    /\ dmode \in {"auto", "force", "final"} /\ dgen \in Nat /\ visibleHead \in Nat
    /\ scanned \in Seq(Nat) /\ cpuTaskTail \in Nat /\ cpuPayloadTail \in Nat
    /\ tailCommitted \in Nat /\ flushCount \in Nat /\ flushBytes \in Nat /\ submitted \in Nat
    /\ stgHead \in Nat /\ stgTail \in Nat /\ staging \in [0 .. StagingCap - 1 -> Nat]
P2PType ==
    /\ ppc \in {"wait", "copy", "deliver", "exit"} /\ cursor \in Nat
    /\ queue \in Seq(Task) /\ local \in Seq(Task) /\ enqueued \in Nat /\ processed \in Nat
    /\ metas \in Seq(Kernel) /\ out \in [id : Nat, size : Nat, ids : SUBSET Nat, len : Nat]
SyncType ==
    /\ requested \in Nat /\ completed \in Nat /\ failed \in BOOLEAN
    /\ bpc \in {"idle", "sync", "wait", "deliver", "done"}
    /\ bgen \in Nat /\ btarget \in Nat /\ bcover \in Nat

\* Every variable holds a value of its C++ or Python type: control points are
\* points of the code, positions are naturals, a slot is empty or a size.
TypeOK == HostType /\ GpuType /\ DrainType /\ P2PType /\ SyncType

\* No producer publishes over an unread slot: the kernels on the stream and
\* the published entries the drain has not taken together fit the task ring.
\* The producers never read the tails, so the host's reservations alone
\* guarantee it, past abandoned steps, warmup runs and unchecked reservations
\* after a flush.  (A failed drain reads no slot any more.)
NoUnreadSlotOverwritten == ~failed => gpuTaskHead + Len(stream) - cpuTaskTail <= TaskCap

\* The P2P thread has handed a tensor to the sink.
Delivered == ppc # "deliver" /\ out.id > 0

\* Every delivery pairs a TensorMeta with its own tensor: the bytes read from
\* staging (or handed over CPU-direct) were written by the hook the meta was
\* pushed for, and their number is the one the meta announces.  do_post_processing
\* pops metas blindly, so this rests on the order of two rings, staging reuse,
\* the flush before a CPU-direct submission and the P2P queue.
DeliveryMatchesMeta ==
    ~failed /\ Delivered => out.len = out.size /\ out.ids \subseteq {out.id}

\* What was waited for is delivered, although flush, handoff and delivery are
\* three threads: drain_to_sink_and_wait returns true only after every hook
\* fired before the call was delivered, and once stop() has ended the P2P
\* thread of a drain that did not fail, every hook that fired was.
WaitedForIsDelivered ==
    LET pending(n) == \E i \in 1 .. Len(metas) : metas[i].id <= n
    IN (bpc = "done" => ~pending(bcover)) /\ (ppc = "exit" /\ ~failed => ~pending(hooks))

\* After a failed copy the released accounting is unusable: the drain thread
\* takes no further entry and hands over no further task.
NothingDrainedAfterFailure ==
    [][failed => cpuTaskTail' = cpuTaskTail /\ submitted' = submitted /\ stgHead' = stgHead]_vars

\* A barrier without a timeout whose flush was requested after the drain thread's
\* last look: force_flush_and_wait has no stop predicate, and the final flush
\* completes no generation.
Stranded == bpc = "wait" /\ bgen > completed /\ dpc = "exit" /\ ~left.timed /\ ~failed

\* Every wait but one ends, also when the drain fails or stops meanwhile: a host
\* thread in force_flush_and_wait is released, stop() joins both worker threads,
\* what request_flush marked is drained, as far as it was published, without a
\* forced flush and whatever thresholds are configured, and the delivery barrier
\* ends, with a timeout or without one.  The one that does not is the barrier
\* without a timeout that requests its flush too late for a loop that stop() ends.
WaitsEnd ==
    <>[](/\ hpc # "wait" /\ (bpc \in {"idle", "done"} \/ Stranded)
         /\ hpc \in {"stop", "join", "closed"} => ppc = "exit"
         /\ asyncUntil <= cpuTaskTail \/ gpuTaskHead <= cpuTaskTail \/ failed)
=============================================================================
