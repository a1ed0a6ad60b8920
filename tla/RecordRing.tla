----------------------------- MODULE RecordRing -----------------------------
(***************************************************************************)
(* The record ring: the reserving thread (RecordRuntime over RingEnginePy), *)
(* the GPU stream of record producers, the drain thread and the worker,     *)
(* composed with the consumer of module RecordConsumer.                     *)
(*                                                                          *)
(* A record is reserved with an upper bound of its size; the drain returns  *)
(* what the producer did not use (a reclaim) when it reads the publication. *)
(* A reservation that does not fit waits for a forced flush.  With a stall  *)
(* budget the wait ends: the step's records are discarded, and past the     *)
(* admission bound of the sink the runtime fails.                           *)
(*                                                                          *)
(* Bytes are counted in units of PAYLOAD_ALIGN, positions are logical and   *)
(* grow without wrapping, and deadlines may pass at any time.               *)
(***************************************************************************)
EXTENDS RecordConsumer, SequencesExt

CONSTANTS
    PayloadCap, TaskCap, StagingCap,
    Scenarios       \* the deployments and bounds of a behaviour

\* A deployment: the failure policy, the plans a step may emit (sequences of
\* [res, reclaim]), whether step_stall_budget_ms is set and drain_policy is
\* "step_gated"; and the bounds: whether a D2H copy may fail, how many records
\* are reserved and forced flushes requested.
Deployment ==
    [policy : {"raise", "disable"}, plans : SUBSET Seq([res : Nat, reclaim : BOOLEAN]),
     budget : BOOLEAN, gated : BOOLEAN, faults : BOOLEAN, records : Nat, flushes : Nat]

ASSUME CapsAssumption == PayloadCap \in Nat /\ TaskCap \in Nat /\ StagingCap \in Nat
ASSUME ScenariosAssumption ==
    Scenarios \subseteq Deployment /\ \A c \in Scenarios : <<>> \notin c.plans

VARIABLES
    \* the deployment, fixed when the engine is built
    conf,
    \* the reserving thread: control point, plan in hand, flush generation it
    \* waits for, skipping_step, step_failure, gap_records, last flush result
    hpc, plan, wgen, skipping, stepFail, gap, flushResult,
    \* DrainThread's reservation accounting, under mgmt_mu_
    payloadHead, taskHead, reclaims, reclaimBytes, reclaimFail,
    \* the GPU: queued producers, whether the first wrote its payload, the
    \* device heads, publications not yet cleared, producers launched
    stream, written, devPayload, devTask, slots, launched,
    \* the drain thread
    dpc, mode, scanned, batch, taskTail, payloadTail, committed, allowed, grant,
    flushReq, flushDone, dgen, grants, drainFail,
    \* hand-over to the worker: tasks, staging bytes in use, worker's range
    queue, staged, holds,
    \* history: reservations whose descriptors were refused
    leaked

hostVars  == <<hpc, plan, wgen, skipping, stepFail, gap, flushResult, leaked>>
accVars   == <<payloadHead, taskHead, reclaims, reclaimBytes, reclaimFail>>
gpuVars   == <<stream, written, devPayload, devTask, launched>>
drainVars == <<dpc, mode, scanned, batch, taskTail, payloadTail, committed, allowed, grant, dgen>>
flushVars == <<flushReq, flushDone, grants, drainFail>>
ringVars  == <<hostVars, accVars, gpuVars, slots, drainVars, flushVars, queue, staged, holds>>
lockVars  == <<failed, descs, discarding, owed, active, discardVars, rstep>>
recordVars == <<consumerVars, conf, ringVars>>

Total(s, f(_)) == FoldLeft(LAMBDA acc, x : acc + f(x), 0, s)
Reserved(p) == Total(p, LAMBDA e : e.res)
Actual(s) == Total(s, LAMBDA e : e.act)

RecordInit ==
    /\ ConsumerInit
    /\ conf \in Scenarios /\ policy = conf.policy
    /\ hpc = "idle" /\ plan = <<>> /\ wgen = 0 /\ skipping = FALSE /\ stepFail = FALSE
    /\ gap = 0 /\ flushResult = "none" /\ leaked = <<>>
    /\ payloadHead = 0 /\ taskHead = 0 /\ reclaims = <<>> /\ reclaimBytes = 0 /\ reclaimFail = FALSE
    /\ stream = <<>> /\ written = FALSE /\ devPayload = 0 /\ devTask = 0 /\ slots = <<>> /\ launched = 0
    /\ dpc = "top" /\ mode = "none" /\ scanned = 0 /\ batch = <<>>
    /\ taskTail = 0 /\ payloadTail = 0 /\ committed = 0 /\ allowed = 0
    /\ grant = [records |-> 0, upto |-> 0] /\ dgen = 0
    /\ flushReq = 0 /\ flushDone = 0 /\ grants = <<>> /\ drainFail = FALSE
    /\ queue = <<>> /\ staged = 0 /\ holds = 0

-----------------------------------------------------------------------------
(* The reserving thread: steps and reservations.                            *)

\* begin_record_step.  Under "raise" the spent budget of an earlier step is
\* latched and raised here, and so is any failure; otherwise a skipped step's
\* window ends, and the consumer counts the step.
BeginRaises ==
    /\ hpc = "idle" /\ ~Disable /\ stepFail /\ ~failed /\ (conf.gated => gap = 0)
    /\ RecordFailure
    /\ UNCHANGED <<workerVars, pushed, emitted, ringVars>>
CanBegin == hpc = "idle" /\ (conf.gated => gap = 0) /\ (~Disable => ~stepFail /\ ~failed) /\ rstep < MaxSteps
BeginClosesWindow ==
    /\ CanBegin /\ skipping
    /\ EndDiscardWindow
    /\ skipping' = FALSE /\ hpc' = "begin" /\ flushResult' = "none"
    /\ UNCHANGED <<workerVars, pushed, emitted, plan, wgen, stepFail, gap, leaked, accVars, gpuVars,
                   slots, drainVars, flushVars, queue, staged, holds>>
BeginRecordStep ==
    /\ \/ CanBegin /\ ~skipping
       \/ hpc = "begin"
    /\ ConsumerBeginStep
    /\ hpc' = "idle" /\ flushResult' = "none"
    /\ UNCHANGED <<failed, descs, discarding, owed, active, discardVars, workerVars, pushed, emitted,
                   plan, wgen, skipping, stepFail, gap, leaked, accVars, gpuVars, slots, drainVars,
                   flushVars, queue, staged, holds>>

EffectiveCap == IF PayloadCap < StagingCap THEN PayloadCap ELSE StagingCap
Oversized(p) == Reserved(p) > EffectiveCap \/ Len(p) > TaskCap

\* DrainThread::reserve_record of plan p on top of payload head h: each
\* reclaimable item remembers the task number it will be published under.
ReserveItems(p, h) ==
    /\ payloadHead' = h + Reserved(p)
    /\ taskHead' = taskHead + Len(p)
    /\ reclaims' = reclaims \o
         SelectSeq([i \in 1 .. Len(p) |->
                      [seq |-> taskHead + i - 1, res |-> p[i].res, reclaim |-> p[i].reclaim]],
                   LAMBDA e : e.reclaim)
    /\ gap' = IF conf.gated THEN gap + Len(p) ELSE gap
    /\ reclaimBytes' = 0
    /\ UNCHANGED reclaimFail

\* reserve_record up to its early return or its wait.  The reclaims the drain
\* has accounted are applied first.
\* Mutant: room is measured against the drain's tail before the copy is done.
ReserveEarlyTail(p) ==
    /\ hpc = "idle" /\ rstep > 0 /\ pushed + Len(p) <= conf.records /\ flushReq < conf.flushes
    /\ ~drainFail /\ ~reclaimFail /\ (Disable \/ ~failed)
    /\ plan' = p /\ flushResult' = "none"
    /\ LET head == payloadHead - reclaimBytes
           room == /\ Reserved(p) <= PayloadCap - (head - payloadTail)
                   /\ Len(p) <= TaskCap - (taskHead - taskTail)
       IN IF ~Oversized(p) /\ room
          THEN ReserveItems(p, head) /\ hpc' = "push"
          ELSE /\ hpc' = "sync" /\ payloadHead' = head /\ reclaimBytes' = 0
               /\ UNCHANGED <<taskHead, reclaims, reclaimFail, gap>>
    /\ UNCHANGED <<consumerVars, wgen, skipping, stepFail, leaked, gpuVars, slots, drainVars,
                   flushVars, queue, staged, holds>>
\* Mutant: an oversized record does not wait for the ring to drain.
ReserveOversizedNow(p) ==
    /\ hpc = "idle" /\ rstep > 0 /\ pushed + Len(p) <= conf.records /\ flushReq < conf.flushes
    /\ ~drainFail /\ ~reclaimFail /\ (Disable \/ ~failed)
    /\ plan' = p /\ flushResult' = "none"
    /\ LET head == payloadHead - reclaimBytes
           room == /\ Reserved(p) <= PayloadCap - (head - committed)
                   /\ Len(p) <= TaskCap - (taskHead - taskTail)
       IN IF ~Oversized(p) /\ room
          THEN ReserveItems(p, head) /\ hpc' = "push"
          ELSE /\ hpc' = (IF Oversized(p) THEN "push" ELSE "sync")
               /\ payloadHead' = head /\ reclaimBytes' = 0
               /\ UNCHANGED <<taskHead, reclaims, reclaimFail, gap>>
    /\ UNCHANGED <<consumerVars, wgen, skipping, stepFail, leaked, gpuVars, slots, drainVars,
                   flushVars, queue, staged, holds>>
Reserve(p) ==
    /\ hpc = "idle" /\ rstep > 0 /\ pushed + Len(p) <= conf.records /\ flushReq < conf.flushes
    /\ ~drainFail /\ ~reclaimFail /\ (Disable \/ ~failed)
    /\ plan' = p /\ flushResult' = "none"
    /\ LET head == payloadHead - reclaimBytes
           room == /\ Reserved(p) <= PayloadCap - (head - committed)
                   /\ Len(p) <= TaskCap - (taskHead - taskTail)
       IN IF ~Oversized(p) /\ room
          THEN ReserveItems(p, head) /\ hpc' = "push"
          ELSE /\ hpc' = "sync" /\ payloadHead' = head /\ reclaimBytes' = 0
               /\ UNCHANGED <<taskHead, reclaims, reclaimFail, gap>>
    /\ UNCHANGED <<consumerVars, wgen, skipping, stepFail, leaked, gpuVars, slots, drainVars,
                   flushVars, queue, staged, holds>>

\* force_flush_and_wait_until asks for a new generation.
RequestFlush ==
    /\ flushReq' = flushReq + 1 /\ wgen' = flushReq + 1
    /\ UNCHANGED <<flushDone, grants, drainFail>>

\* wait_for_record_space: the producers already queued finish, then the ring
\* is drained, for as long as the step's budget allows.  While the step is
\* skipped, or capture is off, only the bounded last wait is left.
WaitForSpace ==
    /\ hpc = "sync" /\ stream = <<>>
    /\ IF conf.budget /\ (skipping \/ (Disable /\ failed))
       THEN hpc' = "past" /\ UNCHANGED <<flushVars, wgen>>
       ELSE IF drainFail
       THEN hpc' = "idle" /\ UNCHANGED <<flushVars, wgen>>
       ELSE hpc' = "wait" /\ RequestFlush
    /\ UNCHANGED <<consumerVars, plan, skipping, stepFail, gap, flushResult, leaked, accVars,
                   gpuVars, slots, drainVars, queue, staged, holds>>

\* The budget runs out: every queued record, and the rest of the step's, is
\* given up.  "raise" keeps the failure for the next step boundary.
StallBudgetSpent ==
    /\ hpc = "wait" /\ conf.budget /\ flushDone < wgen /\ ~drainFail
    /\ skipping' = TRUE /\ stepFail' = (stepFail \/ ~Disable) /\ hpc' = "past"
    /\ BeginDiscardWindow
    /\ UNCHANGED <<workerVars, pushed, emitted, plan, wgen, gap, flushResult, leaked, accVars,
                   gpuVars, slots, drainVars, flushVars, queue, staged, holds>>

\* wait_past_the_budget: one more forced flush, and past its deadline the
\* runtime fails under either policy.
WaitPast ==
    /\ hpc = "past"
    /\ IF drainFail THEN hpc' = "idle" /\ UNCHANGED <<flushVars, wgen>>
                    ELSE hpc' = "last" /\ RequestFlush
    /\ UNCHANGED <<consumerVars, plan, skipping, stepFail, gap, flushResult, leaked, accVars,
                   gpuVars, slots, drainVars, queue, staged, holds>>
\* Mutant: the last wait has no deadline of its own.
LastWaitUnbounded ==
    /\ hpc = "last" /\ flushDone >= wgen /\ ~drainFail
    /\ RecordFailure /\ hpc' = "idle"
    /\ UNCHANGED <<workerVars, pushed, emitted, plan, wgen, skipping, stepFail, gap, flushResult,
                   leaked, accVars, gpuVars, slots, drainVars, flushVars, queue, staged, holds>>
LastWaitExpires ==
    /\ hpc = "last" /\ flushDone < wgen /\ ~drainFail
    /\ RecordFailure /\ hpc' = "idle"
    /\ UNCHANGED <<workerVars, pushed, emitted, plan, wgen, skipping, stepFail, gap, flushResult,
                   leaked, accVars, gpuVars, slots, drainVars, flushVars, queue, staged, holds>>

\* The rest of reserve_record after its wait.
ReserveFlushed ==
    /\ hpc \in {"wait", "last"} /\ (flushDone >= wgen \/ drainFail)
    /\ LET head == payloadHead - reclaimBytes IN
       IF drainFail \/ reclaimFail \/ reclaims # <<>>
       THEN hpc' = "idle" /\ UNCHANGED <<accVars, gap>>
       ELSE IF Oversized(plan)
       THEN /\ hpc' = IF Len(plan) = 1 THEN "push" ELSE "idle"
            /\ payloadHead' = head /\ reclaimBytes' = 0
            /\ UNCHANGED <<taskHead, reclaims, reclaimFail, gap>>
       ELSE hpc' = "push" /\ ReserveItems(plan, head)
    /\ UNCHANGED <<consumerVars, plan, wgen, skipping, stepFail, flushResult, leaked, gpuVars,
                   slots, drainVars, flushVars, queue, staged, holds>>

\* push_record_descriptors; a failed consumer raises under "raise", and the
\* reservation made for the plan stays behind.
PushRecords ==
    /\ hpc = "push" /\ (Disable \/ ~failed)
    /\ PushDescriptors(Len(plan))
    /\ hpc' = "launch"
    /\ UNCHANGED <<workerVars, emitted, plan, wgen, skipping, stepFail, gap, flushResult, leaked,
                   accVars, gpuVars, slots, drainVars, flushVars, queue, staged, holds>>
PushRaises ==
    /\ hpc = "push" /\ ~Disable /\ failed
    /\ leaked' = IF Oversized(plan) THEN leaked ELSE leaked \o plan
    /\ hpc' = "idle"
    /\ UNCHANGED <<consumerVars, plan, wgen, skipping, stepFail, gap, flushResult, accVars,
                   gpuVars, slots, drainVars, flushVars, queue, staged, holds>>

\* The producers of the plan enter the stream (HookPointV1 or the replayed
\* graph); what each will write is decided by its data.
Sizes(e) == IF e.reclaim THEN 0 .. e.res ELSE {e.res}
Launch ==
    /\ hpc = "launch" /\ ~Oversized(plan)
    /\ \E acts \in [1 .. Len(plan) -> UNION {Sizes(plan[i]) : i \in 1 .. Len(plan)}] :
         /\ \A i \in 1 .. Len(plan) : acts[i] \in Sizes(plan[i])
         /\ stream' = stream \o [i \in 1 .. Len(plan) |->
              [id |-> pushed - Len(plan) + i, act |-> acts[i], res |-> plan[i].res]]
    /\ launched' = launched + Len(plan)
    /\ hpc' = "idle"
    /\ UNCHANGED <<consumerVars, plan, wgen, skipping, stepFail, gap, flushResult, leaked, accVars,
                   written, devPayload, devTask, slots, drainVars, flushVars, queue, staged, holds>>
\* submit_record_cpu_direct: an oversized record goes straight to the worker.
SubmitCpuDirect ==
    /\ hpc = "launch" /\ Oversized(plan)
    /\ queue' = Append(queue, [id |-> pushed, act |-> 0])
    /\ emitted' = emitted + 1
    /\ hpc' = "idle"
    /\ UNCHANGED <<lockVars, workerVars, pushed, plan, wgen, skipping, stepFail, gap, flushResult,
                   leaked, accVars, gpuVars, slots, drainVars, flushVars, staged, holds>>

\* allow_flush_step: grant the step's records once the GPU passes this point.
AllowFlushStep ==
    /\ hpc = "idle" /\ conf.gated /\ gap > 0
    /\ gap' = 0
    /\ grants' = IF drainFail THEN grants ELSE Append(grants, [records |-> gap, upto |-> launched])
    /\ flushResult' = "none"
    /\ UNCHANGED <<consumerVars, hpc, plan, wgen, skipping, stepFail, leaked, accVars, gpuVars,
                   slots, drainVars, flushReq, flushDone, drainFail, queue, staged, holds>>

-----------------------------------------------------------------------------
(* flush_records_and_wait.  Its result is "ok", "disabled" (the latched     *)
(* failure reported after the drain) or "none" (false, or another raise).   *)

FlushStart ==
    /\ hpc = "idle" /\ ~drainFail /\ ~reclaimFail /\ flushReq < conf.flushes
    /\ hpc' = IF failed /\ Disable THEN "disabledStream"
              ELSE IF failed \/ stepFail THEN "idle" ELSE "flushStream"
    /\ flushResult' = "none"
    /\ UNCHANGED <<consumerVars, plan, wgen, skipping, stepFail, gap, leaked, accVars, gpuVars,
                   slots, drainVars, flushVars, queue, staged, holds>>
\* wait_for_stream_prefix_until, then the request of the forced flush.
FlushRequest ==
    /\ hpc \in {"flushStream", "disabledStream"} /\ stream = <<>>
    /\ IF drainFail THEN hpc' = "idle" /\ UNCHANGED <<flushVars, wgen>>
       ELSE /\ hpc' = IF hpc = "flushStream" THEN "flushWait" ELSE "disabledWait"
            /\ RequestFlush
    /\ UNCHANGED <<consumerVars, plan, skipping, stepFail, gap, flushResult, leaked, accVars,
                   gpuVars, slots, drainVars, queue, staged, holds>>
FlushDrained ==
    /\ hpc \in {"flushWait", "disabledWait"} /\ (flushDone >= wgen \/ drainFail)
    /\ IF drainFail
       THEN hpc' = "idle" /\ UNCHANGED <<flushResult, payloadHead, reclaimBytes>>
       ELSE IF hpc = "disabledWait"
       THEN hpc' = "idle" /\ flushResult' = "disabled" /\ UNCHANGED <<payloadHead, reclaimBytes>>
       ELSE /\ hpc' = IF reclaimFail \/ reclaims # <<>> THEN "idle" ELSE "flushIdle"
            /\ payloadHead' = payloadHead - reclaimBytes /\ reclaimBytes' = 0
            /\ UNCHANGED flushResult
    /\ UNCHANGED <<consumerVars, plan, wgen, skipping, stepFail, gap, leaked, taskHead, reclaims,
                   reclaimFail, gpuVars, slots, drainVars, flushVars, queue, staged, holds>>
\* wait_until_idle and finish, then the sink's own flush.
FlushIdle ==
    /\ hpc = "flushIdle" /\ (failed \/ Idle)
    /\ hpc' = IF failed THEN "idle" ELSE "flushSink"
    /\ UNCHANGED <<consumerVars, plan, wgen, skipping, stepFail, gap, flushResult, leaked, accVars,
                   gpuVars, slots, drainVars, flushVars, queue, staged, holds>>
FlushSinkDone ==
    /\ hpc = "flushSink"
    /\ hpc' = "idle" /\ flushResult' = "ok"
    /\ UNCHANGED <<consumerVars, plan, wgen, skipping, stepFail, gap, leaked, accVars, gpuVars,
                   slots, drainVars, flushVars, queue, staged, holds>>
FlushSinkFails ==
    /\ hpc = "flushSink" /\ RecordFailure
    /\ hpc' = "idle"
    /\ UNCHANGED <<workerVars, pushed, emitted, plan, wgen, skipping, stepFail, gap, flushResult,
                   leaked, accVars, gpuVars, slots, drainVars, flushVars, queue, staged, holds>>
\* The deadline passes in any of these waits.
FlushTimeout ==
    /\ hpc \in {"flushStream", "disabledStream", "flushWait", "disabledWait", "flushIdle", "flushSink"}
    /\ hpc' = "idle"
    /\ UNCHANGED <<consumerVars, plan, wgen, skipping, stepFail, gap, flushResult, leaked, accVars,
                   gpuVars, slots, drainVars, flushVars, queue, staged, holds>>

HostStep ==
    \/ BeginRaises \/ BeginClosesWindow \/ BeginRecordStep
    \/ \E p \in conf.plans : Reserve(p)
    \/ WaitForSpace \/ StallBudgetSpent \/ WaitPast \/ LastWaitExpires \/ ReserveFlushed
    \/ PushRecords \/ PushRaises \/ Launch \/ SubmitCpuDirect \/ AllowFlushStep
    \/ FlushStart \/ FlushRequest \/ FlushDrained \/ FlushIdle \/ FlushSinkDone \/ FlushSinkFails
    \/ FlushTimeout

-----------------------------------------------------------------------------
(* The GPU: the producers of one stream run in order; each writes its       *)
(* payload at the device head and then publishes its size in its slot.      *)

ProducerWrite ==
    /\ stream # <<>> /\ ~written
    /\ written' = TRUE
    /\ UNCHANGED <<consumerVars, hostVars, accVars, stream, devPayload, devTask, launched, slots,
                   drainVars, flushVars, queue, staged, holds>>
ProducerPublish ==
    /\ written
    /\ LET k == Head(stream) IN
       /\ slots' = Append(slots, [id |-> k.id, act |-> k.act])
       /\ devPayload' = devPayload + k.act
    /\ devTask' = devTask + 1 /\ stream' = Tail(stream) /\ written' = FALSE
    /\ emitted' = emitted + 1
    /\ UNCHANGED <<lockVars, workerVars, pushed, hostVars, accVars, launched, drainVars, flushVars,
                   queue, staged, holds>>

-----------------------------------------------------------------------------
(* The drain thread.                                                        *)

\* account_record_task for the publication of slot i: the oldest reclaim is
\* settled by the publication with its task number.
\* Mutant: a reclaim is settled by whatever is published next.
AccountRecordTaskUnordered(acc, i) ==
    IF acc.todo = <<>> THEN acc
    ELSE [acc EXCEPT !.todo = Tail(@), !.bytes = @ + Head(acc.todo).res - slots[i].act]
AccountRecordTask(acc, i) ==
    LET seq == taskTail + i - 1 IN
    IF acc.todo = <<>> \/ acc.fail \/ seq < Head(acc.todo).seq THEN acc
    ELSE IF seq # Head(acc.todo).seq THEN [acc EXCEPT !.fail = TRUE]
    ELSE IF slots[i].act > Head(acc.todo).res THEN [acc EXCEPT !.fail = TRUE, !.todo = Tail(@)]
    ELSE [acc EXCEPT !.todo = Tail(@), !.bytes = @ + Head(acc.todo).res - slots[i].act]

\* scan_ready: read every publication that has become visible.
ScanReady ==
    LET new == [i \in 1 .. Len(slots) - scanned |-> scanned + i]
        acc == FoldLeft(AccountRecordTask,
                        [todo |-> reclaims, bytes |-> reclaimBytes, fail |-> reclaimFail], new)
    IN /\ reclaims' = acc.todo /\ reclaimBytes' = acc.bytes /\ reclaimFail' = acc.fail
       /\ UNCHANGED <<payloadHead, taskHead>>

\* The publications one batch takes: the longest prefix of n that fits the
\* staging ring.
BatchLength(n) == Max({k \in 0 .. n : Actual(SubSeq(slots, 1, k)) <= StagingCap})

\* flush_state_update: clear the slots of the batch.
FlushStateUpdate(n) ==
    /\ batch' = SubSeq(slots, 1, n) /\ slots' = SubSeq(slots, n + 1, Len(slots))
    /\ scanned' = Len(slots) - n
    /\ taskTail' = taskTail + n
    /\ payloadTail' = payloadTail + Actual(SubSeq(slots, 1, n))
    /\ dpc' = "space"

otherVars == <<consumerVars, hostVars, gpuVars, queue, staged, holds>>

\* The loop's own policy: scan, and flush when should_flush says so, which it
\* must when the ring is full and may otherwise (ratios, thresholds, timers).
DrainPoll ==
    /\ dpc = "top" /\ ~drainFail /\ flushReq = flushDone /\ ~conf.gated
    /\ ScanReady /\ mode' = "poll"
    /\ LET full == Len(slots) >= TaskCap \/ Actual(slots) >= PayloadCap
           n == BatchLength(Len(slots))
       IN \/ /\ n > 0 /\ FlushStateUpdate(n)
          \/ /\ ~(full /\ n > 0)
             /\ scanned' = Len(slots)
             /\ UNCHANGED <<slots, batch, taskTail, payloadTail, dpc>>
    /\ UNCHANGED <<committed, allowed, grant, dgen, flushVars, otherVars>>

\* A forced flush comes first; a step-gated drain otherwise serves a grant.
DrainForced ==
    /\ dpc = "top" /\ ~drainFail /\ flushReq > flushDone
    /\ dgen' = flushReq /\ mode' = "full" /\ dpc' = "loop"
    /\ UNCHANGED <<scanned, batch, taskTail, payloadTail, committed, allowed, grant, slots, accVars,
                   flushVars, otherVars>>
DrainTakeGrant ==
    /\ dpc = "top" /\ ~drainFail /\ flushReq = flushDone /\ conf.gated /\ grants # <<>>
    /\ grant' = Head(grants) /\ grants' = Tail(grants) /\ dpc' = "event"
    /\ UNCHANGED <<mode, scanned, batch, taskTail, payloadTail, committed, allowed, dgen, slots,
                   accVars, flushReq, flushDone, drainFail, otherVars>>
DrainEvent ==
    /\ dpc = "event" /\ devTask >= grant.upto
    /\ allowed' = allowed + grant.records /\ mode' = "granted" /\ dpc' = "loop"
    /\ UNCHANGED <<scanned, batch, taskTail, payloadTail, committed, grant, dgen, slots, accVars,
                   flushVars, otherVars>>

\* record_drain_failure: waiters are released and find the failure.
DrainFails == drainFail' = TRUE /\ flushDone' = flushReq /\ UNCHANGED <<flushReq, grants>>

\* One round of do_full_flush.
FullFlushRound ==
    /\ dpc = "loop" /\ mode = "full"
    /\ ScanReady
    /\ LET n == BatchLength(Len(slots)) IN
       IF n = 0
       THEN /\ flushDone' = dgen /\ dpc' = "top" /\ scanned' = Len(slots)
            /\ UNCHANGED <<flushReq, grants, drainFail, slots, batch, taskTail, payloadTail>>
       ELSE FlushStateUpdate(n) /\ UNCHANGED flushVars
    /\ UNCHANGED <<mode, committed, allowed, grant, dgen, otherVars>>
\* One round of flush_allowed: a granted record must have been published.
FlushAllowedRound ==
    /\ dpc = "loop" /\ mode = "granted"
    /\ IF taskTail >= allowed
       THEN dpc' = "top" /\ UNCHANGED <<accVars, flushVars, slots, batch, scanned, taskTail, payloadTail>>
       ELSE LET granted == allowed - taskTail
                n == BatchLength(IF granted < Len(slots) THEN granted ELSE Len(slots))
            IN /\ ScanReady
               /\ IF Len(slots) < granted \/ n = 0
                  THEN DrainFails /\ dpc' = "top" /\ scanned' = Len(slots)
                       /\ UNCHANGED <<slots, batch, taskTail, payloadTail>>
                  ELSE FlushStateUpdate(n) /\ UNCHANGED flushVars
    /\ UNCHANGED <<mode, committed, allowed, grant, dgen, otherVars>>

\* Wait for staging space, copy the batch and commit its payload range.
DrainCopy ==
    /\ dpc = "space" /\ StagingCap - staged >= Actual(batch)
    /\ \/ /\ committed' = payloadTail /\ dpc' = "submit" /\ UNCHANGED flushVars
       \/ /\ conf.faults /\ DrainFails /\ dpc' = "top" /\ UNCHANGED committed
    /\ UNCHANGED <<mode, scanned, batch, taskTail, payloadTail, allowed, grant, dgen, slots, accVars,
                   otherVars>>
\* submit_to_p2p and trim_scanned.
DrainSubmit ==
    /\ dpc = "submit"
    /\ queue' = queue \o batch
    /\ staged' = staged + Actual(batch) /\ batch' = <<>>
    /\ dpc' = IF mode = "poll" THEN "top" ELSE "loop"
    /\ UNCHANGED <<mode, scanned, taskTail, payloadTail, committed, allowed, grant, dgen, slots,
                   accVars, flushVars, consumerVars, hostVars, gpuVars, holds>>

DrainStep ==
    \/ DrainPoll \/ DrainForced \/ DrainTakeGrant \/ DrainEvent
    \/ FullFlushRound \/ FlushAllowedRound \/ DrainCopy \/ DrainSubmit

-----------------------------------------------------------------------------
(* The worker takes the drain's tasks in order.                             *)

ringButQueue == <<hostVars, accVars, gpuVars, slots, drainVars, flushVars>>
TakeTask ==
    /\ wpc = "idle" /\ queue # <<>>
    /\ cur' = Head(queue).id /\ holds' = Head(queue).act
    /\ taken' = taken + 1 /\ wpc' = "check"
    /\ queue' = Tail(queue)
    /\ UNCHANGED <<lockVars, desc, stored, refused, pushed, emitted, staged, ringButQueue>>
\* The staging range is free once its bytes are copied or found unwanted.
CopyPayload ==
    /\ wpc = "copied" /\ holds > 0
    /\ staged' = staged - holds /\ holds' = 0
    /\ UNCHANGED <<consumerVars, queue, ringButQueue>>
ProcessTask ==
    /\ wpc = "copied" => holds = 0
    /\ WorkerStep
    /\ IF wpc = "check" /\ Unwanted THEN staged' = staged - holds /\ holds' = 0
                                    ELSE UNCHANGED <<staged, holds>>
    /\ UNCHANGED <<pushed, emitted, queue, ringButQueue>>

WorkerThread == TakeTask \/ CopyPayload \/ ProcessTask

Fixed == UNCHANGED <<policy, conf>>
RecordNext == Fixed /\ (HostStep \/ ProducerWrite \/ ProducerPublish \/ DrainStep \/ WorkerThread)
RecordSpec == RecordInit /\ [][RecordNext]_recordVars

\* Producers and the two threads are scheduled, and a wait with a deadline
\* ends.  Nothing is assumed of the sink, nor of the thread that reserves
\* between its calls.
TimedWaits == StallBudgetSpent \/ WaitPast \/ LastWaitExpires \/ FlushTimeout
RecordFairness ==
    /\ WF_recordVars(ProducerWrite /\ Fixed) /\ WF_recordVars(ProducerPublish /\ Fixed)
    /\ WF_recordVars(DrainStep /\ Fixed)
    /\ WF_recordVars(WorkerThread /\ wpc # "submit" /\ Fixed)
    /\ WF_recordVars((WaitForSpace \/ ReserveFlushed \/ PushRecords \/ PushRaises \/ Launch
                      \/ SubmitCpuDirect) /\ Fixed)
    /\ WF_recordVars(TimedWaits /\ Fixed)
FairRecordSpec == RecordSpec /\ RecordFairness
-----------------------------------------------------------------------------
(* Properties.                                                              *)

\* The ring delivers each payload once and in the order of the descriptors,
\* whatever is reserved, reclaimed, flushed by force, granted or sent
\* CPU-direct: the whole ring is a behaviour of the consumer's own module.
RefinesConsumer == ConsumerSpec

\* Payload bytes written whose slot is not published yet.
InFlight == IF written THEN Head(stream).act ELSE 0

\* The conservative reservations alone keep the producers off payload bytes
\* the drain has not copied and off slots it has not read.
RingNeverOverrun ==
    /\ devPayload + InFlight - committed <= PayloadCap
    /\ devTask - taskTail <= TaskCap

\* A checked flush that succeeds has stored every record or counted it as
\* discarded by a skipped step, has returned all reserved space, and
\* steps_with_discards is the number of steps that lost a record although
\* only the last step counted is remembered.
FlushStoresAll ==
    flushResult = "ok" =>
        /\ stored + discardedPayloads = pushed /\ discardedPayloads = discardedDescs
        /\ payloadHead = committed /\ taskHead = taskTail /\ staged = 0
        /\ stepsWithDiscards = Cardinality(lostSteps)

\* A sink that answers every submit.
SinkAnswers == []<>(wpc # "submit")

\* The records granted to a step-gated drain so far.
Granted == allowed + Total(grants, LAMBDA g : g.records) + (IF dpc = "event" THEN grant.records ELSE 0)

\* Nothing waits for ever.  With a stall budget a reservation ends whatever
\* the sink does: it gets its space or it raises.  And as long as the sink
\* answers, the consumer becomes idle or fails once a flush has drained the
\* ring, so the wait of flush_records_and_wait ends, and every record granted
\* to a step-gated drain reaches the worker or the drain fails (as it does for
\* a leaked reservation).
RecordWaitsEnd ==
    /\ <>[](hpc \notin {"sync", "wait", "past", "last"})
    /\ SinkAnswers => <>[](/\ hpc = "flushIdle" => Idle \/ failed
                           /\ taken >= Granted \/ drainFail)
=============================================================================
