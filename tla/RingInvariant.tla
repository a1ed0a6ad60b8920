--------------------------- MODULE RingInvariant ---------------------------
(***************************************************************************)
(* The inductive invariants of Ring: how the host's reservations, the       *)
(* producers' heads, the drain thread's tails and the publication slots     *)
(* hang together in every reachable state (RingInv), and how the tensors in *)
(* flight, their metas and a delivery barrier do (FlowInv, BarrierInv).     *)
(***************************************************************************)
EXTENDS Ring

\* Hooks of the current step that are reserved and not launched yet.
Reserved  == hpc \in {"commit", "forward"} /\ ~step.eager
Remaining == IF Reserved THEN Len(step.plan) - step.hook + 1 ELSE 0
Launched  == gpuTaskHead + Len(stream)

\* The host is at control point x, or gets there when its flush returns.
Heading(x) == hpc = x \/ (hpc \in {"sync", "wait"} /\ step.after = x)
InStep     == \/ hpc \in {"reserve", "commit", "forward", "hook", "direct", "aborted"}
              \/ hpc \in {"sync", "wait"} /\ step.after # "stop"
Batching   == dpc \in {"space", "copy", "commit", "submit"}

\* A step holds one of the plans; a reserved one fits the rings; the safety
\* net stays in the eager branch.
StepInv ==
    /\ step.plan \in Plans => step.hook \in 1 .. Len(step.plan)
    /\ hpc \in {"commit", "forward"} => step.plan \in Plans
    /\ Heading("reserve") \/ Heading("commit") \/ Heading("hook") \/ Heading("direct")
          => step.plan \in Plans
    /\ step.plan \in Plans /\ ~step.eager
          => Bytes(step.plan) <= EffectiveCap /\ Len(step.plan) <= TaskCap
    /\ Heading("reserve") => ~step.eager /\ step.hook = 1
    /\ Heading("commit") => step.hook = 1
    /\ hpc \in {"sync", "wait"} => step.after # "idle" /\ (step.after = "commit" => step.eager)
    /\ Heading("hook") => step.eager /\ HookSize <= EffectiveCap
    /\ Heading("direct") => step.eager

\* The scanned entries are the published ones past the task tail, plus the
\* batch in flight; their ends ascend by at most the staging capacity.
DrainInv ==
    /\ failed => dpc \in {"top", "exit"}
    /\ copying => stream # <<>>
    /\ cpuTaskTail <= visibleHead /\ visibleHead <= gpuTaskHead
    /\ ~failed => Len(scanned) = visibleHead - cpuTaskTail + flushCount
    /\ Batching => /\ flushCount \in 1 .. Len(scanned) /\ submitted <= flushCount
                   /\ cpuPayloadTail = scanned[flushCount]
    /\ ~Batching /\ ~failed => flushCount = 0 /\ flushBytes = 0 /\ submitted = 0
    /\ flushBytes <= cpuPayloadTail
    /\ \A j, k \in 1 .. Len(scanned) : j <= k => scanned[j] <= scanned[k]
    /\ scanned # <<>> => BatchStart <= scanned[1]
    /\ \A k \in 1 .. Len(scanned) : scanned[k] - EntryStart(k) <= StagingCap

\* A slot is READY exactly for the published entries the drain has not taken.
SlotInv ==
    /\ \A i \in 1 .. Len(stream) : stream[i].size <= StagingCap
    /\ ~failed =>
          /\ gpuTaskHead <= cpuTaskTail + TaskCap
          /\ \A i \in cpuTaskTail .. gpuTaskHead - 1 :
                slots[Slot(i)] # Empty /\ slots[Slot(i)] <= StagingCap
          /\ \A i \in gpuTaskHead .. cpuTaskTail + TaskCap - 1 : slots[Slot(i)] = Empty

\* The P2P thread works through the batch it took.
P2PInv == ppc \in {"copy", "deliver"} => cursor \in 1 .. Len(local)

\* A completed generation leaves nothing behind for its waiter.
FlushInv ==
    /\ completed <= requested /\ dgen <= requested
    /\ hpc \in {"wait", "reserve"} => stream = <<>>
    /\ hpc = "wait" /\ completed >= step.gen /\ ~failed => gpuTaskHead = cpuTaskTail
    /\ hpc = "reserve" /\ ~failed => gpuTaskHead = cpuTaskTail

\* Every launched or promised hook is covered by a reservation, except those
\* of a warmup run, which is drained before the next reservation; and the
\* reservations fit the slots above the tail.
AcctInv ==
    /\ warm => ~Reserved
    /\ warm /\ InStep => stream = <<>> /\ gpuTaskHead = cpuTaskTail
    /\ ~warm => Launched + Remaining <= cpuTaskHead
    /\ ~failed => Launched + Remaining <= cpuTaskTail + TaskCap

\* The inductive invariant: in every reachable state the reservations of
\* prepare_step cover the launches, the slots mirror the tails, and a completed
\* forced flush leaves an empty ring.
RingInv == TypeOK /\ StepInv /\ DrainInv /\ SlotInv /\ P2PInv /\ FlushInv /\ AcctInv

-----------------------------------------------------------------------------
(* What every fired hook's tensor waits in until it is delivered: the        *)
(* stream, the ring, the batch in flight, the P2P thread.                    *)
InP2P    == Len(queue) + Len(local) - cursor + 1
OnTheWay == InP2P + (flushCount - submitted) + (gpuTaskHead - cpuTaskTail)
InFlight == OnTheWay + Len(stream)

\* Hooks of the current step whose metas are pushed and that did not fire yet.
Pushed   == hpc \in {"forward", "hook", "direct"} \/ Heading("hook") \/ Heading("direct")
Unfired  == IF Pushed THEN Len(step.plan) - step.hook + 1 ELSE 0
Stopping == hpc \in {"aborted", "join", "closed"} \/ Heading("stop")

\* One meta for every tensor in flight, in their order, then those of the
\* hooks that have yet to fire (or, after an abort, never will).
InOrder ==
    /\ Len(metas) >= InFlight + Unfired /\ (~Stopping => Len(metas) = InFlight + Unfired)
    /\ \A i \in 1 .. Len(metas) : metas[i].id = hooks - InFlight + i
    /\ \A j \in 1 .. Len(stream) : stream[j].id = hooks - Len(stream) + j

\* The tensors of a warmup run have no metas and find none.
OfWarmup == warm /\ ~InStep /\ metas = <<>> /\ \A j \in 1 .. Len(stream) : stream[j].id = 0

\* The counters of the handoff agree with its queues.
CountInv ==
    /\ enqueued = processed + Len(queue) + Len(local)
    /\ ppc \in {"wait", "exit"} => local = <<>> /\ cursor = 1
    /\ dpc \in {"space", "copy", "commit"} /\ ~failed => submitted = 0

\* stop() ends the drain thread with nothing left behind, then the P2P thread.
EndInv ==
    /\ hpc = "direct" => stream = <<>>
    /\ hpc \in {"stop", "join", "closed"} => step.after = "stop"
    /\ ~running => hpc \in {"join", "closed"}
    /\ dmode = "final" \/ dpc = "exit" => ~running
    /\ dmode = "final" => stream = <<>>
    /\ dpc = "exit" /\ ~failed => stream = <<>> /\ gpuTaskHead = cpuTaskTail
    /\ p2pStop => hpc = "closed" /\ dpc = "exit"
    /\ ppc = "exit" => p2pStop /\ queue = <<>>

FlowInv == CountInv /\ EndInv /\ (~failed => InOrder \/ OfWarmup)

\* The metas of the hooks a barrier covers are among the next n.
Covered(n) == \A i \in 1 .. Len(metas) : metas[i].id <= bcover => i <= n
BarrierInv ==
    /\ bcover <= hooks
    /\ bpc = "wait" /\ ~failed => Covered(OnTheWay) /\ (completed >= bgen => Covered(InP2P))
    /\ bpc = "deliver" => Covered(btarget - (enqueued - InP2P))
    /\ bpc = "done" => Covered(0)
=============================================================================
