------------------------- MODULE RingDeliveryProofs -------------------------
(***************************************************************************)
(* The delivery theorem of the legacy ring: what drain_to_sink_and_wait and  *)
(* stop() waited for has been delivered.  Every tensor in flight has its     *)
(* meta, in order; a barrier's metas move to the front of the FIFO with the  *)
(* tensors it waits for.                                                     *)
(***************************************************************************)
EXTENDS RingProofs

\* What the order of the tensors in flight is read from.
flowVars == <<hooks, stream, metas, queue, local, cursor, flushCount, submitted,
              gpuTaskHead, cpuTaskTail>>

-----------------------------------------------------------------------------
(* The counters of the handoff.                                             *)

\* A step that leaves the handoff and the batch alone keeps the counters.
LEMMA CountKeep ==
    CountInv /\ UNCHANGED <<queue, local, cursor, enqueued, processed, ppc, dpc, submitted, failed>>
        => CountInv'
BY DEF CountInv

\* Every queued tensor is counted once, by whichever thread queues it.
LEMMA CountHost ==
    ASSUME TypeOK, CountInv, HostNext
    PROVE  CountInv'
<1>1. UNCHANGED <<local, cursor, processed, ppc, dpc, submitted, failed>>
  BY HostKeepsWorkers, Zenon DEF workers, p2pVars, drainVars, batchVars, outcome
<1>2. CASE SubmitCpuDirect
  <2>1. Len(queue') = Len(queue) + 1 /\ enqueued' = enqueued + 1
    BY <1>2 DEF SubmitCpuDirect, TypeOK, P2PType
  <2>2. enqueued' = processed' + Len(queue') + Len(local')
    BY <1>1, <2>1 DEF CountInv, TypeOK, P2PType
  <2> QED
    BY <1>1, <2>2, Zenon DEF CountInv
<1>3. CASE ~SubmitCpuDirect
  <2>1. UNCHANGED <<queue, enqueued>>
    BY <1>3, Zenon DEF HostNext, PrepareStep, Warmup, HostFlushRequest, HostFlushReturn,
       ReserveFlushed, PushMetas, AbandonStep, LaunchHook, EagerLaunch, EagerFlush, EagerStrip,
       EagerFlushedLaunch, EagerRefused, RequestFlush, Stop, StopDrain, StopP2P
  <2> QED
    BY <1>1, <2>1, CountKeep, Zenon
<1> QED
  BY <1>2, <1>3, Zenon

\* The drain thread hands over one task at a time.
LEMMA CountDrain ==
    ASSUME TypeOK, DrainInv, CountInv, DrainNext
    PROVE  CountInv'
<1>1. UNCHANGED <<local, cursor, processed, ppc>>
  BY Zenon DEF DrainNext, DrainTop, ScanReady, FlushStateUpdate, DrainIdle, FlushDone,
     StagingSpace, CopyD2H, CopyFails, CommitTail, SubmitOne, SubmitEnd, othersOfDrain, p2pVars
<1>2. CASE SubmitOne
  <2>1. Len(queue') = Len(queue) + 1 /\ enqueued' = enqueued + 1
    BY <1>2 DEF SubmitOne, TypeOK, P2PType
  <2>2. enqueued' = processed' + Len(queue') + Len(local')
    BY <1>1, <2>1 DEF CountInv, TypeOK, P2PType
  <2>3. dpc' = "submit"
    BY <1>2, Zenon DEF SubmitOne
  <2> QED
    BY <1>1, <2>2, <2>3 DEF CountInv
<1>3. CASE ~SubmitOne
  <2>1. UNCHANGED <<queue, enqueued>>
    BY <1>3, Zenon DEF DrainNext, DrainTop, ScanReady, FlushStateUpdate, DrainIdle, FlushDone,
       StagingSpace, CopyD2H, CopyFails, CommitTail, SubmitEnd, handoff
  <2>2. dpc' \in {"space", "copy", "commit"} /\ ~failed' => submitted' = 0
    <3>1. CASE FlushStateUpdate
      BY <3>1, Zenon DEF FlushStateUpdate, DrainInv, Batching, outcome
    <3>2. CASE ~FlushStateUpdate
      BY <1>3, <3>2, Zenon DEF DrainNext, DrainTop, ScanReady, DrainIdle, FlushDone,
         StagingSpace, CopyD2H, CopyFails, CommitTail, SubmitEnd, CountInv, outcome, batchVars
    <3> QED
      BY <3>1, <3>2, Zenon
  <2> QED
    BY <1>1, <2>1, <2>2, Zenon DEF CountInv
<1> QED
  BY <1>2, <1>3, Zenon

\* The P2P thread takes the whole queue and counts the batch at its end.
LEMMA CountP2P ==
    ASSUME TypeOK, P2PInv, CountInv, P2PNext
    PROVE  CountInv'
<1>1. UNCHANGED <<enqueued, dpc, submitted, failed>>
  BY Zenon DEF P2PNext, P2PTake, P2PCopy, P2PDeliver, P2PExit, othersOfP2P, drainVars,
     batchVars, outcome, handoff
<1>2. CASE P2PTake
  <2>1. Len(queue') = 0 /\ local' = queue /\ local = <<>> /\ processed' = processed /\ ppc' = "copy"
    BY <1>2 DEF P2PTake, CountInv
  <2> QED
    BY <1>1, <2>1 DEF CountInv, TypeOK, P2PType
<1>3. CASE P2PDeliver
  <2>1. queue' = queue /\ cursor \in 1 .. Len(local)
    BY <1>3, Zenon DEF P2PDeliver, P2PInv, handoff
  <2>2. CASE cursor = Len(local)
    <3>1. local' = <<>> /\ cursor' = 1 /\ processed' = processed + Len(local)
      BY <1>3, <2>2, Zenon DEF P2PDeliver
    <3> QED
      BY <1>1, <2>1, <3>1 DEF CountInv, TypeOK, P2PType
  <2>3. CASE cursor # Len(local)
    <3>1. UNCHANGED <<local, processed>> /\ ppc' = "copy"
      BY <1>3, <2>3, Zenon DEF P2PDeliver
    <3> QED
      BY <1>1, <2>1, <3>1, Zenon DEF CountInv
  <2> QED
    BY <2>2, <2>3, Zenon
<1>4. CASE P2PCopy
  BY <1>1, <1>4, Zenon DEF P2PCopy, CountInv
<1>5. CASE P2PExit
  BY <1>1, <1>5, Zenon DEF P2PExit, CountInv
<1> QED
  BY <1>2, <1>3, <1>4, <1>5, Zenon DEF P2PNext

\* The counters agree in every reachable state.
LEMMA CountStep ==
    ASSUME RingInv, CountInv, [Next]_vars
    PROVE  CountInv'
<1>1. TypeOK /\ DrainInv /\ P2PInv
  BY Zenon DEF RingInv
<1>2. CASE GpuNext \/ BarrierNext \/ UNCHANGED vars
  BY <1>2, CountKeep, Zenon DEF GpuNext, KernelCopy, KernelPublish, BarrierNext, BarrierStart,
     BarrierFlush, BarrierFlushed, BarrierReturn, BarrierTimeout, othersOfBarrier, vars,
     workers, drainVars, batchVars, p2pVars, handoff, outcome
<1> QED
  BY <1>1, <1>2, CountHost, CountDrain, CountP2P, Zenon DEF Next, Done

-----------------------------------------------------------------------------
(* The end of the threads.                                                  *)

\* A step that leaves the control points, the heads and the queue alone.
LEMMA EndKeep ==
    EndInv /\ UNCHANGED <<hpc, step, running, p2pStop, stream, dmode, dpc, failed, gpuTaskHead,
                          cpuTaskTail, ppc, queue>> => EndInv'
BY DEF EndInv

\* The host stops the threads in order, and launches nothing after a flush
\* that a CPU-direct tensor or stop() asked for.
LEMMA EndHost ==
    ASSUME TypeOK, StepInv, FlushInv, EndInv, HostNext
    PROVE  EndInv'
<1>1. UNCHANGED <<dmode, dpc, failed, gpuTaskHead, cpuTaskTail, ppc>>
  BY HostKeepsWorkers, Zenon DEF workers, gpuVars, p2pVars, drainVars, dctl, tails, outcome
<1>2. CASE hpc \in {"stop", "join"}
  <2>1. UNCHANGED <<step, stream, queue>>
        /\ \/ hpc = "stop" /\ hpc' = "join" /\ ~running' /\ p2pStop' = p2pStop
           \/ hpc = "join" /\ hpc' = "closed" /\ running' = running /\ p2pStop' /\ dpc = "exit"
    BY <1>2, Zenon DEF HostNext, PrepareStep, Warmup, HostFlushRequest, HostFlushReturn,
       ReserveFlushed, PushMetas, AbandonStep, LaunchHook, EagerLaunch, EagerFlush, EagerStrip,
       EagerFlushedLaunch, EagerRefused, SubmitCpuDirect, RequestFlush, Stop, StopDrain, StopP2P
  <2> QED
    BY <1>1, <1>2, <2>1 DEF EndInv
<1>3. CASE hpc \notin {"stop", "join"}
  <2>1. UNCHANGED <<running, p2pStop>> /\ hpc # "closed"
    BY <1>3, Zenon DEF HostNext, PrepareStep, Warmup, HostFlushRequest, HostFlushReturn,
       ReserveFlushed, PushMetas, AbandonStep, LaunchHook, EagerLaunch, EagerFlush, EagerStrip,
       EagerFlushedLaunch, EagerRefused, SubmitCpuDirect, RequestFlush, Stop, StopDrain, StopP2P,
       HookDone
  <2>2. running /\ ~p2pStop /\ ppc # "exit" /\ dmode # "final" /\ dpc # "exit"
    BY <1>3, <2>1, Zenon DEF EndInv, TypeOK, HostType
  <2>3. hpc' = "direct" => stream' = <<>>
    BY <1>3, Zenon DEF HostNext, PrepareStep, Warmup, HostFlushRequest, HostFlushReturn,
       ReserveFlushed, PushMetas, AbandonStep, LaunchHook, EagerLaunch, EagerFlush, EagerStrip,
       EagerFlushedLaunch, EagerRefused, SubmitCpuDirect, RequestFlush, Stop, StopDrain, StopP2P,
       HookDone, FlushInv
  <2>4. hpc' \in {"stop", "join", "closed"} => step'.after = "stop"
    <3>1. CASE HostFlushRequest
      BY <3>1, Zenon DEF HostFlushRequest, TypeOK, HostType, StepRecord
    <3>2. CASE HostFlushReturn
      BY <3>2, Zenon DEF HostFlushReturn, TypeOK, HostType, StepRecord
    <3>3. CASE ~HostFlushRequest /\ ~HostFlushReturn
      BY <1>3, <3>3, ZenonT(40) DEF HostNext, PrepareStep, Warmup,
       ReserveFlushed, PushMetas, AbandonStep, LaunchHook, EagerLaunch, EagerFlush, EagerStrip,
       EagerFlushedLaunch, EagerRefused, SubmitCpuDirect, RequestFlush, Stop, StopDrain, StopP2P,
       HookDone
    <3> QED
      BY <3>1, <3>2, <3>3, Zenon
  <2> QED
    BY <1>1, <2>1, <2>2, <2>3, <2>4, Zenon DEF EndInv
<1> QED
  BY <1>2, <1>3, Zenon

\* No kernel is left when the drain thread makes its final pass.
LEMMA EndGpu ==
    ASSUME TypeOK, DrainInv, EndInv, GpuNext
    PROVE  EndInv'
<1>1. UNCHANGED <<hpc, step, running, p2pStop, dmode, dpc, failed, cpuTaskTail, ppc, queue>>
  BY Zenon DEF GpuNext, KernelCopy, KernelPublish, hostVars, drainVars, dctl, tails, p2pVars
<1>2. CASE KernelCopy
  BY <1>1, <1>2, EndKeep, Zenon DEF KernelCopy, hostVars
<1>3. CASE KernelPublish
  <2>1. stream # <<>>
    BY <1>3, Zenon DEF KernelPublish, DrainInv
  <2> QED
    BY <1>1, <2>1, <1>3 DEF EndInv, KernelPublish, hostVars
<1> QED
  BY <1>2, <1>3, Zenon DEF GpuNext

\* The drain thread ends after a final pass that found nothing more to take.
LEMMA EndDrain ==
    ASSUME TypeOK, DrainInv, SlotInv, EndInv, DrainNext
    PROVE  EndInv'
<1>1. UNCHANGED <<hpc, step, running, p2pStop, stream, gpuTaskHead, ppc>>
  BY Zenon DEF DrainNext, DrainTop, ScanReady, FlushStateUpdate, DrainIdle, FlushDone,
     StagingSpace, CopyD2H, CopyFails, CommitTail, SubmitOne, SubmitEnd, othersOfDrain, hostVars,
     gpuVars, p2pVars
<1>2. dpc # "exit" /\ ~p2pStop /\ ppc # "exit"
  BY Zenon DEF DrainNext, DrainTop, ScanReady, FlushStateUpdate, DrainIdle, FlushDone,
     StagingSpace, CopyD2H, CopyFails, CommitTail, SubmitOne, SubmitEnd, EndInv
<1>3. CASE FlushDone
  <2>1. gpuTaskHead = cpuTaskTail /\ cpuTaskTail' = cpuTaskTail
    BY <1>3, FullFlush, Zenon DEF FlushDone, tails
  <2>2. dmode # "force" => dmode = "final"
    BY <1>3, Zenon DEF FlushDone, TypeOK, DrainType
  <2> QED
    BY <1>1, <1>2, <1>3, <2>1, <2>2, Zenon DEF FlushDone, EndInv, dctl
<1>4. CASE DrainTop
  BY <1>1, <1>2, <1>4, Zenon DEF DrainTop, EndInv, dctl, outcome
<1>5. CASE CopyFails
  BY <1>1, <1>2, <1>5, Zenon DEF CopyFails, EndInv, dctl
<1>6. CASE ~FlushDone /\ ~DrainTop /\ ~CopyFails
  <2>1. dmode' = dmode /\ dpc' # "exit"
    BY <1>2, <1>6, Zenon DEF DrainNext, ScanReady, FlushStateUpdate, DrainIdle,
     StagingSpace, CopyD2H, CommitTail, SubmitOne, SubmitEnd, dctl
  <2> QED
    BY <1>1, <1>2, <2>1, Zenon DEF EndInv
<1> QED
  BY <1>3, <1>4, <1>5, <1>6, Zenon

\* The P2P thread ends with an empty queue.
LEMMA EndP2P ==
    ASSUME EndInv, P2PNext
    PROVE  EndInv'
<1>1. UNCHANGED <<hpc, step, running, p2pStop, stream, dmode, dpc, failed, gpuTaskHead, cpuTaskTail>>
  BY Zenon DEF P2PNext, P2PTake, P2PCopy, P2PDeliver, P2PExit, othersOfP2P, hostVars, gpuVars,
     drainVars, dctl, tails, outcome
<1>2. ppc' = "exit" => p2pStop' /\ queue' = <<>>
  <2>1. CASE P2PDeliver
    BY <2>1 DEF P2PDeliver
  <2>2. CASE ~P2PDeliver
    BY <1>1, <2>2, Zenon DEF P2PNext, P2PTake, P2PCopy, P2PExit
  <2> QED
    BY <2>1, <2>2, Zenon
<1> QED
  BY <1>1, <1>2, Zenon DEF EndInv

\* The threads end in order in every reachable state.
LEMMA EndStep ==
    ASSUME RingInv, EndInv, [Next]_vars
    PROVE  EndInv'
<1>1. TypeOK /\ StepInv /\ DrainInv /\ SlotInv /\ FlushInv
  BY Zenon DEF RingInv
<1>2. CASE BarrierNext \/ UNCHANGED vars
  BY <1>2, EndKeep, Zenon DEF BarrierNext, BarrierStart,
     BarrierFlush, BarrierFlushed, BarrierReturn, BarrierTimeout, othersOfBarrier, vars, hostVars,
     workers, gpuVars, drainVars, dctl, tails, p2pVars, handoff, outcome
<1> QED
  BY <1>1, <1>2, EndHost, EndGpu, EndDrain, EndP2P, Zenon DEF Next, Done

-----------------------------------------------------------------------------
(* The tensors in flight and their metas.                                   *)

\* The counts are numbers, and a later part of the way counts no more than all of it.
LEMMA FlowCounts ==
    ASSUME RingInv, CountInv
    PROVE  /\ InP2P \in Nat /\ OnTheWay \in Int /\ InFlight \in Int /\ hooks \in Nat
           /\ Len(stream) \in Nat /\ Len(metas) \in Nat
           /\ ~failed => InP2P <= OnTheWay /\ OnTheWay <= InFlight
           /\ ppc \in {"copy", "deliver"} => InP2P >= 1
<1>1. HostType /\ GpuType /\ DrainType /\ P2PType
  BY Zenon DEF RingInv, TypeOK
<1>2. /\ hooks \in Nat /\ Len(stream) \in Nat /\ Len(metas) \in Nat /\ Len(queue) \in Nat
      /\ Len(local) \in Nat /\ cursor \in Nat /\ flushCount \in Nat /\ submitted \in Nat
      /\ gpuTaskHead \in Nat /\ cpuTaskTail \in Nat
  BY <1>1 DEF HostType, GpuType, DrainType, P2PType
<1>3. ppc \in {"copy", "deliver"} => cursor \in 1 .. Len(local)
  BY Zenon DEF RingInv, P2PInv
<1>4. ppc \notin {"copy", "deliver"} => cursor = 1
  BY <1>1, Zenon DEF P2PType, CountInv
<1>5. InP2P \in Nat /\ (ppc \in {"copy", "deliver"} => InP2P >= 1)
  BY <1>2, <1>3, <1>4 DEF InP2P
<1>6. ~failed => submitted <= flushCount
  <2>1. CASE Batching
    BY <2>1, Zenon DEF RingInv, DrainInv
  <2>2. CASE ~Batching /\ ~failed
    BY <2>2 DEF RingInv, DrainInv
  <2> QED
    BY <2>1, <2>2, Zenon
<1>7. cpuTaskTail <= gpuTaskHead
  BY <1>1, <1>2 DEF RingInv, DrainInv, DrainType
<1>8. OnTheWay \in Int /\ (~failed => InP2P <= OnTheWay)
  BY <1>2, <1>5, <1>6, <1>7 DEF OnTheWay
<1>9. InFlight \in Int /\ OnTheWay <= InFlight
  BY <1>2, <1>8 DEF InFlight
<1> QED
  BY <1>2, <1>5, <1>8, <1>9, Zenon

\* The pushed hooks that did not fire are a part of the step.
LEMMA UnfiredNat ==
    ASSUME StepInv
    PROVE  Unfired \in Nat
<1>1. Pushed => step.plan \in Plans
  BY Zenon DEF Pushed, StepInv, Heading
<1>2. step.plan \in Plans => Len(step.plan) \in Nat \ {0} /\ step.hook \in 1 .. Len(step.plan)
  BY PlanFacts, Zenon DEF StepInv
<1> QED
  BY <1>1, <1>2 DEF Unfired

\* They still are after a step.
LEMMA UnfiredNext ==
    ASSUME StepInv'
    PROVE  Unfired' \in Nat
<1>1. Pushed' => step'.plan \in Plans
  BY Zenon DEF Pushed, StepInv, Heading
<1>2. step'.plan \in Plans => Len(step'.plan) \in Nat \ {0} /\ step'.hook \in 1 .. Len(step'.plan)
  BY PlanFacts, Zenon DEF StepInv
<1> QED
  BY <1>1, <1>2 DEF Unfired

\* What nobody touched is counted as before.
LEMMA SameCounts ==
    ASSUME UNCHANGED flowVars
    PROVE  /\ InP2P' = InP2P /\ OnTheWay' = OnTheWay /\ InFlight' = InFlight
           /\ UNCHANGED <<hooks, stream, metas>>
BY Zenon DEF flowVars, InP2P, OnTheWay, InFlight

\* The host moves on between two hooks, or gives up what is left of the step.
LEMMA HostMoves ==
    ASSUME RingInv, CountInv, InOrder, UNCHANGED flowVars, Unfired' \in Nat,
           Stopping => Stopping', Unfired' <= Unfired, Unfired' = Unfired \/ Stopping'
    PROVE  InOrder'
<1>1. InFlight' = InFlight /\ UNCHANGED <<hooks, stream, metas>>
  BY SameCounts, Zenon
<1>2. InFlight \in Int /\ Len(metas) \in Nat
  BY FlowCounts, Zenon
<1>3. Unfired \in Nat
  BY UnfiredNat, Zenon DEF RingInv
<1>4. Len(metas) >= InFlight + Unfired /\ (~Stopping => Len(metas) = InFlight + Unfired)
  BY Zenon DEF InOrder
<1>5. Len(metas) >= InFlight + Unfired'
  BY <1>2, <1>3, <1>4
<1>6. ~Stopping' => Len(metas) = InFlight + Unfired'
  BY <1>4, Zenon
<1> QED
  BY <1>1, <1>5, <1>6, Zenon DEF InOrder

\* A drained ring with an idle P2P thread has nothing in flight.
LEMMA NothingInFlight ==
    ASSUME RingInv, CountInv, ~failed,
           stream = <<>>, dpc = "top", cpuTaskTail = gpuTaskHead, processed = enqueued
    PROVE  InFlight = 0
<1>1. flushCount = 0 /\ submitted = 0
  BY DEF RingInv, DrainInv, Batching
<1>2. P2PType /\ GpuType
  BY Zenon DEF RingInv, TypeOK
<1>3. Len(queue) = 0 /\ Len(local) = 0
  BY <1>2 DEF CountInv, P2PType
<1>4. cursor = 1
  BY <1>2, <1>3 DEF RingInv, P2PInv, P2PType, CountInv
<1> QED
  BY <1>1, <1>2, <1>3, <1>4 DEF InFlight, OnTheWay, InP2P, GpuType

\* The host prepares a step, flushes, or stops; no tensor moves.
LEMMA FlowHostMoves ==
    ASSUME RingInv, RingInv', CountInv, ~failed, InOrder \/ OfWarmup,
           \/ \E p \in Plans, e \in BOOLEAN : PrepareStep(p, e)
           \/ HostFlushRequest \/ HostFlushReturn \/ ReserveFlushed \/ AbandonStep
           \/ EagerFlush \/ EagerStrip \/ EagerRefused \/ RequestFlush
           \/ Stop \/ StopDrain \/ StopP2P
    PROVE  InOrder' \/ OfWarmup'
<1>1. UNCHANGED flowVars
  BY HostKeepsWorkers, Zenon DEF flowVars, HostNext, PrepareStep, HostFlushRequest,
     HostFlushReturn, ReserveFlushed, AbandonStep, EagerFlush, EagerStrip, EagerRefused,
     RequestFlush, Stop, StopDrain, StopP2P, workers, gpuVars, p2pVars, drainVars, tails, batchVars
<1>2. Unfired \in Nat /\ Unfired' \in Nat
  BY UnfiredNat, UnfiredNext, Zenon DEF RingInv
<1>3. StepInv /\ step \in StepRecord
  BY Zenon DEF RingInv, TypeOK, HostType
<1>4. ASSUME NEW p \in Plans, NEW e \in BOOLEAN, PrepareStep(p, e) PROVE InOrder'
  <2>1. /\ hpc = "idle" /\ hpc' \in {"sync", "commit"} /\ step'.after \in {"commit", "reserve"}
        /\ WarmupQuiesced
    BY <1>4, Zenon DEF PrepareStep
  <2>2. Unfired = 0 /\ Unfired' = 0 /\ ~Stopping'
    BY <2>1 DEF Unfired, Pushed, Stopping, Heading
  <2>3. CASE InOrder /\ ~Stopping
    BY <1>1, <1>2, <2>2, <2>3, HostMoves
  <2>4. CASE OfWarmup
    <3>1. InFlight = 0 /\ stream = <<>> /\ metas = <<>>
      BY <2>1, <2>4, NothingInFlight, Zenon DEF OfWarmup, WarmupQuiesced
    <3>2. InFlight' = 0 /\ stream' = <<>> /\ metas' = <<>>
      BY <1>1, <3>1, SameCounts, Zenon
    <3> QED
      BY <2>2, <3>2 DEF InOrder
  <2>5. ~Stopping
    BY <2>1 DEF Stopping, Heading
  <2> QED
    BY <2>3, <2>4, <2>5, Zenon
<1>5. CASE HostFlushRequest
  <2>1. /\ hpc = "sync" /\ hpc' = "wait" /\ step'.after = step.after /\ step'.plan = step.plan
        /\ step'.hook = step.hook /\ warm' = warm
    BY <1>3, <1>5, Zenon DEF HostFlushRequest, StepRecord, acct
  <2>2. Unfired' = Unfired /\ (Stopping' <=> Stopping)
    BY <2>1, Zenon DEF Unfired, Pushed, Heading, Stopping
  <2>3. OfWarmup => OfWarmup'
    BY <1>1, <2>1, Zenon DEF OfWarmup, InStep, flowVars
  <2> QED
    BY <1>1, <1>2, <2>2, <2>3, HostMoves
<1>6. CASE HostFlushReturn
  <2>1. hpc = "wait" /\ hpc' = step.after /\ step' = step /\ warm' = warm
    BY <1>6, Zenon DEF HostFlushReturn, acct
  <2>2. step.after \in {"commit", "reserve", "hook", "direct", "stop"}
    BY <1>3, <2>1, Zenon DEF StepInv, StepRecord
  <2>3. Unfired' = Unfired /\ (Stopping' <=> Stopping)
    BY <2>1, <2>2, Zenon DEF Unfired, Pushed, Heading, Stopping
  <2>4. OfWarmup => OfWarmup'
    BY <1>1, <2>1, <2>2, Zenon DEF OfWarmup, InStep, flowVars
  <2> QED
    BY <1>1, <1>2, <2>3, <2>4, HostMoves
<1>7. CASE ReserveFlushed \/ AbandonStep
  <2>1. /\ hpc \in {"reserve", "commit"} /\ hpc' \in {"commit", "idle"}
        /\ step' \in {step, NoStep}
    BY <1>7, Zenon DEF ReserveFlushed, AbandonStep
  <2>2. Unfired = 0 /\ Unfired' = 0 /\ ~OfWarmup
    BY <2>1 DEF Unfired, Pushed, Heading, OfWarmup, InStep
  <2>3. Stopping => Stopping'
    BY <2>1 DEF Stopping, Heading
  <2> QED
    BY <1>1, <1>2, <2>2, <2>3, HostMoves
<1>8. CASE EagerFlush \/ EagerStrip
  <2>1. /\ hpc = "forward" /\ hpc' = "sync" /\ step'.after \in {"hook", "direct"}
        /\ step'.plan = step.plan /\ step'.hook = step.hook
    BY <1>3, <1>8, Zenon DEF EagerFlush, EagerStrip, StepRecord
  <2>2. Unfired' = Unfired /\ ~Stopping /\ ~OfWarmup
    BY <2>1 DEF Unfired, Pushed, Heading, Stopping, OfWarmup, InStep
  <2> QED
    BY <1>1, <1>2, <2>2, HostMoves
<1>9. CASE EagerRefused
  <2>1. hpc = "hook" /\ hpc' = "aborted"
    BY <1>9, Zenon DEF EagerRefused
  <2>2. Unfired' = 0 /\ Stopping' /\ ~OfWarmup
    BY <2>1 DEF Unfired, Pushed, Heading, Stopping, OfWarmup, InStep
  <2> QED
    BY <1>1, <1>2, <2>2, HostMoves
<1>10. CASE RequestFlush
  <2>1. UNCHANGED <<hpc, step, warm>>
    BY <1>10, Zenon DEF RequestFlush, acct
  <2>2. Unfired' = Unfired /\ (Stopping' <=> Stopping)
    BY <2>1, Zenon DEF Unfired, Pushed, Heading, Stopping
  <2>3. OfWarmup => OfWarmup'
    BY <1>1, <2>1, Zenon DEF OfWarmup, InStep, flowVars
  <2> QED
    BY <1>1, <1>2, <2>2, <2>3, HostMoves
<1>11. CASE Stop \/ StopDrain \/ StopP2P
  <2>1. /\ hpc \in {"idle", "aborted", "stop", "join"} /\ hpc' \in {"sync", "join", "closed"}
        /\ hpc' = "sync" => step'.after = "stop"
        /\ warm' = warm
    BY <1>11, Zenon DEF Stop, StopDrain, StopP2P, NoStep, acct
  <2>2. Unfired = 0 /\ Unfired' = 0
    BY <2>1 DEF Unfired, Pushed, Heading
  <2>3. Stopping'
    BY <2>1 DEF Stopping, Heading
  <2>4. OfWarmup => OfWarmup'
    BY <1>1, <2>1, Zenon DEF OfWarmup, InStep, flowVars
  <2> QED
    BY <1>1, <1>2, <2>2, <2>3, <2>4, HostMoves
<1> QED
  BY <1>4, <1>5, <1>6, <1>7, <1>8, <1>9, <1>10, <1>11, Zenon

\* The metas of a step follow those of all tensors in flight.
LEMMA FlowPush ==
    ASSUME RingInv, CountInv, InOrder, PushMetas
    PROVE  InOrder'
<1> DEFINE n == Len(step.plan)
<1> DEFINE new == [i \in 1 .. n |-> [id |-> hooks + i, size |-> Size(step.plan, i)]]
<1>1. /\ hpc = "commit" /\ hpc' = "forward" /\ step' = step /\ metas' = metas \o new
      /\ UNCHANGED <<hooks, stream, queue>>
  BY Zenon DEF PushMetas
<1>2. UNCHANGED <<local, cursor, flushCount, submitted, gpuTaskHead, cpuTaskTail>>
  BY Zenon DEF PushMetas, workers, gpuVars, p2pVars, drainVars, tails, batchVars
<1>3. InFlight' = InFlight
  BY <1>1, <1>2, Zenon DEF InFlight, OnTheWay, InP2P
<1>4. n \in Nat /\ step.hook = 1
  BY <1>1, PlanFacts, Zenon DEF RingInv, StepInv, Heading
<1>5. InFlight \in Int /\ Len(metas) \in Nat /\ hooks \in Nat /\ metas \in Seq(Kernel)
  BY FlowCounts, Zenon DEF RingInv, TypeOK, P2PType
<1>6. Unfired = 0 /\ ~Stopping /\ Unfired' = n
  BY <1>1, <1>4 DEF Unfired, Pushed, Heading, Stopping
<1>7. Len(metas) = InFlight
  BY <1>5, <1>6 DEF InOrder
<1>8. new \in Seq(Kernel) /\ Len(new) = n /\ \A i \in 1 .. n : new[i].id = hooks + i
  <2>1. \A i \in 1 .. n : Size(step.plan, i) \in Nat
    BY <1>1, PlanFacts, Zenon DEF RingInv, StepInv
  <2> QED
    BY <1>4, <1>5, <2>1 DEF Kernel
<1> HIDE DEF n, new
<1>9. Len(metas') = InFlight + n
  <2>1. Len(metas \o new) = Len(metas) + Len(new)
    BY <1>5, <1>8
  <2> QED
    BY <1>1, <1>7, <1>8, <2>1, Zenon
<1>10. \A i \in 1 .. Len(metas') : metas'[i].id = hooks - InFlight + i
  <2> SUFFICES ASSUME NEW i \in 1 .. Len(metas') PROVE metas'[i].id = hooks - InFlight + i
    OBVIOUS
  <2>1. CASE i <= Len(metas)
    <3>1. metas'[i] = metas[i] /\ i \in 1 .. Len(metas)
      BY <1>1, <1>5, <1>8, <2>1
    <3> QED
      BY <3>1, Zenon DEF InOrder
  <2>2. CASE i > Len(metas)
    <3>1. metas'[i] = new[i - Len(metas)] /\ i - Len(metas) \in 1 .. n
      BY <1>1, <1>4, <1>5, <1>7, <1>8, <1>9, <2>2
    <3>2. metas'[i].id = hooks + (i - Len(metas))
      BY <1>8, <3>1, Zenon
    <3> QED
      BY <1>5, <1>7, <3>2
  <2> QED
    BY <1>5, <2>1, <2>2
<1>11. \A j \in 1 .. Len(stream) : stream[j].id = hooks - Len(stream) + j
  BY Zenon DEF InOrder
<1>12. Len(metas') >= InFlight + n
  BY <1>4, <1>5, <1>9
<1> QED
  BY <1>1, <1>3, <1>6, <1>9, <1>10, <1>11, <1>12, Zenon DEF InOrder

\* A hook that fired leaves one hook less to fire.
LEMMA HookDoneUnfired ==
    ASSUME TypeOK, StepInv, Pushed, HookDone
    PROVE  /\ Unfired' = Unfired - 1 /\ Unfired \in Nat /\ hooks' = hooks + 1
           /\ ~Stopping'
<1>1. step.plan \in Plans /\ step \in StepRecord
  BY Zenon DEF Pushed, StepInv, Heading, TypeOK, HostType
<1>2. Len(step.plan) \in Nat \ {0} /\ step.hook \in 1 .. Len(step.plan)
  BY <1>1, PlanFacts, Zenon DEF StepInv
<1>3. Unfired = Len(step.plan) - step.hook + 1 /\ hooks' = hooks + 1
  BY Zenon DEF Unfired, HookDone
<1>4. CASE step.hook = Len(step.plan)
  <2>1. hpc' = "idle"
    BY <1>4, Zenon DEF HookDone
  <2> QED
    BY <1>2, <1>3, <1>4, <2>1 DEF Unfired, Pushed, Heading, Stopping
<1>5. CASE step.hook # Len(step.plan)
  <2>1. hpc' = "forward" /\ step'.plan = step.plan /\ step'.hook = step.hook + 1
    BY <1>1, <1>5, Zenon DEF HookDone, StepRecord
  <2>2. Unfired' = Len(step.plan) - (step.hook + 1) + 1 /\ ~Stopping'
    BY <2>1 DEF Unfired, Pushed, Heading, Stopping
  <2>3. \A n \in Nat : \A h \in 1 .. n : n - (h + 1) + 1 = (n - h + 1) - 1 /\ n - h + 1 \in Nat
    OBVIOUS
  <2>4. Unfired' = Unfired - 1 /\ Unfired \in Nat
    BY <1>2, <1>3, <2>2, <2>3, Zenon
  <2> QED
    BY <1>3, <2>2, <2>4, Zenon
<1> QED
  BY <1>4, <1>5, Zenon

\* A launched tensor is the last on the stream.
LEMMA FlowLaunch ==
    ASSUME RingInv, CountInv, InOrder, hpc \in {"forward", "hook"}, HookDone,
           Launch(hooks + 1, HookSize), UNCHANGED <<metas, queue, workers>>
    PROVE  InOrder'
<1>1. UNCHANGED <<local, cursor, flushCount, submitted, gpuTaskHead, cpuTaskTail>>
  BY Zenon DEF workers, gpuVars, p2pVars, drainVars, tails, batchVars
<1>2. /\ InFlight \in Int /\ OnTheWay \in Int /\ hooks \in Nat /\ Len(metas) \in Nat
      /\ stream \in Seq(Kernel) /\ Len(stream) \in Nat
  BY FlowCounts, Zenon DEF RingInv, TypeOK, GpuType
<1>3. OnTheWay' = OnTheWay
  BY <1>1, Zenon DEF OnTheWay, InP2P
<1>4. stream' = Append(stream, [id |-> hooks + 1, size |-> HookSize])
  BY Zenon DEF Launch
<1>5. /\ Len(stream') = Len(stream) + 1 /\ stream'[Len(stream) + 1].id = hooks + 1
      /\ \A j \in 1 .. Len(stream) : stream'[j] = stream[j]
  BY <1>2, <1>4
<1>6. InFlight' = InFlight + 1
  BY <1>2, <1>3, <1>5 DEF InFlight
<1>7. /\ Unfired' = Unfired - 1 /\ Unfired \in Nat /\ hooks' = hooks + 1 /\ ~Stopping'
  BY HookDoneUnfired, Zenon DEF RingInv, Pushed
<1>8. ~Stopping
  BY DEF Stopping, Heading
<1>9. Len(metas) = InFlight + Unfired
  BY <1>8, Zenon DEF InOrder
<1>10. \A j \in 1 .. Len(stream') : stream'[j].id = hooks' - Len(stream') + j
  BY <1>2, <1>5, <1>7, SMTT(30) DEF InOrder
<1>11. \A i \in 1 .. Len(metas) : metas[i].id = (hooks + 1) - (InFlight + 1) + i
  BY <1>2 DEF InOrder
<1>12. Len(metas) = (InFlight + 1) + (Unfired - 1)
  BY <1>2, <1>7, <1>9
<1> QED
  BY <1>2, <1>6, <1>7, <1>10, <1>11, <1>12 DEF InOrder

\* A CPU-direct tensor joins the P2P queue when nothing is on the stream.
LEMMA FlowDirect ==
    ASSUME RingInv, CountInv, EndInv, InOrder, SubmitCpuDirect
    PROVE  InOrder'
<1>1. UNCHANGED <<local, cursor, flushCount, submitted, gpuTaskHead, cpuTaskTail>>
  BY Zenon DEF SubmitCpuDirect, workers, gpuVars, p2pVars, drainVars, tails, batchVars
<1>2. InFlight \in Int /\ hooks \in Nat /\ Len(metas) \in Nat
  BY FlowCounts, Zenon
<1>3. hpc = "direct" /\ stream = <<>> /\ stream' = stream /\ metas' = metas /\ HookDone
  BY Zenon DEF SubmitCpuDirect, EndInv
<1>4. Len(queue') = Len(queue) + 1 /\ Len(queue) \in Nat
  BY DEF SubmitCpuDirect, RingInv, TypeOK, P2PType
<1>5. InFlight' = InFlight + 1
  <2>1. P2PType /\ GpuType /\ DrainType
    BY Zenon DEF RingInv, TypeOK
  <2>2. Len(local) \in Nat /\ Len(stream) \in Nat
    BY <2>1 DEF P2PType, GpuType
  <2> QED
    BY <1>1, <1>3, <1>4, <2>1, <2>2 DEF InFlight, OnTheWay, InP2P, P2PType, GpuType, DrainType
<1>6. /\ Unfired' = Unfired - 1 /\ Unfired \in Nat /\ hooks' = hooks + 1 /\ ~Stopping'
  BY <1>3, HookDoneUnfired, Zenon DEF RingInv, Pushed
<1>7. Len(metas) = InFlight + Unfired
  BY <1>3 DEF InOrder, Stopping, Heading
<1>8. \A i \in 1 .. Len(metas) : metas[i].id = (hooks + 1) - (InFlight + 1) + i
  BY <1>2 DEF InOrder
<1>9. Len(metas) = (InFlight + 1) + (Unfired - 1)
  BY <1>2, <1>6, <1>7
<1> QED
  BY <1>2, <1>3, <1>5, <1>6, <1>8, <1>9 DEF InOrder

\* A warmup run starts with nothing in flight, so no meta is waiting.
LEMMA FlowWarmup ==
    ASSUME RingInv, CountInv, ~failed, InOrder \/ OfWarmup, NEW p \in Plans, Warmup(p)
    PROVE  OfWarmup'
<1>1. /\ hpc = "idle" /\ hpc' = hpc /\ warm' = TRUE /\ metas' = metas
      /\ stream' = [i \in 1 .. Len(p) |-> [id |-> 0, size |-> Size(p, i)]]
  BY Zenon DEF Warmup
<1>2. metas = <<>>
  <2>1. CASE InOrder
    <3>1. stream = <<>> /\ dpc = "top" /\ cpuTaskTail = gpuTaskHead /\ processed = enqueued
      BY Zenon DEF Warmup
    <3>2. InFlight = 0
      BY <3>1, NothingInFlight, Zenon
    <3>3. Len(metas) = 0
      BY <1>1, <2>1, <3>2 DEF InOrder, Unfired, Pushed, Heading, Stopping
    <3> QED
      BY <3>3 DEF RingInv, TypeOK, P2PType
  <2>2. CASE OfWarmup
    BY <2>2, Zenon DEF OfWarmup
  <2> QED
    BY <2>1, <2>2, Zenon
<1>3. Len(p) \in Nat
  BY PlanFacts, Zenon
<1>4. \A j \in 1 .. Len(stream') : stream'[j].id = 0
  BY <1>1, <1>3
<1> QED
  BY <1>1, <1>2, <1>4 DEF OfWarmup, InStep

\* A published tensor passes from the head of the stream into the ring.
LEMMA FlowGpu ==
    ASSUME RingInv, CountInv, InOrder \/ OfWarmup, GpuNext
    PROVE  InOrder' \/ OfWarmup'
<1>1. UNCHANGED <<hpc, step, warm, hooks, metas, queue, local, cursor, flushCount, submitted, cpuTaskTail>>
  BY Zenon DEF GpuNext, KernelCopy, KernelPublish, hostVars, acct, drainVars, tails, batchVars,
     p2pVars
<1>2. Unfired' = Unfired /\ (Stopping' <=> Stopping) /\ (InStep' <=> InStep)
  BY <1>1, Zenon DEF Unfired, Pushed, Stopping, Heading, InStep
<1>3. CASE KernelCopy
  <2>1. UNCHANGED <<stream, gpuTaskHead>>
    BY <1>3, Zenon DEF KernelCopy, hostVars
  <2>2. InFlight' = InFlight
    BY <1>1, <2>1, Zenon DEF InFlight, OnTheWay, InP2P
  <2> QED
    BY <1>1, <1>2, <2>1, <2>2, Zenon DEF InOrder, OfWarmup
<1>4. CASE KernelPublish
  <2>1. stream # <<>> /\ stream' = Tail(stream) /\ gpuTaskHead' = gpuTaskHead + 1
    BY <1>4, Zenon DEF KernelPublish, RingInv, DrainInv
  <2>2. stream \in Seq(Kernel)
    BY Zenon DEF RingInv, TypeOK, GpuType
  <2>3. /\ Len(stream') = Len(stream) - 1
        /\ \A j \in 1 .. Len(stream') : stream'[j] = stream[j + 1] /\ j + 1 \in 1 .. Len(stream)
    BY <2>1, <2>2
  <2>4. InFlight' = InFlight
    <3>1. HostType /\ P2PType /\ GpuType /\ DrainType
      BY Zenon DEF RingInv, TypeOK
    <3>2. Len(queue) \in Nat /\ Len(local) \in Nat /\ Len(stream) \in Nat
      BY <3>1 DEF P2PType, GpuType
    <3> QED
      BY <1>1, <2>1, <2>3, <3>1, <3>2 DEF InFlight, OnTheWay, InP2P, P2PType, GpuType, DrainType
  <2>5. OfWarmup => OfWarmup'
    BY <1>1, <1>2, <2>3, Zenon DEF OfWarmup
  <2>6. InOrder => \A j \in 1 .. Len(stream') : stream'[j].id = hooks' - Len(stream') + j
    <3>1. Len(stream) \in Nat /\ hooks \in Nat
      BY FlowCounts, Zenon
    <3>2. ASSUME InOrder, NEW j \in 1 .. Len(stream')
          PROVE  stream'[j].id = hooks - Len(stream') + j
      <4>1. stream'[j].id = hooks - Len(stream) + (j + 1)
        BY <2>3, <3>2, Zenon DEF InOrder
      <4> QED
        BY <2>3, <3>1, <4>1
    <3> QED
      BY <1>1, <3>2, Zenon
  <2>7. InOrder => InOrder'
    BY <1>1, <1>2, <2>4, <2>6, Zenon DEF InOrder
  <2> QED
    BY <2>5, <2>7, Zenon
<1> QED
  BY <1>3, <1>4, Zenon DEF GpuNext

\* The drain thread takes tensors from the ring and hands them over: the way
\* of the tensors in flight is the same, and none is lost.
LEMMA DrainCounts ==
    ASSUME RingInv, CountInv, DrainNext
    PROVE  /\ ~failed' => OnTheWay' = OnTheWay
           /\ InP2P' \in {InP2P, InP2P + 1}
           /\ UNCHANGED <<hpc, step, warm, hooks, stream, metas>>
           /\ enqueued' - InP2P' = enqueued - InP2P
<1>1. UNCHANGED <<hpc, step, warm, hooks, stream, metas, local, cursor, gpuTaskHead>>
  BY Zenon DEF DrainNext, DrainTop, ScanReady, FlushStateUpdate, DrainIdle, FlushDone,
     StagingSpace, CopyD2H, CopyFails, CommitTail, SubmitOne, SubmitEnd, othersOfDrain, hostVars,
     acct, gpuVars, p2pVars
<1>2. /\ Len(queue) \in Nat /\ Len(local) \in Nat /\ cursor \in Nat /\ flushCount \in Nat
      /\ submitted \in Nat /\ gpuTaskHead \in Nat /\ cpuTaskTail \in Nat /\ enqueued \in Nat
      /\ Len(scanned) \in Nat
  BY DEF RingInv, TypeOK, GpuType, DrainType, P2PType
<1>3. CASE SubmitOne
  <2>1. /\ Len(queue') = Len(queue) + 1 /\ enqueued' = enqueued + 1 /\ submitted' = submitted + 1
    BY <1>3 DEF SubmitOne, RingInv, TypeOK, P2PType
  <2>2. UNCHANGED <<flushCount, cpuTaskTail>>
    BY <1>3, Zenon DEF SubmitOne, tails
  <2>3. InP2P' = InP2P + 1 /\ InP2P \in Int
    BY <1>1, <1>2, <2>1 DEF InP2P
  <2>4. OnTheWay' = OnTheWay
    BY <1>1, <1>2, <2>1, <2>2, <2>3 DEF OnTheWay
  <2> QED
    BY <1>1, <1>2, <2>1, <2>3, <2>4
<1>4. CASE ~SubmitOne
  <2>1. UNCHANGED <<queue, enqueued>>
    BY <1>4, Zenon DEF DrainNext, DrainTop, ScanReady, FlushStateUpdate, DrainIdle, FlushDone,
       StagingSpace, CopyD2H, CopyFails, CommitTail, SubmitEnd, handoff
  <2>2. InP2P' = InP2P
    BY <1>1, <2>1, Zenon DEF InP2P
  <2>3. ~failed' => OnTheWay' = OnTheWay
    <3> SUFFICES ASSUME ~failed' PROVE OnTheWay' = OnTheWay
      BY Zenon
    <3>1. CASE FlushStateUpdate
      <4>1. PICK n \in 1 .. Len(scanned) : cpuTaskTail' = cpuTaskTail + n /\ flushCount' = n
        BY <3>1, Zenon DEF FlushStateUpdate
      <4>2. flushCount = 0 /\ submitted = 0 /\ submitted' = submitted
        BY <3>1 DEF FlushStateUpdate, RingInv, DrainInv, Batching, outcome
      <4>3. InP2P \in Int
        BY <1>2 DEF InP2P
      <4> QED
        BY <1>1, <1>2, <2>2, <4>1, <4>2, <4>3 DEF OnTheWay
    <3>2. CASE CommitTail
      <4>1. submitted = 0 /\ submitted' = 0 /\ UNCHANGED <<flushCount, cpuTaskTail>>
        BY <3>2, Zenon DEF CommitTail, CountInv, outcome
      <4> QED
        BY <1>1, <2>2, <4>1, Zenon DEF OnTheWay
    <3>3. CASE SubmitEnd
      <4>1. submitted = flushCount /\ submitted' = 0 /\ flushCount' = 0 /\ cpuTaskTail' = cpuTaskTail
        BY <3>3, Zenon DEF SubmitEnd, tails
      <4> QED
        BY <1>1, <1>2, <2>2, <4>1 DEF OnTheWay, InP2P
    <3>4. CASE ~FlushStateUpdate /\ ~CommitTail /\ ~SubmitEnd
      <4>1. UNCHANGED <<submitted, flushCount, cpuTaskTail>>
        BY <1>4, <3>4, Zenon DEF DrainNext, DrainTop, ScanReady, DrainIdle, FlushDone,
           StagingSpace, CopyD2H, CopyFails, tails, batchVars
      <4> QED
        BY <1>1, <2>2, <4>1, Zenon DEF OnTheWay
    <3> QED
      BY <3>1, <3>2, <3>3, <3>4, Zenon
  <2> QED
    BY <1>1, <2>1, <2>2, <2>3, Zenon
<1> QED
  BY <1>3, <1>4, Zenon

\* So the metas stay with their tensors.
LEMMA FlowDrain ==
    ASSUME RingInv, CountInv, InOrder \/ OfWarmup, ~failed', DrainNext
    PROVE  InOrder' \/ OfWarmup'
<1>1. OnTheWay' = OnTheWay /\ UNCHANGED <<hpc, step, warm, hooks, stream, metas>>
  BY DrainCounts, Zenon
<1>2. InFlight' = InFlight /\ Unfired' = Unfired /\ (Stopping' <=> Stopping) /\ (InStep' <=> InStep)
  BY <1>1, Zenon DEF InFlight, Unfired, Pushed, Stopping, Heading, InStep
<1> QED
  BY <1>1, <1>2, Zenon DEF InOrder, OfWarmup

\* What the P2P thread does to the counts: a delivery takes the first task and
\* the first meta.
LEMMA P2PCounts ==
    ASSUME RingInv, CountInv, P2PNext
    PROVE  /\ UNCHANGED <<hpc, step, warm, hooks, stream, enqueued, failed, completed>>
           /\ OnTheWay' = OnTheWay - InP2P + InP2P' /\ InP2P' \in Int
           /\ \/ InP2P' = InP2P /\ metas' = metas
              \/ /\ InP2P' = InP2P - 1 /\ InP2P >= 1
                 /\ IF metas = <<>> THEN metas' = metas ELSE metas' = Tail(metas)
<1>1. /\ UNCHANGED <<hpc, step, warm, hooks, stream, enqueued, failed, completed>>
      /\ UNCHANGED <<flushCount, submitted, gpuTaskHead, cpuTaskTail>>
  BY Zenon DEF P2PNext, P2PTake, P2PCopy, P2PDeliver, P2PExit, othersOfP2P, hostVars, acct,
     gpuVars, drainVars, tails, batchVars, outcome, handoff
<1>2. /\ Len(queue) \in Nat /\ Len(local) \in Nat /\ cursor \in Nat /\ flushCount \in Nat
      /\ submitted \in Nat /\ gpuTaskHead \in Nat /\ cpuTaskTail \in Nat /\ InP2P \in Nat
  BY FlowCounts, SMTT(30) DEF RingInv, TypeOK, GpuType, DrainType, P2PType
<1>3. InP2P' \in Int => OnTheWay' = OnTheWay - InP2P + InP2P'
  BY <1>1, <1>2 DEF OnTheWay
<1>4. CASE P2PTake
  <2>1. /\ local' = queue /\ Len(queue') = 0 /\ cursor' = 1 /\ Len(local) = 0 /\ cursor = 1
        /\ metas' = metas
    BY <1>4 DEF P2PTake, CountInv, othersOfP2P, hostVars
  <2>2. InP2P' = InP2P
    BY <1>2, <2>1 DEF InP2P
  <2> QED
    BY <1>1, <1>2, <1>3, <2>1, <2>2
<1>5. CASE P2PCopy \/ P2PExit
  <2>1. UNCHANGED <<queue, local, cursor, metas>>
    BY <1>5, Zenon DEF P2PCopy, P2PExit, othersOfP2P, hostVars
  <2>2. InP2P' = InP2P
    BY <2>1, Zenon DEF InP2P
  <2> QED
    BY <1>1, <1>2, <1>3, <2>1, <2>2
<1>6. CASE P2PDeliver
  <2>1. /\ queue' = queue /\ cursor \in 1 .. Len(local)
        /\ IF metas = <<>> THEN metas' = metas ELSE metas' = Tail(metas)
    BY <1>6, Zenon DEF P2PDeliver, RingInv, P2PInv, handoff
  <2>2. Len(local') - cursor' + 1 = Len(local) - cursor
    <3>1. CASE cursor = Len(local)
      BY <1>2, <1>6, <3>1 DEF P2PDeliver
    <3>2. CASE cursor # Len(local)
      BY <1>2, <1>6, <3>2 DEF P2PDeliver
    <3> QED
      BY <3>1, <3>2, Zenon
  <2>3. Len(local') \in Int /\ cursor' \in Int
    BY <1>2, <1>6, <2>1 DEF P2PDeliver
  <2>4. InP2P' = InP2P - 1 /\ InP2P >= 1
    BY <1>2, <2>1, <2>2, <2>3, SMTT(30) DEF InP2P
  <2> QED
    BY <1>1, <1>2, <1>3, <2>1, <2>4
<1> QED
  BY <1>4, <1>5, <1>6, Zenon DEF P2PNext

\* A delivery takes the first tensor in flight together with its meta.
LEMMA FlowP2P ==
    ASSUME RingInv, CountInv, InOrder \/ OfWarmup, ~failed, P2PNext
    PROVE  InOrder' \/ OfWarmup'
<1>1. /\ UNCHANGED <<hpc, step, warm, hooks, stream>>
      /\ OnTheWay' = OnTheWay - InP2P + InP2P' /\ InP2P' \in Int
      /\ \/ InP2P' = InP2P /\ metas' = metas
         \/ /\ InP2P' = InP2P - 1 /\ InP2P >= 1
            /\ IF metas = <<>> THEN metas' = metas ELSE metas' = Tail(metas)
  BY P2PCounts, Zenon
<1>2. Unfired' = Unfired /\ (Stopping' <=> Stopping) /\ (InStep' <=> InStep)
  BY <1>1, Zenon DEF Unfired, Pushed, Stopping, Heading, InStep
<1>3. /\ InP2P \in Nat /\ OnTheWay \in Int /\ InFlight \in Int /\ hooks \in Nat
      /\ Len(stream) \in Nat /\ Len(metas) \in Nat /\ InP2P <= OnTheWay /\ OnTheWay <= InFlight
  BY FlowCounts, Zenon
<1>4. CASE OfWarmup
  BY <1>1, <1>2, <1>4, Zenon DEF OfWarmup
<1>5. InFlight' = InFlight - InP2P + InP2P'
  BY <1>1, <1>3 DEF InFlight
<1>6. CASE InOrder /\ metas' = metas /\ InP2P' = InP2P
  <2>1. InFlight' = InFlight
    BY <1>3, <1>5, <1>6
  <2> QED
    BY <1>1, <1>2, <1>6, <2>1, Zenon DEF InOrder
<1>7. CASE InOrder /\ InP2P' = InP2P - 1 /\ InP2P >= 1
  <2>1. Unfired \in Nat
    BY UnfiredNat, Zenon DEF RingInv
  <2>2. metas # <<>>
    BY <1>3, <1>7, <2>1 DEF InOrder
  <2>3. metas' = Tail(metas) /\ metas \in Seq(Kernel)
    BY <1>1, <1>3, <1>7, <2>2 DEF RingInv, TypeOK, P2PType
  <2>4. /\ Len(metas') = Len(metas) - 1
        /\ \A i \in 1 .. Len(metas') : metas'[i] = metas[i + 1] /\ i + 1 \in 1 .. Len(metas)
    BY <2>2, <2>3
  <2>5. InFlight' = InFlight - 1
    BY <1>3, <1>5, <1>7
  <2>6. ASSUME NEW i \in 1 .. Len(metas') PROVE metas'[i].id = hooks - (InFlight - 1) + i
    <3>1. metas'[i].id = hooks - InFlight + (i + 1)
      BY <1>7, <2>4, Zenon DEF InOrder
    <3> QED
      BY <1>3, <2>4, <3>1
  <2>7. /\ Len(metas') >= (InFlight - 1) + Unfired
        /\ ~Stopping => Len(metas') = (InFlight - 1) + Unfired
    <3>1. Len(metas) >= InFlight + Unfired /\ (~Stopping => Len(metas) = InFlight + Unfired)
      BY <1>7, Zenon DEF InOrder
    <3> QED
      BY <1>3, <2>1, <2>4, <3>1
  <2> QED
    BY <1>1, <1>2, <1>7, <2>5, <2>6, <2>7, Zenon DEF InOrder
<1>8. (InP2P' = InP2P /\ metas' = metas) \/ (InP2P' = InP2P - 1 /\ InP2P >= 1)
  BY <1>1, Zenon
<1> QED
  BY <1>4, <1>6, <1>7, <1>8, Zenon

\* Every tensor in flight has its meta, in order, until a drain fails.
LEMMA FlowStep ==
    ASSUME RingInv, RingInv', FlowInv, [Next]_vars
    PROVE  FlowInv'
<1>1. CountInv' /\ EndInv'
  BY CountStep, EndStep, Zenon DEF FlowInv
<1>2. CountInv /\ EndInv /\ (~failed => InOrder \/ OfWarmup)
  BY Zenon DEF FlowInv
<1> SUFFICES ASSUME ~failed' PROVE InOrder' \/ OfWarmup'
  BY <1>1, Zenon DEF FlowInv
<1>3. failed' = failed \/ CopyFails
  BY HostKeepsWorkers, ZenonT(40) DEF Next, Done, GpuNext, DrainNext, P2PNext, BarrierNext,
     KernelCopy, KernelPublish, DrainTop, ScanReady, FlushStateUpdate, DrainIdle, FlushDone,
     StagingSpace, CopyD2H, CommitTail, SubmitOne, SubmitEnd, P2PTake, P2PCopy, P2PDeliver,
     P2PExit, othersOfP2P, BarrierStart, BarrierFlush, BarrierFlushed, BarrierReturn,
     BarrierTimeout, othersOfBarrier, vars, workers, outcome
<1>4. ~failed
  BY <1>3, Zenon DEF CopyFails
<1>5. InOrder \/ OfWarmup
  BY <1>2, <1>4, Zenon
<1>6. CASE HostNext
  <2>1. OfWarmup => ~InStep
    BY Zenon DEF OfWarmup
  <2>2. CASE PushMetas
    <3>1. InOrder
      BY <1>5, <2>1, <2>2, Zenon DEF PushMetas, InStep
    <3> QED
      BY <1>2, <2>2, <3>1, FlowPush, Zenon
  <2>3. CASE LaunchHook \/ EagerLaunch \/ EagerFlushedLaunch
    <3>1. /\ hpc \in {"forward", "hook"} /\ HookDone /\ Launch(hooks + 1, HookSize)
          /\ UNCHANGED <<metas, queue, workers>>
      BY <2>3, Zenon DEF LaunchHook, EagerLaunch, EagerFlushedLaunch
    <3>2. InOrder
      BY <1>5, <2>1, <3>1, Zenon DEF InStep
    <3> QED
      BY <1>2, <3>1, <3>2, FlowLaunch, Zenon
  <2>4. CASE SubmitCpuDirect
    <3>1. InOrder
      BY <1>5, <2>1, <2>4, Zenon DEF SubmitCpuDirect, InStep
    <3> QED
      BY <1>2, <2>4, <3>1, FlowDirect, Zenon
  <2>5. ASSUME NEW p \in Plans, Warmup(p) PROVE OfWarmup'
    BY <1>2, <1>4, <1>5, <2>5, FlowWarmup, Zenon
  <2> QED
    BY <1>2, <1>4, <1>5, <1>6, <2>2, <2>3, <2>4, <2>5, FlowHostMoves, Zenon DEF HostNext
<1>7. CASE BarrierNext \/ UNCHANGED vars
  <2>1. UNCHANGED flowVars /\ UNCHANGED <<hpc, step, warm>>
    BY <1>7, Zenon DEF flowVars, BarrierNext, BarrierStart, BarrierFlush, BarrierFlushed,
       BarrierReturn, BarrierTimeout, othersOfBarrier, vars, hostVars, acct, workers, gpuVars,
       drainVars, tails, batchVars, p2pVars, handoff
  <2>2. Unfired' = Unfired /\ (Stopping' <=> Stopping) /\ (InStep' <=> InStep)
    BY <2>1, Zenon DEF Unfired, Pushed, Stopping, Heading, InStep
  <2> QED
    BY <1>5, <2>1, <2>2, SameCounts, Zenon DEF InOrder, OfWarmup
<1> QED
  BY <1>2, <1>4, <1>5, <1>6, <1>7, FlowGpu, FlowDrain, FlowP2P, Zenon DEF Next, Done

-----------------------------------------------------------------------------
(* The delivery barrier.                                                    *)

\* A wider front covers what a narrower one covers, whatever the barrier.
LEMMA CoverMore ==
    ASSUME NEW m \in Int, NEW n \in Int, m <= n, Covered(m), Len(metas) \in Nat,
           UNCHANGED <<metas, bcover>>
    PROVE  Covered(n)'
BY DEF Covered

\* A delivery moves every covered meta one place to the front.
LEMMA CoverTail ==
    ASSUME NEW n \in Int, Covered(n), metas \in Seq(Kernel), bcover' = bcover,
           IF metas = <<>> THEN metas' = metas ELSE metas' = Tail(metas)
    PROVE  Covered(n - 1)'
<1>1. CASE metas = <<>>
  BY <1>1 DEF Covered
<1>2. CASE metas # <<>>
  <2>1. /\ Len(metas') = Len(metas) - 1 /\ Len(metas) \in Nat
        /\ \A i \in 1 .. Len(metas') : metas'[i] = metas[i + 1] /\ i + 1 \in 1 .. Len(metas)
    BY <1>2
  <2> SUFFICES ASSUME NEW i \in 1 .. Len(metas'), metas'[i].id <= bcover PROVE i <= n - 1
    BY Zenon DEF Covered
  <2>2. i + 1 <= n
    BY <2>1, Zenon DEF Covered
  <2> QED
    BY <2>1, <2>2
<1> QED
  BY <1>1, <1>2, Zenon

\* The metas of a later step are not covered.
LEMMA CoverPush ==
    ASSUME RingInv, NEW n \in Int, Covered(n), bcover <= hooks, bcover' = bcover, PushMetas
    PROVE  Covered(n)'
<1> DEFINE m == Len(step.plan)
<1> DEFINE new == [i \in 1 .. m |-> [id |-> hooks + i, size |-> Size(step.plan, i)]]
<1>1. hpc = "commit" /\ metas' = metas \o new
  BY Zenon DEF PushMetas
<1>2. hooks \in Nat /\ metas \in Seq(Kernel) /\ Len(metas) \in Nat /\ bcover \in Nat
  BY DEF RingInv, TypeOK, HostType, P2PType, SyncType
<1>3. step.plan \in Plans
  BY <1>1, Zenon DEF RingInv, StepInv
<1>4. m \in Nat /\ \A i \in 1 .. m : Size(step.plan, i) \in Nat
  BY <1>3, PlanFacts, Zenon
<1>5. new \in Seq(Kernel) /\ Len(new) = m /\ \A i \in 1 .. m : new[i].id = hooks + i
  BY <1>2, <1>4 DEF Kernel
<1> HIDE DEF m, new
<1> SUFFICES ASSUME NEW i \in 1 .. Len(metas'), metas'[i].id <= bcover PROVE i <= n
  BY Zenon DEF Covered
<1>6. CASE i <= Len(metas)
  <2>1. metas'[i] = metas[i] /\ i \in 1 .. Len(metas)
    BY <1>1, <1>2, <1>5, <1>6
  <2> QED
    BY <2>1, Zenon DEF Covered
<1>7. CASE i > Len(metas)
  <2>1. metas'[i] = new[i - Len(metas)] /\ i - Len(metas) \in 1 .. m
    BY <1>1, <1>2, <1>4, <1>5, <1>7
  <2>2. metas'[i].id = hooks + (i - Len(metas))
    BY <1>5, <2>1, Zenon
  <2> QED
    BY <1>2, <1>7, <2>1, <2>2
<1> QED
  BY <1>2, <1>6, <1>7

\* The covered hooks are no longer on the stream: their metas come before those
\* of the stream's tensors.
LEMMA CoverSynced ==
    ASSUME RingInv, CountInv, InOrder \/ OfWarmup, ~failed, bcover <= hooks,
           \A j \in 1 .. Len(stream) : stream[j].id > bcover
    PROVE  Covered(OnTheWay)
<1>1. CASE OfWarmup
  BY <1>1 DEF OfWarmup, Covered
<1>2. CASE InOrder
  <2>1. /\ OnTheWay \in Int /\ InFlight \in Int /\ hooks \in Nat /\ Len(stream) \in Nat
        /\ Len(metas) \in Nat /\ InFlight = OnTheWay + Len(stream) /\ bcover \in Nat
    BY FlowCounts, Zenon DEF InFlight, RingInv, TypeOK, SyncType
  <2> SUFFICES ASSUME NEW i \in 1 .. Len(metas), metas[i].id <= bcover, i > OnTheWay
               PROVE  FALSE
    BY <2>1 DEF Covered
  <2>2. metas[i].id = hooks - InFlight + i
    BY <1>2, Zenon DEF InOrder
  <2>3. i - OnTheWay \in 1 .. Len(stream)
    BY <2>1, <2>2
  <2>4. stream[i - OnTheWay].id = hooks - Len(stream) + (i - OnTheWay)
    BY <1>2, <2>3, Zenon DEF InOrder
  <2>5. stream[i - OnTheWay].id > bcover
    BY <2>3, Zenon
  <2> QED
    BY <2>1, <2>2, <2>3, <2>4, <2>5
<1> QED
  BY <1>1, <1>2, Zenon

\* A step that delivers nothing and pushes nothing: what a barrier covers stays
\* where it is, or moves towards the P2P thread.
LEMMA BarrierKeep ==
    ASSUME RingInv, CountInv, BarrierInv, UNCHANGED <<metas, barrierVars>>,
           hooks' \in {hooks, hooks + 1}, InP2P' \in {InP2P, InP2P + 1},
           enqueued' - InP2P' = enqueued - InP2P,
           ~failed' => /\ ~failed /\ OnTheWay' \in {OnTheWay, OnTheWay + 1}
                       /\ completed' = completed \/ OnTheWay = InP2P
    PROVE  BarrierInv'
<1>1. UNCHANGED <<metas, bpc, bgen, btarget, bcover>>
  BY Zenon DEF barrierVars
<1>2. /\ InP2P \in Nat /\ OnTheWay \in Int /\ hooks \in Nat /\ Len(metas) \in Nat
      /\ bcover \in Nat /\ bgen \in Nat /\ btarget \in Nat
  BY FlowCounts, Zenon DEF RingInv, TypeOK, SyncType
<1>3. bcover' <= hooks'
  BY <1>1, <1>2 DEF BarrierInv
<1>4. ASSUME bpc = "wait", ~failed'
      PROVE  Covered(OnTheWay)' /\ (completed' >= bgen' => Covered(InP2P)')
  <2>1. Covered(OnTheWay) /\ (completed >= bgen => Covered(InP2P))
    BY <1>4, Zenon DEF BarrierInv
  <2>2. PICK k \in Int : k = OnTheWay
    BY <1>2, Zenon
  <2>3. PICK l \in Int : l = OnTheWay' /\ k <= l
    BY <1>2, <1>4, <2>2
  <2>4. Covered(l)'
    BY <1>1, <1>2, <2>1, <2>2, <2>3, CoverMore, Zenon
  <2>5. Covered(OnTheWay)'
    BY <2>3, <2>4, Zenon DEF Covered
  <2>6. ASSUME completed' >= bgen' PROVE Covered(InP2P)'
    <3>1. Covered(InP2P)
      BY <1>1, <1>4, <2>1, <2>6, Zenon
    <3>2. PICK m \in Int : m = InP2P
      BY <1>2
    <3>3. PICK n \in Int : n = InP2P' /\ m <= n
      BY <1>2, <3>2
    <3>4. Covered(n)'
      BY <1>1, <1>2, <3>1, <3>2, <3>3, CoverMore, Zenon
    <3> QED
      BY <3>3, <3>4, Zenon DEF Covered
  <2> QED
    BY <2>5, <2>6, Zenon
<1>5. ASSUME bpc = "deliver" PROVE Covered(btarget - (enqueued - InP2P))'
  <2>1. Covered(btarget - (enqueued - InP2P))
    BY <1>5, Zenon DEF BarrierInv
  <2> QED
    BY <1>1, <2>1, Zenon DEF Covered
<1>6. ASSUME bpc = "done" PROVE Covered(0)'
  <2>1. Covered(0)
    BY <1>6, Zenon DEF BarrierInv
  <2> QED
    BY <1>1, <2>1, Zenon DEF Covered
<1> QED
  BY <1>1, <1>3, <1>4, <1>5, <1>6, Zenon DEF BarrierInv

\* A delivery takes from the front what a barrier may wait for.
LEMMA BarrierDelivery ==
    ASSUME RingInv, CountInv, BarrierInv, P2PNext
    PROVE  BarrierInv'
<1>1. /\ UNCHANGED <<hooks, enqueued, failed, completed>>
      /\ OnTheWay' = OnTheWay - InP2P + InP2P' /\ InP2P' \in Int
      /\ \/ InP2P' = InP2P /\ metas' = metas
         \/ /\ InP2P' = InP2P - 1 /\ InP2P >= 1
            /\ IF metas = <<>> THEN metas' = metas ELSE metas' = Tail(metas)
  BY P2PCounts, Zenon
<1>2. UNCHANGED barrierVars
  BY Zenon DEF P2PNext, P2PTake, P2PCopy, P2PDeliver, P2PExit, othersOfP2P
<1>3. InP2P \in Nat /\ OnTheWay \in Int /\ enqueued \in Nat /\ btarget \in Nat /\ metas \in Seq(Kernel)
  BY FlowCounts, Zenon DEF RingInv, TypeOK, SyncType, P2PType
<1>4. CASE InP2P' = InP2P /\ metas' = metas
  <2>1. OnTheWay' = OnTheWay /\ enqueued' - InP2P' = enqueued - InP2P
    BY <1>1, <1>3, <1>4
  <2> QED
    BY <1>1, <1>2, <1>4, <2>1, BarrierKeep
<1>5. CASE /\ InP2P' = InP2P - 1 /\ InP2P >= 1
           /\ IF metas = <<>> THEN metas' = metas ELSE metas' = Tail(metas)
  <2>1. UNCHANGED <<bpc, bgen, btarget, bcover>>
    BY <1>2, Zenon DEF barrierVars
  <2>2. ASSUME bpc = "wait", ~failed
        PROVE  Covered(OnTheWay)' /\ (completed' >= bgen' => Covered(InP2P)')
    <3>1. Covered(OnTheWay) /\ (completed >= bgen => Covered(InP2P))
      BY <2>2, Zenon DEF BarrierInv
    <3>2. PICK k \in Int : k = OnTheWay
      BY <1>3, Zenon
    <3>3. Covered(k - 1)'
      BY <1>3, <1>5, <2>1, <3>1, <3>2, CoverTail, Zenon
    <3>4. Covered(OnTheWay)'
      <4>1. OnTheWay' = k - 1
        BY <1>1, <1>3, <1>5, <3>2
      <4> QED
        BY <3>3, <4>1, Zenon DEF Covered
    <3>5. ASSUME completed' >= bgen' PROVE Covered(InP2P)'
      <4>1. PICK l \in Int : l = InP2P
        BY <1>3
      <4>2. Covered(l)
        BY <1>1, <2>1, <3>1, <3>5, <4>1, Zenon
      <4>3. Covered(l - 1)'
        BY <1>3, <1>5, <2>1, <4>2, CoverTail, Zenon
      <4>4. InP2P' = l - 1
        BY <1>5, <4>1, Zenon
      <4> QED
        BY <4>3, <4>4, Zenon DEF Covered
    <3> QED
      BY <3>4, <3>5, Zenon
  <2>3. ASSUME bpc = "deliver" PROVE Covered(btarget - (enqueued - InP2P))'
    <3>1. PICK k \in Int : k = btarget - (enqueued - InP2P)
      BY <1>3
    <3>2. Covered(k)
      BY <2>3, <3>1, Zenon DEF BarrierInv
    <3>3. Covered(k - 1)'
      BY <1>3, <1>5, <2>1, <3>2, CoverTail, Zenon
    <3>4. (btarget - (enqueued - InP2P))' = k - 1
      BY <1>1, <1>3, <1>5, <2>1, <3>1
    <3> QED
      BY <3>3, <3>4, Zenon DEF Covered
  <2>4. ASSUME bpc = "done" PROVE Covered(0)'
    <3>1. Covered(0)
      BY <2>4, Zenon DEF BarrierInv
    <3>2. Covered(0 - 1)'
      BY <1>3, <1>5, <2>1, <3>1, CoverTail
    <3>3. Len(metas') \in Nat
      BY <1>3, <1>5
    <3> QED
      BY <3>2, <3>3 DEF Covered
  <2>5. bcover' <= hooks'
    BY <1>1, <2>1, Zenon DEF BarrierInv
  <2> QED
    BY <1>1, <2>1, <2>2, <2>3, <2>4, <2>5, Zenon DEF BarrierInv
<1> QED
  BY <1>1, <1>4, <1>5, Zenon

\* The host: later hooks have later metas, and a CPU-direct tensor goes to the
\* end of the P2P queue.
LEMMA BarrierHost ==
    ASSUME RingInv, CountInv, BarrierInv, HostNext
    PROVE  BarrierInv'
<1>1. /\ UNCHANGED <<local, cursor, flushCount, submitted, gpuTaskHead, cpuTaskTail>>
      /\ UNCHANGED <<completed, failed, bpc, bgen, btarget, bcover>>
  BY HostKeepsWorkers, Zenon DEF workers, gpuVars, p2pVars, drainVars, tails, batchVars, outcome,
     barrierVars
<1>2. /\ InP2P \in Nat /\ OnTheWay \in Int /\ hooks \in Nat /\ enqueued \in Nat /\ btarget \in Nat
      /\ queue \in Seq(Task) /\ bcover \in Nat
  BY FlowCounts, Zenon DEF RingInv, TypeOK, SyncType, P2PType
<1>3. CASE PushMetas
  <2>1. UNCHANGED <<queue, enqueued, hooks>>
    BY <1>3, Zenon DEF PushMetas
  <2>2. InP2P' = InP2P /\ OnTheWay' = OnTheWay
    BY <1>1, <2>1, Zenon DEF InP2P, OnTheWay
  <2>3. bcover <= hooks /\ bcover' = bcover
    BY <1>1, Zenon DEF BarrierInv
  <2>4. ASSUME NEW k \in Int, Covered(k) PROVE Covered(k)'
    BY <1>3, <2>3, <2>4, CoverPush, Zenon
  <2>5. Covered(OnTheWay) => Covered(OnTheWay)'
    <3>1. PICK k \in Int : k = OnTheWay
      BY <1>2, Zenon
    <3> QED
      BY <2>2, <2>4, <3>1, Zenon DEF Covered
  <2>6. Covered(InP2P) => Covered(InP2P)'
    <3>1. PICK k \in Int : k = InP2P
      BY <1>2
    <3> QED
      BY <2>2, <2>4, <3>1, Zenon DEF Covered
  <2>7. Covered(btarget - (enqueued - InP2P)) => Covered(btarget - (enqueued - InP2P))'
    <3>1. PICK k \in Int : k = btarget - (enqueued - InP2P)
      BY <1>2
    <3>2. k = (btarget - (enqueued - InP2P))'
      BY <1>1, <2>1, <2>2, <3>1, Zenon
    <3>3. Covered(btarget - (enqueued - InP2P)) => Covered(k)
      BY <3>1, Zenon DEF Covered
    <3>4. Covered(k)' => Covered(btarget - (enqueued - InP2P))'
      BY <3>2, Zenon DEF Covered
    <3> QED
      BY <2>4, <3>3, <3>4, Zenon
  <2>8. Covered(0) => Covered(0)'
    BY <2>4
  <2> QED
    BY <1>1, <2>1, <2>3, <2>5, <2>6, <2>7, <2>8, Zenon DEF BarrierInv
<1>4. CASE ~PushMetas
  <2>1. metas' = metas
    BY <1>4, Zenon DEF HostNext, PrepareStep, Warmup, HostFlushRequest, HostFlushReturn,
       ReserveFlushed, AbandonStep, LaunchHook, EagerLaunch, EagerFlush, EagerStrip,
       EagerFlushedLaunch, EagerRefused, SubmitCpuDirect, RequestFlush, Stop, StopDrain, StopP2P
  <2>2. hooks' \in {hooks, hooks + 1}
    BY <1>4, Zenon DEF HostNext, PrepareStep, Warmup, HostFlushRequest, HostFlushReturn,
       ReserveFlushed, AbandonStep, LaunchHook, EagerLaunch, EagerFlush, EagerStrip,
       EagerFlushedLaunch, EagerRefused, SubmitCpuDirect, RequestFlush, Stop, StopDrain, StopP2P,
       HookDone
  <2>3. \/ UNCHANGED <<queue, enqueued>>
        \/ \E t \in Task : queue' = Append(queue, t) /\ enqueued' = enqueued + 1
    <3>1. CASE SubmitCpuDirect
      <4>1. HookSize \in Nat
        BY <3>1, HookFacts, ZenonT(40) DEF SubmitCpuDirect, RingInv, StepInv, Heading
      <4>2. [direct |-> hooks + 1, pos |-> 0, len |-> HookSize] \in Task
        BY <1>2, <4>1 DEF Task
      <4> QED
        BY <3>1, <4>2, Zenon DEF SubmitCpuDirect
    <3>2. CASE ~SubmitCpuDirect
      BY <1>4, <3>2, ZenonT(40) DEF HostNext, PrepareStep, Warmup, HostFlushRequest, HostFlushReturn,
       ReserveFlushed, AbandonStep, LaunchHook, EagerLaunch, EagerFlush, EagerStrip,
       EagerFlushedLaunch, EagerRefused, RequestFlush, Stop, StopDrain, StopP2P
    <3> QED
      BY <3>1, <3>2, Zenon
  <2>4. \/ Len(queue') = Len(queue) /\ enqueued' = enqueued
        \/ Len(queue') = Len(queue) + 1 /\ enqueued' = enqueued + 1
    BY <1>2, <2>3
  <2>5. /\ InP2P' \in {InP2P, InP2P + 1} /\ enqueued' - InP2P' = enqueued - InP2P
        /\ OnTheWay' = OnTheWay - InP2P + InP2P'
    <3>1. /\ Len(queue) \in Nat /\ Len(local) \in Nat /\ cursor \in Nat /\ flushCount \in Nat
          /\ submitted \in Nat /\ gpuTaskHead \in Nat /\ cpuTaskTail \in Nat
      BY DEF RingInv, TypeOK, GpuType, DrainType, P2PType
    <3>2. InP2P' = InP2P - Len(queue) + Len(queue')
      BY <1>1, <2>4, <3>1 DEF InP2P
    <3>3. InP2P' \in {InP2P, InP2P + 1} /\ enqueued' - InP2P' = enqueued - InP2P
      BY <1>2, <2>4, <3>1, <3>2, SMTT(30)
    <3> QED
      BY <1>1, <1>2, <3>1, <3>3, SMTT(30) DEF OnTheWay
  <2>6. OnTheWay' \in {OnTheWay, OnTheWay + 1}
    <3>1. InP2P' = InP2P => OnTheWay' = OnTheWay
      BY <1>2, <2>5
    <3>2. InP2P' = InP2P + 1 => OnTheWay' = OnTheWay + 1
      BY <1>2, <2>5
    <3> QED
      BY <2>5, <3>1, <3>2, Zenon
  <2> QED
    BY <1>1, <2>1, <2>2, <2>5, <2>6, BarrierKeep, Zenon DEF barrierVars
<1> QED
  BY <1>3, <1>4, Zenon

\* The GPU: a published tensor is on the way.
LEMMA BarrierGpu ==
    ASSUME RingInv, CountInv, BarrierInv, GpuNext
    PROVE  BarrierInv'
<1>1. /\ UNCHANGED <<hooks, metas, queue, local, cursor, flushCount, submitted, cpuTaskTail>>
      /\ UNCHANGED <<enqueued, completed, failed, barrierVars>>
  BY Zenon DEF GpuNext, KernelCopy, KernelPublish, hostVars, drainVars, tails, batchVars, p2pVars
<1>2. gpuTaskHead' \in {gpuTaskHead, gpuTaskHead + 1}
  BY Zenon DEF GpuNext, KernelCopy, KernelPublish
<1>3. InP2P' = InP2P
  BY <1>1, Zenon DEF InP2P
<1>4. OnTheWay' \in {OnTheWay, OnTheWay + 1}
  <2>1. /\ InP2P \in Nat /\ flushCount \in Nat /\ submitted \in Nat /\ gpuTaskHead \in Nat
        /\ cpuTaskTail \in Nat
    BY FlowCounts, Zenon DEF RingInv, TypeOK, GpuType, DrainType
  <2>2. gpuTaskHead' = gpuTaskHead => OnTheWay' = OnTheWay
    BY <1>1, <1>3, Zenon DEF OnTheWay
  <2>3. gpuTaskHead' = gpuTaskHead + 1 => OnTheWay' = OnTheWay + 1
    BY <1>1, <1>3, <2>1 DEF OnTheWay
  <2> QED
    BY <1>2, <2>2, <2>3, Zenon
<1> QED
  BY <1>1, <1>3, <1>4, BarrierKeep, Zenon

\* The drain thread: when a forced flush returns, everything on the way is with
\* the P2P thread.
LEMMA BarrierDrain ==
    ASSUME RingInv, CountInv, BarrierInv, DrainNext
    PROVE  BarrierInv'
<1>1. /\ ~failed' => OnTheWay' = OnTheWay
      /\ InP2P' \in {InP2P, InP2P + 1} /\ UNCHANGED <<hooks, metas>>
      /\ enqueued' - InP2P' = enqueued - InP2P
  BY DrainCounts, Zenon
<1>2. UNCHANGED barrierVars
  BY Zenon DEF DrainNext, DrainTop, ScanReady, FlushStateUpdate, DrainIdle, FlushDone,
     StagingSpace, CopyD2H, CopyFails, CommitTail, SubmitOne, SubmitEnd, othersOfDrain
<1>3. ~failed' => ~failed /\ (completed' = completed \/ FlushDone)
  BY Zenon DEF DrainNext, DrainTop, ScanReady, FlushStateUpdate, DrainIdle, FlushDone,
     StagingSpace, CopyD2H, CopyFails, CommitTail, SubmitOne, SubmitEnd, outcome
<1>4. FlushDone => OnTheWay = InP2P
  <2> SUFFICES ASSUME FlushDone PROVE OnTheWay = InP2P
    BY Zenon
  <2>1. ~failed /\ gpuTaskHead = cpuTaskTail
    BY FullFlush, Zenon DEF RingInv
  <2>2. flushCount = 0 /\ submitted = 0
    BY <2>1 DEF FlushDone, RingInv, DrainInv, Batching
  <2>3. InP2P \in Nat /\ gpuTaskHead \in Nat
    BY FlowCounts, Zenon DEF RingInv, TypeOK, GpuType
  <2> QED
    BY <2>1, <2>2, <2>3 DEF OnTheWay
<1>5. ~failed' => /\ ~failed /\ OnTheWay' \in {OnTheWay, OnTheWay + 1}
                  /\ completed' = completed \/ OnTheWay = InP2P
  BY <1>1, <1>3, <1>4, Zenon
<1>6. hooks' \in {hooks, hooks + 1}
  BY <1>1, Zenon
<1> QED
  BY <1>1, <1>2, <1>5, <1>6, BarrierKeep, Zenon

\* The barrier's own steps: it waits for the stream, then for the flush of
\* everything on the way, then for everything handed to the P2P thread.
LEMMA BarrierMoves ==
    ASSUME RingInv, FlowInv, BarrierInv, BarrierNext
    PROVE  BarrierInv'
<1>1. UNCHANGED flowVars /\ UNCHANGED <<enqueued, completed, failed>>
  BY Zenon DEF BarrierNext, BarrierStart, BarrierFlush, BarrierFlushed, BarrierReturn,
     BarrierTimeout, othersOfBarrier, flowVars, workers, gpuVars, drainVars, tails, batchVars,
     p2pVars, handoff, outcome
<1>2. InP2P' = InP2P /\ OnTheWay' = OnTheWay /\ UNCHANGED <<hooks, metas>>
  BY <1>1, SameCounts, Zenon
<1>3. CountInv /\ (~failed => InOrder \/ OfWarmup)
  BY Zenon DEF FlowInv
<1>4. /\ InP2P \in Nat /\ hooks \in Nat /\ enqueued \in Nat /\ processed \in Nat /\ cursor \in Nat
      /\ completed \in Nat /\ requested \in Nat /\ btarget \in Nat /\ Len(queue) \in Nat
      /\ Len(local) \in Nat /\ cursor >= 1
  <2>1. P2PType /\ SyncType /\ P2PInv
    BY Zenon DEF RingInv, TypeOK
  <2>2. cursor >= 1
    BY <1>3, <2>1 DEF P2PInv, P2PType, CountInv
  <2> QED
    BY <1>3, <2>1, <2>2, FlowCounts DEF P2PType, SyncType
<1>5. CASE BarrierStart
  BY <1>2, <1>4, <1>5 DEF BarrierStart, BarrierInv
<1>6. CASE BarrierFlush
  <2>1. bcover' = bcover /\ (\A j \in 1 .. Len(stream) : stream[j].id > bcover)
    BY <1>6, Zenon DEF BarrierFlush
  <2>2. CASE failed
    BY <1>1, <1>2, <1>6, <2>1, <2>2 DEF BarrierFlush, BarrierInv
  <2>3. CASE ~failed
    <3>1. bpc' = "wait" /\ bgen' = requested + 1
      BY <1>6, <2>3, Zenon DEF BarrierFlush
    <3>2. Covered(OnTheWay)
      BY <1>3, <2>1, <2>3, CoverSynced, Zenon DEF BarrierInv
    <3>3. Covered(OnTheWay)'
      BY <1>2, <2>1, <3>2, Zenon DEF Covered
    <3>4. ~(completed' >= bgen')
      BY <1>1, <1>4, <3>1 DEF RingInv, FlushInv
    <3>5. bcover' <= hooks'
      BY <1>2, <2>1, Zenon DEF BarrierInv
    <3> QED
      BY <3>1, <3>3, <3>4, <3>5, Zenon DEF BarrierInv
  <2> QED
    BY <2>2, <2>3, Zenon
<1>7. CASE BarrierFlushed
  <2>1. bpc = "wait" /\ completed >= bgen /\ bcover' = bcover
    BY <1>7, Zenon DEF BarrierFlushed
  <2>2. bcover' <= hooks'
    BY <1>2, <2>1, Zenon DEF BarrierInv
  <2>3. CASE failed
    <3>1. bpc' = "idle"
      BY <1>7, <2>3, Zenon DEF BarrierFlushed
    <3> QED
      BY <2>2, <3>1, Zenon DEF BarrierInv
  <2>4. CASE ~failed
    <3>1. bpc' = "deliver" /\ btarget' = enqueued
      BY <1>7, <2>4, Zenon DEF BarrierFlushed
    <3>2. Covered(InP2P)
      BY <2>1, <2>4, Zenon DEF BarrierInv
    <3>3. (btarget - (enqueued - InP2P))' = InP2P
      BY <1>1, <1>2, <1>4, <3>1
    <3>4. Covered(btarget - (enqueued - InP2P))'
      BY <1>2, <2>1, <3>2, <3>3, Zenon DEF Covered
    <3> QED
      BY <2>2, <3>1, <3>4, Zenon DEF BarrierInv
  <2> QED
    BY <2>3, <2>4, Zenon
<1>8. CASE BarrierReturn
  <2>1. bpc = "deliver" /\ bcover' = bcover /\ bpc' \in {"done", "idle"}
    BY <1>8, Zenon DEF BarrierReturn
  <2>2. bcover' <= hooks'
    BY <1>2, <2>1, Zenon DEF BarrierInv
  <2>3. ASSUME bpc' = "done" PROVE Covered(0)'
    <3>1. processed >= btarget
      BY <1>8, <2>3, Zenon DEF BarrierReturn
    <3>2. enqueued - InP2P = processed + cursor - 1
      BY <1>3, <1>4 DEF CountInv, InP2P
    <3>3. PICK k \in Int : k = btarget - (enqueued - InP2P) /\ k <= 0
      BY <1>4, <3>1, <3>2
    <3>4. Covered(k)
      BY <2>1, <3>3, Zenon DEF BarrierInv
    <3>5. Len(metas) \in Nat
      BY <1>3, FlowCounts, Zenon
    <3> QED
      BY <1>2, <2>1, <3>3, <3>4, <3>5, CoverMore
  <2> QED
    BY <2>1, <2>2, <2>3, Zenon DEF BarrierInv
<1>9. CASE BarrierTimeout
  BY <1>2, <1>9, Zenon DEF BarrierTimeout, BarrierInv
<1> QED
  BY <1>5, <1>6, <1>7, <1>8, <1>9, Zenon DEF BarrierNext

\* Every step of every thread keeps what a barrier covers on its way.
LEMMA BarrierStep ==
    ASSUME RingInv, FlowInv, BarrierInv, [Next]_vars
    PROVE  BarrierInv'
<1>1. CountInv
  BY Zenon DEF FlowInv
<1>2. CASE UNCHANGED vars
  <2>1. UNCHANGED flowVars /\ UNCHANGED <<enqueued, completed, failed, barrierVars>>
    BY <1>2, Zenon DEF vars, hostVars, flowVars, workers, gpuVars, drainVars, tails, batchVars,
       p2pVars, handoff, outcome
  <2>2. InP2P' = InP2P /\ OnTheWay' = OnTheWay /\ UNCHANGED <<hooks, metas>>
    BY <2>1, SameCounts, Zenon
  <2> QED
    BY <1>1, <2>1, <2>2, BarrierKeep, Zenon
<1> QED
  BY <1>1, <1>2, BarrierHost, BarrierGpu, BarrierDrain, BarrierDelivery, BarrierMoves, Zenon
  DEF Next, Done

-----------------------------------------------------------------------------
(* The theorem.                                                             *)

\* Nothing is in flight at the start.
LEMMA FlowStarts == Init => FlowInv /\ BarrierInv
<1> SUFFICES ASSUME Init PROVE FlowInv /\ BarrierInv
  BY Zenon
<1>1. /\ queue = <<>> /\ local = <<>> /\ cursor = 1 /\ stream = <<>> /\ metas = <<>>
      /\ flushCount = 0 /\ submitted = 0 /\ gpuTaskHead = 0 /\ cpuTaskTail = 0
      /\ hooks = 0 /\ enqueued = 0 /\ processed = 0 /\ bcover = 0 /\ bpc = "idle"
      /\ hpc = "idle" /\ dpc = "top" /\ ppc = "wait" /\ dmode = "auto"
      /\ running = TRUE /\ p2pStop = FALSE
  BY Zenon DEF Init
<1>2. InFlight = 0
  BY <1>1 DEF InFlight, OnTheWay, InP2P
<1>3. Unfired = 0
  BY <1>1 DEF Unfired, Pushed, Heading
<1>4. InOrder
  BY <1>1, <1>2, <1>3, SMTT(30) DEF InOrder
<1>5. CountInv
  BY <1>1 DEF CountInv
<1>6. EndInv
  BY <1>1 DEF EndInv
<1>7. BarrierInv
  BY <1>1 DEF BarrierInv
<1> QED
  BY <1>4, <1>5, <1>6, <1>7, Zenon DEF FlowInv

\* Once the P2P thread of a drain that did not fail has ended, nothing is in
\* flight: every meta that is left belongs to a hook that never fired.
LEMMA EndedIsDelivered ==
    ASSUME RingInv, FlowInv, ppc = "exit", ~failed, NEW i \in 1 .. Len(metas)
    PROVE  metas[i].id > hooks
<1>1. CountInv /\ EndInv /\ (InOrder \/ OfWarmup)
  BY Zenon DEF FlowInv
<1>2. dpc = "exit" /\ stream = <<>> /\ gpuTaskHead = cpuTaskTail /\ queue = <<>>
  BY <1>1, Zenon DEF EndInv
<1>3. local = <<>> /\ cursor = 1
  BY <1>1, ZenonT(40) DEF CountInv
<1>4. flushCount = 0 /\ submitted = 0
  BY <1>2, SMTT(30) DEF RingInv, DrainInv, Batching
<1>5. InFlight = 0
  BY <1>2, <1>3, <1>4, SMTT(30) DEF InFlight, OnTheWay, InP2P, RingInv, TypeOK, GpuType
<1>6. hooks \in Nat /\ Len(metas) \in Nat
  BY <1>1, FlowCounts, Zenon
<1>7. CASE OfWarmup
  BY <1>6, <1>7 DEF OfWarmup
<1>8. CASE InOrder
  <2>1. metas[i].id = hooks - InFlight + i
    BY <1>8, Zenon DEF InOrder
  <2> QED
    BY <1>5, <1>6, <2>1
<1> QED
  BY <1>1, <1>7, <1>8, Zenon

\* What was waited for is delivered, for every capacity and every step plan:
\* when drain_to_sink_and_wait returns true no hook fired before the call still
\* waits for its delivery, and neither does any hook once stop() has ended the
\* P2P thread of a drain that did not fail.
THEOREM DeliveryWaits == Spec => []WaitedForIsDelivered
<1>1. Init => RingInv /\ FlowInv /\ BarrierInv
  BY InitInv, FlowStarts, Zenon
<1>2. RingInv /\ FlowInv /\ BarrierInv /\ [Next]_vars => (RingInv /\ FlowInv /\ BarrierInv)'
  BY NextInv, FlowStep, BarrierStep, Zenon
<1>3. RingInv /\ FlowInv /\ BarrierInv => WaitedForIsDelivered
  <2> SUFFICES ASSUME RingInv, FlowInv, BarrierInv PROVE WaitedForIsDelivered
    BY Zenon
  <2>1. Len(metas) \in Nat /\ metas \in Seq(Kernel) /\ hooks \in Nat
    BY DEF RingInv, TypeOK, P2PType, HostType
  <2>2. ASSUME bpc = "done", NEW i \in 1 .. Len(metas) PROVE ~(metas[i].id <= bcover)
    <3>1. Covered(0)
      BY <2>2, Zenon DEF BarrierInv
    <3> QED
      BY <2>1, <3>1 DEF Covered
  <2>3. ASSUME ppc = "exit", ~failed, NEW i \in 1 .. Len(metas) PROVE ~(metas[i].id <= hooks)
    <3>1. metas[i].id > hooks
      BY <2>3, EndedIsDelivered, Zenon
    <3>2. metas[i] \in Kernel
      BY <2>1, <2>3
    <3>3. metas[i].id \in Nat
      BY <3>2, Zenon DEF Kernel
    <3> QED
      BY <2>1, <3>1, <3>3
  <2> QED
    BY <2>2, <2>3, Zenon DEF WaitedForIsDelivered
<1> QED
  BY <1>1, <1>2, <1>3, PTL DEF Spec
=============================================================================
