----------------------------- MODULE RingProofs -----------------------------
(***************************************************************************)
(* The theorems about the legacy ring, for every capacity and every set of  *)
(* step plans: every step of every thread keeps the types, the drain        *)
(* thread's bookkeeping and the slots, the flush generations and the        *)
(* reservation accounting.                                                  *)
(***************************************************************************)
EXTENDS RingInvariant, TLAPS

-----------------------------------------------------------------------------
(* Positions in a ring of N slots.                                          *)

\* A remainder is a slot number.
LEMMA ModRange ==
    ASSUME NEW i \in Int, NEW N \in Nat \ {0}
    PROVE  i % N \in 0 .. N - 1
OBVIOUS

\* A position is its lap times the capacity, plus its slot number.
LEMMA DivMod ==
    ASSUME NEW i \in Int, NEW N \in Nat \ {0}
    PROVE  i \div N \in Int /\ i = N * (i \div N) + (i % N)
OBVIOUS

\* A positive number of laps is at least one capacity.
LEMMA LapLength ==
    ASSUME NEW N \in Nat \ {0}, NEW d \in Int, d > 0
    PROVE  N * d >= N
OBVIOUS

\* Less than one capacity is no lap at all.
LEMMA NoLap ==
    ASSUME NEW N \in Nat \ {0}, NEW d \in Int, N * d < N, N * d > -N
    PROVE  d = 0
<1>1. ~(d > 0)
  BY LapLength
<1>2. ~(d < 0)
  <2> SUFFICES ASSUME d < 0 PROVE FALSE
    BY Zenon
  <2>1. N * (-d) >= N
    BY LapLength
  <2>2. N * (-d) = -(N * d)
    OBVIOUS
  <2> QED
    BY <2>1, <2>2
<1> QED
  BY <1>1, <1>2

\* Two positions of one window of N share a slot only when they are equal.
LEMMA ModWindow ==
    ASSUME NEW N \in Nat \ {0}, NEW i \in Int, NEW j \in Int,
           i <= j, j < i + N, i % N = j % N
    PROVE  i = j
<1> DEFINE d == (j \div N) - (i \div N)
<1>1. d \in Int
  BY DivMod
<1>2. N * d = N * (j \div N) - N * (i \div N)
  BY DivMod
<1>3. j - i = N * d
  BY <1>2, DivMod, ModRange
<1> HIDE DEF d
<1>4. d = 0
  BY <1>1, <1>3, NoLap
<1> QED
  BY <1>3, <1>4

\* A position and the one a lap later share a slot.
LEMMA ModShift ==
    ASSUME NEW N \in Nat \ {0}, NEW i \in Int
    PROVE  (i + N) % N = i % N
<1> DEFINE d == ((i + N) \div N) - (i \div N) - 1
<1>1. d \in Int
  BY DivMod
<1>2. N * d = N * ((i + N) \div N) - N * (i \div N) - N
  BY DivMod
<1>3. (i % N) - ((i + N) % N) = N * d
  BY <1>2, DivMod, ModRange
<1> HIDE DEF d
<1>4. i % N \in 0 .. N - 1 /\ (i + N) % N \in 0 .. N - 1
  BY ModRange
<1>5. N * d < N /\ N * d > -N
  BY <1>1, <1>3, <1>4
<1>6. d = 0
  BY <1>1, <1>5, NoLap, Zenon
<1> QED
  BY <1>3, <1>4, <1>6

\* Every position has a publication slot.
LEMMA SlotRange == \A i \in Nat : Slot(i) \in 0 .. TaskCap - 1
BY CapAssumption, ModRange DEF Slot

\* Two positions less than a lap apart have different slots.
LEMMA SlotWindow ==
    ASSUME NEW i \in Nat, NEW j \in Nat, i < j, j < i + TaskCap
    PROVE  Slot(i) # Slot(j)
<1> SUFFICES ASSUME i % TaskCap = j % TaskCap PROVE FALSE
  BY Zenon DEF Slot
<1>1. TaskCap \in Nat \ {0} /\ i \in Int /\ j \in Int /\ i <= j
  BY CapAssumption
<1>2. i = j
  BY <1>1, ModWindow, Zenon
<1> QED
  BY <1>2

\* A lap later the slot is the same.
LEMMA SlotLap ==
    ASSUME NEW i \in Nat
    PROVE  Slot(i + TaskCap) = Slot(i)
<1>1. TaskCap \in Nat \ {0} /\ i \in Int
  BY CapAssumption
<1> QED
  BY <1>1, ModShift, Zenon DEF Slot

-----------------------------------------------------------------------------
(* What a step leaves alone keeps its type.                                 *)

\* The host's own variables.
LEMMA KeepHost ==
    HostType /\ UNCHANGED <<hpc, step, acct, hooks, left, running, p2pStop, asyncUntil>>
        => HostType'
BY Zenon DEF HostType, acct

\* The GPU's variables.
LEMMA KeepGpu == GpuType /\ UNCHANGED <<stream, gpuVars, slots>> => GpuType'
BY Zenon DEF GpuType, gpuVars

\* The drain thread's variables and staging.
LEMMA KeepDrain == DrainType /\ UNCHANGED <<drainVars, stagingVars>> => DrainType'
BY Zenon DEF DrainType, drainVars, dctl, scanVars, tails, batchVars, stagingVars

\* The P2P thread's variables, its queue and the metadata FIFO.
LEMMA KeepP2P == P2PType /\ UNCHANGED <<p2pVars, queue, enqueued, metas>> => P2PType'
BY Zenon DEF P2PType, p2pVars

\* The flush generations, the failure latch and the barrier.
LEMMA KeepSync == SyncType /\ UNCHANGED <<requested, completed, failed, barrierVars>> => SyncType'
BY Zenon DEF SyncType, barrierVars

\* What the assumption on plans says of one plan: its tensors have sizes, and
\* none is larger than the step.
LEMMA PlanFacts ==
    ASSUME NEW p \in Plans
    PROVE  /\ p \in Seq(Nat) /\ Len(p) \in Nat \ {0} /\ Bytes(p) \in Nat
           /\ \A i \in 1 .. Len(p) : Size(p, i) \in Nat /\ Size(p, i) <= Bytes(p)
<1>1. p \in Seq(Nat) /\ Len(p) \in Nat \ {0}
  BY PlansAssumption
<1>2. Bytes(p) \in Nat
  BY <1>1 DEF Bytes
<1>3. ASSUME NEW i \in 1 .. Len(p)
      PROVE  Size(p, i) \in Nat /\ Size(p, i) <= Bytes(p)
  <2>1. p[i] \in Nat /\ p[i] <= p[Len(p)]
    BY <1>1, PlansAssumption
  <2>2. i # 1 => i - 1 \in 1 .. Len(p) /\ p[i - 1] \in Nat /\ p[i - 1] <= p[i]
    BY <1>1, PlansAssumption, SMTT(30)
  <2> QED
    BY <1>1, <2>1, <2>2 DEF Size, Bytes
<1> QED
  BY <1>1, <1>2, <1>3, Zenon

\* The hook a step is at has a size within the step.
LEMMA HookFacts ==
    ASSUME StepInv, step.plan \in Plans
    PROVE  HookSize \in Nat /\ HookSize <= Bytes(step.plan) /\ Len(step.plan) \in Nat \ {0}
BY PlanFacts, Zenon DEF StepInv, HookSize

\* The heads a reservation leaves behind are positions.
LEMMA ReserveType ==
    ASSUME HostType, DrainType, NEW b \in Nat, NEW t \in Nat, Reserve(b, t)
    PROVE  cpuPayloadHead' \in Nat /\ cpuTaskHead' \in Nat /\ warm' \in BOOLEAN
<1>1. cpuPayloadHead' \in Nat /\ cpuTaskHead' \in Nat
  BY DEF HostType, DrainType, Reserve, LiftTo
<1>2. warm' \in BOOLEAN
  BY Zenon DEF Reserve
<1> QED
  BY <1>1, <1>2, Zenon

\* Between steps the step record is a step record.
LEMMA NoStepType == NoStep \in StepRecord
<1>1. <<>> \in Seq(Nat)
  OBVIOUS
<1> QED
  BY <1>1, Zenon DEF NoStep, StepRecord

\* HookDone moves on to the next hook or ends the step.
LEMMA HookDoneType ==
    ASSUME HostType, HookDone
    PROVE  hooks' \in Nat /\ hpc' \in {"idle", "forward"} /\ step' \in StepRecord
<1>1. CASE step.hook = Len(step.plan)
  BY <1>1, NoStepType DEF HostType, HookDone
<1>2. CASE step.hook # Len(step.plan)
  <2>1. step.hook + 1 \in Nat
    BY DEF HostType, StepRecord
  <2>2. step' = [step EXCEPT !.hook = step.hook + 1, !.gen = 0]
    BY <1>2, Zenon DEF HookDone
  <2>3. step' \in StepRecord
    BY <2>1, <2>2, Zenon DEF HostType, StepRecord
  <2> QED
    BY <1>2, <2>3 DEF HostType, HookDone
<1> QED
  BY <1>1, <1>2, Zenon

\* A launched kernel carries a hook number and a size.
LEMMA LaunchType ==
    ASSUME GpuType, NEW id \in Nat, NEW size \in Nat, Launch(id, size)
    PROVE  stream' \in Seq(Kernel)
<1>1. [id |-> id, size |-> size] \in Kernel
  BY Zenon DEF Kernel
<1> QED
  BY <1>1 DEF GpuType, Launch

\* Using up one of the things a scenario still allows leaves a scenario.
LEMMA OneFewer ==
    ASSUME left \in Bounds
    PROVE  /\ left.leaks > 0 => [left EXCEPT !.leaks = @ - 1] \in Bounds
           /\ left.warmups > 0 => [left EXCEPT !.warmups = @ - 1] \in Bounds
           /\ left.barriers > 0 => [left EXCEPT !.barriers = @ - 1] \in Bounds
           /\ left.asyncs > 0 => [left EXCEPT !.asyncs = @ - 1] \in Bounds
<1>1. \A n \in Nat : n > 0 => n - 1 \in Nat
  OBVIOUS
<1>2. /\ left.leaks \in Nat /\ left.warmups \in Nat
      /\ left.barriers \in Nat /\ left.asyncs \in Nat
  BY Zenon DEF Bounds
<1> QED
  BY <1>1, <1>2, Zenon DEF Bounds

\* The host's actions keep every variable in its type.
LEMMA HostTypeStep ==
    ASSUME TypeOK, StepInv, HostNext
    PROVE  TypeOK'
<1> SUFFICES ASSUME HostType, GpuType, DrainType, P2PType, SyncType PROVE TypeOK'
  BY Zenon DEF TypeOK
<1> USE DEF TypeOK, workers
<1>1. ASSUME NEW p \in Plans, NEW e \in BOOLEAN, PrepareStep(p, e) PROVE TypeOK'
  <2>1. p \in Seq(Nat) /\ Bytes(p) \in Nat /\ Len(p) \in Nat /\ e \in BOOLEAN
    BY PlanFacts, Zenon
  <2>2. cpuPayloadHead' \in Nat /\ cpuTaskHead' \in Nat /\ warm' \in BOOLEAN
    BY <1>1, <2>1, ReserveType, Zenon DEF PrepareStep, HostType, acct
  <2>3. HostType'
    BY <1>1, <2>1, <2>2, Zenon DEF PrepareStep, HostType, StepRecord
  <2> QED
    BY <1>1, <2>3, KeepGpu, KeepDrain, KeepP2P, KeepSync, Zenon DEF PrepareStep, outcome
<1>2. ASSUME NEW p \in Plans, Warmup(p) PROVE TypeOK'
  <2>1. p \in Seq(Nat) /\ Len(p) \in Nat /\ \A i \in 1 .. Len(p) : Size(p, i) \in Nat
    BY PlanFacts, Zenon
  <2>2. stream' \in Seq(Kernel)
    BY <1>2, <2>1 DEF Warmup, Kernel
  <2>3. GpuType'
    BY <1>2, <2>2, Zenon DEF Warmup, GpuType, gpuVars
  <2>4. HostType'
    BY <1>2, OneFewer, Zenon DEF Warmup, HostType, acct
  <2> QED
    BY <1>2, <2>3, <2>4, KeepDrain, KeepP2P, KeepSync, Zenon DEF Warmup, outcome
<1>3. CASE HostFlushRequest
  <2>1. HostType'
    <3>1. hpc' \in {"wait", "idle", "commit", "reserve", "hook", "direct", "stop"}
      BY <1>3, Zenon DEF HostFlushRequest, HostType, StepRecord
    <3>2. step' \in StepRecord
      <4>1. requested + 1 \in Nat
        BY DEF SyncType
      <4>2. step' = step \/ step' = [step EXCEPT !.gen = requested + 1]
        BY <1>3, Zenon DEF HostFlushRequest
      <4> QED
        BY <4>1, <4>2, Zenon DEF HostType, StepRecord
    <3> QED
      BY <1>3, <3>1, <3>2, Zenon DEF HostFlushRequest, HostType, acct
  <2>2. SyncType'
    BY <1>3 DEF HostFlushRequest, SyncType, barrierVars, outcome
  <2> QED
    BY <1>3, <2>1, <2>2, KeepGpu, KeepDrain, KeepP2P, Zenon DEF HostFlushRequest
<1>4. CASE HostFlushReturn
  <2>1. HostType'
    BY <1>4, Zenon DEF HostFlushReturn, HostType, StepRecord, acct
  <2> QED
    BY <1>4, <2>1, KeepGpu, KeepDrain, KeepP2P, KeepSync, Zenon DEF HostFlushReturn, outcome
<1>5. CASE ReserveFlushed
  <2>1. Bytes(step.plan) \in Nat /\ Len(step.plan) \in Nat
    BY <1>5, PlanFacts, Zenon DEF ReserveFlushed, StepInv, Heading
  <2>2. cpuPayloadHead' \in Nat /\ cpuTaskHead' \in Nat /\ warm' \in BOOLEAN
    BY <1>5, <2>1, ReserveType, Zenon DEF ReserveFlushed
  <2>3. HostType'
    BY <1>5, <2>2, Zenon DEF ReserveFlushed, HostType
  <2> QED
    BY <1>5, <2>3, KeepGpu, KeepDrain, KeepP2P, KeepSync, Zenon DEF ReserveFlushed, outcome
<1>6. CASE PushMetas
  <2>1. Len(step.plan) \in Nat /\ \A i \in 1 .. Len(step.plan) : Size(step.plan, i) \in Nat
    BY <1>6, PlanFacts, Zenon DEF PushMetas, StepInv
  <2>2. [i \in 1 .. Len(step.plan) |-> [id |-> hooks + i, size |-> Size(step.plan, i)]]
           \in Seq(Kernel)
    BY <2>1 DEF Kernel, HostType
  <2>3. metas' \in Seq(Kernel)
    BY <1>6, <2>2 DEF PushMetas, P2PType
  <2>4. P2PType'
    BY <1>6, <2>3, Zenon DEF PushMetas, P2PType, p2pVars
  <2>5. HostType'
    BY <1>6, Zenon DEF PushMetas, HostType, acct
  <2> QED
    BY <1>6, <2>4, <2>5, KeepGpu, KeepDrain, KeepSync, Zenon DEF PushMetas, outcome
<1>7. CASE AbandonStep
  <2>1. HostType'
    BY <1>7, NoStepType, OneFewer, Zenon DEF AbandonStep, HostType, acct
  <2> QED
    BY <1>7, <2>1, KeepGpu, KeepDrain, KeepP2P, KeepSync, Zenon DEF AbandonStep, outcome
<1>8. CASE LaunchHook
  <2>1. stream' \in Seq(Kernel)
    BY <1>8, HookFacts, LaunchType DEF LaunchHook, StepInv, HostType
  <2>2. HostType'
    BY <1>8, HookDoneType, Zenon DEF LaunchHook, HostType, acct
  <2>3. GpuType'
    BY <1>8, <2>1, Zenon DEF LaunchHook, GpuType, gpuVars
  <2> QED
    BY <1>8, <2>2, <2>3, KeepDrain, KeepP2P, KeepSync, Zenon DEF LaunchHook, outcome
<1>9. CASE EagerLaunch
  <2>1. stream' \in Seq(Kernel)
    BY <1>9, HookFacts, LaunchType DEF EagerLaunch, StepInv, HostType
  <2>2. cpuPayloadHead' \in Nat /\ cpuTaskHead' \in Nat /\ warm' \in BOOLEAN
    BY <1>9, HookFacts, ReserveType, Zenon DEF EagerLaunch, StepInv
  <2>3. HostType'
    BY <1>9, <2>2, HookDoneType, Zenon DEF EagerLaunch, HostType
  <2>4. GpuType'
    BY <1>9, <2>1, Zenon DEF EagerLaunch, GpuType, gpuVars
  <2> QED
    BY <1>9, <2>3, <2>4, KeepDrain, KeepP2P, KeepSync, Zenon DEF EagerLaunch, outcome
<1>10. CASE EagerFlush
  <2>1. HostType'
    BY <1>10, SMTT(30) DEF EagerFlush, HostType, StepRecord, acct
  <2> QED
    BY <1>10, <2>1, KeepGpu, KeepDrain, KeepP2P, KeepSync, Zenon DEF EagerFlush, outcome
<1>11. CASE EagerStrip
  <2>1. HostType'
    BY <1>11, Zenon DEF EagerStrip, HostType, StepRecord, acct
  <2> QED
    BY <1>11, <2>1, KeepGpu, KeepDrain, KeepP2P, KeepSync, Zenon DEF EagerStrip, outcome
<1>12. CASE EagerFlushedLaunch
  <2>1. stream' \in Seq(Kernel)
    BY <1>12, HookFacts, LaunchType DEF EagerFlushedLaunch, StepInv, Heading, HostType
  <2>2. cpuPayloadHead' \in Nat /\ cpuTaskHead' \in Nat /\ warm' \in BOOLEAN
    BY <1>12, HookFacts, ReserveType, Zenon DEF EagerFlushedLaunch, StepInv, Heading
  <2>3. HostType'
    BY <1>12, <2>2, HookDoneType, Zenon DEF EagerFlushedLaunch, HostType
  <2>4. GpuType'
    BY <1>12, <2>1, Zenon DEF EagerFlushedLaunch, GpuType, gpuVars
  <2> QED
    BY <1>12, <2>3, <2>4, KeepDrain, KeepP2P, KeepSync, Zenon DEF EagerFlushedLaunch, outcome
<1>13. CASE EagerRefused
  <2>1. HostType'
    BY <1>13, Zenon DEF EagerRefused, HostType, acct
  <2> QED
    BY <1>13, <2>1, KeepGpu, KeepDrain, KeepP2P, KeepSync, Zenon DEF EagerRefused, outcome
<1>14. CASE SubmitCpuDirect
  <2>1. [direct |-> hooks + 1, pos |-> 0, len |-> HookSize] \in Task
    BY <1>14, HookFacts DEF SubmitCpuDirect, StepInv, Heading, HostType, Task
  <2>2. P2PType'
    BY <1>14, <2>1 DEF SubmitCpuDirect, P2PType, p2pVars
  <2>3. HostType'
    BY <1>14, HookDoneType, Zenon DEF SubmitCpuDirect, HostType, acct
  <2> QED
    BY <1>14, <2>2, <2>3, KeepGpu, KeepDrain, KeepSync, SMTT(30) DEF SubmitCpuDirect, outcome
<1>15. CASE RequestFlush
  <2>1. HostType'
    BY <1>15, OneFewer, Zenon DEF RequestFlush, HostType, acct
  <2> QED
    BY <1>15, <2>1, KeepGpu, KeepDrain, KeepP2P, KeepSync, Zenon DEF RequestFlush, outcome
<1>16. CASE Stop
  <2>1. HostType'
    BY <1>16, NoStepType, Zenon DEF Stop, HostType, StepRecord, acct
  <2> QED
    BY <1>16, <2>1, KeepGpu, KeepDrain, KeepP2P, KeepSync, Zenon DEF Stop, outcome
<1>17. CASE StopDrain
  <2>1. HostType'
    BY <1>17, Zenon DEF StopDrain, HostType, acct
  <2> QED
    BY <1>17, <2>1, KeepGpu, KeepDrain, KeepP2P, KeepSync, Zenon DEF StopDrain, outcome
<1>18. CASE StopP2P
  <2>1. HostType'
    BY <1>18, Zenon DEF StopP2P, HostType, acct
  <2> QED
    BY <1>18, <2>1, KeepGpu, KeepDrain, KeepP2P, KeepSync, Zenon DEF StopP2P, outcome
<1> QED
  BY <1>1, <1>2, <1>3, <1>4, <1>5, <1>6, <1>7, <1>8, <1>9, <1>10, <1>11, <1>12, <1>13,
     <1>14, <1>15, <1>16, <1>17, <1>18, Zenon DEF HostNext

\* The kernel at the head of the stream.
LEMMA HeadKernel ==
    ASSUME GpuType, stream # <<>>
    PROVE  /\ Head(stream).id \in Nat /\ Head(stream).size \in Nat
           /\ Tail(stream) \in Seq(Kernel)
<1>1. Head(stream) \in Kernel /\ Tail(stream) \in Seq(Kernel)
  BY DEF GpuType
<1> QED
  BY <1>1, Zenon DEF Kernel

\* The kernels' actions keep every variable in its type.
LEMMA GpuTypeStep ==
    ASSUME TypeOK, DrainInv, GpuNext
    PROVE  TypeOK'
<1> SUFFICES ASSUME HostType, GpuType, DrainType, P2PType, SyncType PROVE TypeOK'
  BY Zenon DEF TypeOK
<1> USE DEF TypeOK, hostVars
<1>1. CASE KernelCopy
  <2>1. Head(stream).id \in Nat
    BY <1>1, HeadKernel, Zenon DEF KernelCopy
  <2>2. payload' \in [0 .. PayloadCap - 1 -> Nat]
    BY <1>1, <2>1, Zenon DEF KernelCopy, GpuType
  <2>3. GpuType'
    BY <1>1, <2>2, Zenon DEF KernelCopy, GpuType
  <2> QED
    BY <1>1, <2>3, KeepHost, KeepDrain, KeepP2P, KeepSync, SMTT(30) DEF KernelCopy
<1>2. CASE KernelPublish
  <2>1. stream # <<>> /\ Head(stream).size \in Nat /\ Tail(stream) \in Seq(Kernel)
    BY <1>2, HeadKernel, Zenon DEF KernelPublish, DrainInv
  <2>2. slots' \in [0 .. TaskCap - 1 -> Nat \cup {Empty}]
    BY <1>2, <2>1, Zenon DEF KernelPublish, GpuType
  <2>3. copying' \in BOOLEAN
    BY <1>2, Zenon DEF KernelPublish
  <2>4. GpuType'
    BY <1>2, <2>1, <2>2, <2>3, SMTT(30) DEF KernelPublish, GpuType
  <2> QED
    BY <1>2, <2>4, KeepHost, KeepDrain, KeepP2P, KeepSync, Zenon DEF KernelPublish
<1> QED
  BY <1>1, <1>2, Zenon DEF GpuNext

\* The ends of the scanned entries are positions, from the batch start on.
LEMMA EntryFacts ==
    ASSUME DrainType, DrainInv, NEW i \in 1 .. Len(scanned)
    PROVE  /\ scanned[i] \in Nat /\ EntryStart(i) \in Nat /\ BatchStart \in Nat
           /\ BatchStart <= EntryStart(i) /\ EntryStart(i) <= scanned[i]
<1>1. Len(scanned) \in Nat /\ \A k \in 1 .. Len(scanned) : scanned[k] \in Nat
  BY DEF DrainType
<1>2. scanned # <<>>
  BY <1>1 DEF DrainType
<1>3. BatchStart \in Nat /\ BatchStart <= scanned[1]
  BY <1>2 DEF DrainType, DrainInv, BatchStart
<1>4. CASE i = 1
  BY <1>1, <1>3, <1>4 DEF EntryStart
<1>5. CASE i # 1
  <2>1. i - 1 \in 1 .. Len(scanned) /\ 1 \in 1 .. Len(scanned)
    BY <1>1, <1>5
  <2>2. scanned[1] <= scanned[i - 1] /\ scanned[i - 1] <= scanned[i]
    BY <1>1, <2>1 DEF DrainInv
  <2> QED
    BY <1>1, <1>3, <1>5, <2>1, <2>2 DEF EntryStart
<1> QED
  BY <1>4, <1>5, Zenon

\* The drain thread's actions keep every variable in its type.
LEMMA DrainTypeStep ==
    ASSUME TypeOK, DrainInv, DrainNext
    PROVE  TypeOK'
<1> SUFFICES ASSUME HostType, GpuType, DrainType, P2PType, SyncType PROVE TypeOK'
  BY Zenon DEF TypeOK
<1> USE DEF TypeOK, othersOfDrain, hostVars
<1>1. CASE DrainTop
  <2>1. DrainType'
    BY <1>1, Zenon DEF DrainTop, DrainType, SyncType, dctl, scanVars, tails, batchVars, stagingVars
  <2> QED
    BY <1>1, <2>1, KeepHost, KeepGpu, KeepP2P, KeepSync, Zenon DEF DrainTop, outcome, handoff
<1>2. CASE ScanReady
  <2>1. slots[Slot(visibleHead)] \in Nat
    <3>1. Slot(visibleHead) \in 0 .. TaskCap - 1
      BY SlotRange, Zenon DEF DrainType
    <3> QED
      BY <1>2, <3>1, Zenon DEF ScanReady, ScanMore, GpuType
  <2>2. ScanPosition \in Nat
    BY DEF ScanPosition, DrainType
  <2>3. scanned' \in Seq(Nat) /\ visibleHead' \in Nat
    BY <1>2, <2>1, <2>2, SMTT(30) DEF ScanReady, DrainType
  <2>4. DrainType'
    BY <1>2, <2>3, Zenon DEF ScanReady, DrainType, dctl, tails, batchVars, stagingVars
  <2> QED
    BY <1>2, <2>4, KeepHost, KeepGpu, KeepP2P, KeepSync, Zenon DEF ScanReady, outcome, handoff
<1>3. CASE FlushStateUpdate
  <2>1. PICK n \in 1 .. Len(scanned) : /\ cpuTaskTail' = cpuTaskTail + n
                                       /\ cpuPayloadTail' = scanned[n] /\ flushCount' = n
                                       /\ flushBytes' = scanned[n] - cpuPayloadTail
    BY <1>3, SMTT(30) DEF FlushStateUpdate
  <2>2. ~failed /\ flushBytes = 0 /\ n \in Nat /\ scanned[n] \in Nat
    BY <1>3, <2>1, SMTT(30) DEF FlushStateUpdate, DrainInv, Batching, DrainType
  <2>3. cpuPayloadTail <= scanned[n]
    BY <2>1, <2>2, EntryFacts, SMTT(30) DEF BatchStart, DrainType
  <2>4. slots' \in [0 .. TaskCap - 1 -> Nat \cup {Empty}]
    BY <1>3, Zenon DEF FlushStateUpdate, GpuType
  <2>5. GpuType'
    BY <1>3, <2>4, SMTT(30) DEF FlushStateUpdate, GpuType, gpuVars
  <2>6. DrainType'
    BY <1>3, <2>1, <2>2, <2>3, SMTT(30) DEF FlushStateUpdate, DrainType, dctl, scanVars, stagingVars
  <2> QED
    BY <1>3, <2>5, <2>6, KeepHost, KeepP2P, KeepSync, Zenon DEF FlushStateUpdate, outcome, handoff
<1>4. CASE DrainIdle
  <2>1. DrainType'
    BY <1>4, Zenon DEF DrainIdle, DrainType, dctl, scanVars, tails, batchVars, stagingVars
  <2> QED
    BY <1>4, <2>1, KeepHost, KeepGpu, KeepP2P, KeepSync, SMTT(30) DEF DrainIdle, outcome, handoff
<1>5. CASE FlushDone
  <2>1. DrainType'
    BY <1>5 DEF FlushDone, DrainType, dctl, scanVars, tails, batchVars, stagingVars
  <2>2. SyncType'
    BY <1>5, Zenon DEF FlushDone, DrainType, SyncType, barrierVars
  <2> QED
    BY <1>5, <2>1, <2>2, KeepHost, KeepGpu, KeepP2P, SMTT(30) DEF FlushDone, handoff
<1>6. CASE StagingSpace
  <2>1. DrainType'
    BY <1>6, SMTT(30) DEF StagingSpace, DrainType, dctl, scanVars, tails, batchVars, stagingVars
  <2> QED
    BY <1>6, <2>1, KeepHost, KeepGpu, KeepP2P, KeepSync, SMTT(30) DEF StagingSpace, outcome, handoff
<1>7. CASE CopyD2H
  <2>1. \A j \in Int : payload[(BatchStart + j) % PayloadCap] \in Nat
    BY ModRange, CapAssumption, SMTT(30) DEF GpuType, DrainType, BatchStart
  <2>2. \A c \in 0 .. StagingCap - 1 : (c - stgHead) % StagingCap \in Int
    BY ModRange, CapAssumption DEF DrainType
  <2>3. staging' \in [0 .. StagingCap - 1 -> Nat]
    BY <1>7, <2>1, <2>2, SMTT(30) DEF CopyD2H, DrainType
  <2>4. DrainType'
    BY <1>7, <2>3, Zenon DEF CopyD2H, DrainType, dctl, scanVars, tails, batchVars
  <2> QED
    BY <1>7, <2>4, KeepHost, KeepGpu, KeepP2P, KeepSync, Zenon DEF CopyD2H, outcome, handoff
<1>8. CASE CopyFails
  <2>1. DrainType'
    BY <1>8, Zenon DEF CopyFails, DrainType, dctl, scanVars, tails, batchVars, stagingVars
  <2>2. SyncType'
    BY <1>8, Zenon DEF CopyFails, SyncType, barrierVars
  <2> QED
    BY <1>8, <2>1, <2>2, KeepHost, KeepGpu, KeepP2P, Zenon DEF CopyFails, handoff
<1>9. CASE CommitTail
  <2>1. DrainType'
    BY <1>9, Zenon DEF CommitTail, DrainType, dctl, scanVars, stagingVars
  <2> QED
    BY <1>9, <2>1, KeepHost, KeepGpu, KeepP2P, KeepSync, Zenon DEF CommitTail, outcome, handoff
<1>10. CASE SubmitOne
  <2> DEFINE i == submitted + 1
             t == [direct |-> 0, pos |-> stgHead + (EntryStart(i) - BatchStart),
                   len |-> scanned[i] - EntryStart(i)]
  <2>1. i \in 1 .. Len(scanned)
    BY <1>10 DEF SubmitOne, DrainInv, Batching, DrainType
  <2>2. t \in Task
    BY <2>1, EntryFacts, SMTT(30) DEF DrainType, Task
  <2>3. queue' = Append(queue, t) /\ enqueued' = enqueued + 1 /\ submitted' = i
    BY <1>10, SMTT(30) DEF SubmitOne
  <2> HIDE DEF t
  <2>4. P2PType'
    BY <1>10, <2>2, <2>3, SMTT(30) DEF SubmitOne, P2PType, p2pVars
  <2>5. DrainType'
    BY <1>10, <2>3 DEF SubmitOne, DrainType, dctl, scanVars, tails, stagingVars
  <2> QED
    BY <1>10, <2>4, <2>5, KeepHost, KeepGpu, KeepSync, SMTT(30) DEF SubmitOne, outcome
<1>11. CASE SubmitEnd
  <2>1. scanned' \in Seq(Nat)
    BY <1>11, SMTT(30) DEF SubmitEnd, DrainInv, Batching, DrainType
  <2>2. DrainType'
    BY <1>11, <2>1 DEF SubmitEnd, DrainType, dctl, tails
  <2> QED
    BY <1>11, <2>2, KeepHost, KeepGpu, KeepP2P, KeepSync, SMTT(30) DEF SubmitEnd, outcome, handoff
<1> QED
  BY <1>1, <1>2, <1>3, <1>4, <1>5, <1>6, <1>7, <1>8, <1>9, <1>10, <1>11, Zenon DEF DrainNext

\* The P2P thread's actions keep every variable in its type.
LEMMA P2PTypeStep ==
    ASSUME TypeOK, P2PInv, P2PNext
    PROVE  TypeOK'
<1> SUFFICES ASSUME HostType, GpuType, DrainType, P2PType, SyncType PROVE TypeOK'
  BY Zenon DEF TypeOK
<1> USE DEF TypeOK, othersOfP2P, hostVars
<1>1. CASE P2PTake
  <2>1. P2PType'
    BY <1>1, SMTT(30) DEF P2PTake, P2PType
  <2> QED
    BY <1>1, <2>1, KeepHost, KeepGpu, KeepDrain, KeepSync, Zenon DEF P2PTake, outcome, stagingVars
<1>2. CASE P2PCopy
  <2> DEFINE t == local[cursor]
  <2>1. t \in Task
    BY <1>2 DEF P2PCopy, P2PInv, P2PType
  <2>2. \A c \in Int : staging[c % StagingCap] \in Nat
    BY ModRange, CapAssumption, Zenon DEF DrainType
  <2>3. {staging[c % StagingCap] : c \in t.pos .. t.pos + t.len - 1} \subseteq Nat
    BY <2>1, <2>2 DEF Task
  <2>4. t.len \in Nat /\ t.direct \in Nat
    BY <2>1, SMTT(30) DEF Task
  <2> DEFINE ids == IF t.direct > 0 THEN {t.direct}
                    ELSE {staging[c % StagingCap] : c \in t.pos .. t.pos + t.len - 1}
  <2>5. /\ out' = [id |-> 0, size |-> 0, len |-> t.len, ids |-> ids]
        /\ ppc' = "deliver"
        /\ UNCHANGED <<othersOfP2P, stgTail, queue, local, cursor, processed>>
    BY <1>2, Zenon DEF P2PCopy
  <2>6. ids \in SUBSET Nat
    BY <2>3, <2>4, Zenon
  <2> HIDE DEF t, ids
  <2>7. out' \in [id : Nat, size : Nat, ids : SUBSET Nat, len : Nat]
    BY <2>4, <2>5, <2>6, Zenon
  <2>8. P2PType'
    BY <2>5, <2>7, Zenon DEF P2PType
  <2> QED
    BY <2>5, <2>8, KeepHost, KeepGpu, KeepDrain, KeepSync, Zenon DEF outcome, stagingVars
<1>3. CASE P2PDeliver
  <2>1. local[cursor].len \in Nat
    <3>1. local[cursor] \in Task
      BY <1>3 DEF P2PDeliver, P2PInv, P2PType
    <3> QED
      BY <3>1, Zenon DEF Task
  <2>2. DrainType'
    BY <1>3, <2>1, SMTT(30) DEF P2PDeliver, DrainType, drainVars, dctl, scanVars, tails, batchVars
  <2>3. out' \in [id : Nat, size : Nat, ids : SUBSET Nat, len : Nat] /\ metas' \in Seq(Kernel)
    <3>1. CASE metas = <<>>
      BY <1>3, <3>1 DEF P2PDeliver, P2PType, NoOut
    <3>2. CASE metas # <<>>
      <4>1. Head(metas) \in Kernel /\ Tail(metas) \in Seq(Kernel)
        BY <3>2 DEF P2PType
      <4>2. Head(metas).id \in Nat /\ Head(metas).size \in Nat
        BY <4>1, Zenon DEF Kernel
      <4> QED
        BY <1>3, <3>2, <4>1, <4>2, Zenon DEF P2PDeliver, P2PType
    <3> QED
      BY <3>1, <3>2, Zenon
  <2>4. P2PType'
    BY <1>3, <2>3, SMTT(30) DEF P2PDeliver, P2PType, handoff
  <2> QED
    BY <1>3, <2>2, <2>4, KeepHost, KeepGpu, KeepSync, Zenon DEF P2PDeliver, outcome
<1>4. CASE P2PExit
  <2>1. P2PType'
    BY <1>4, Zenon DEF P2PExit, P2PType
  <2> QED
    BY <1>4, <2>1, KeepHost, KeepGpu, KeepDrain, KeepSync, Zenon DEF P2PExit, outcome, stagingVars
<1> QED
  BY <1>1, <1>2, <1>3, <1>4, Zenon DEF P2PNext

\* The barrier's actions keep every variable in its type.
LEMMA BarrierTypeStep ==
    ASSUME TypeOK, BarrierNext
    PROVE  TypeOK'
<1> SUFFICES ASSUME HostType, GpuType, DrainType, P2PType, SyncType PROVE TypeOK'
  BY Zenon DEF TypeOK
<1> USE DEF TypeOK, othersOfBarrier, workers, handoff, outcome
<1>1. CASE BarrierStart
  <2>1. HostType'
    BY <1>1, OneFewer, Zenon DEF BarrierStart, HostType, acct, workers
  <2>2. SyncType'
    BY <1>1, SMTT(30) DEF BarrierStart, HostType, SyncType
  <2> QED
    BY <1>1, <2>1, <2>2, KeepGpu, KeepDrain, KeepP2P, Zenon DEF BarrierStart
<1>2. CASE BarrierFlush
  <2>1. SyncType'
    BY <1>2 DEF BarrierFlush, SyncType
  <2> QED
    BY <1>2, <2>1, KeepHost, KeepGpu, KeepDrain, KeepP2P, SMTT(30) DEF BarrierFlush
<1>3. CASE BarrierFlushed
  <2>1. SyncType'
    BY <1>3, Zenon DEF BarrierFlushed, P2PType, SyncType
  <2> QED
    BY <1>3, <2>1, KeepHost, KeepGpu, KeepDrain, KeepP2P, Zenon DEF BarrierFlushed
<1>4. CASE BarrierReturn
  <2>1. SyncType'
    BY <1>4, Zenon DEF BarrierReturn, SyncType
  <2> QED
    BY <1>4, <2>1, KeepHost, KeepGpu, KeepDrain, KeepP2P, Zenon DEF BarrierReturn
<1>5. CASE BarrierTimeout
  <2>1. SyncType'
    BY <1>5, Zenon DEF BarrierTimeout, SyncType
  <2> QED
    BY <1>5, <2>1, KeepHost, KeepGpu, KeepDrain, KeepP2P, Zenon DEF BarrierTimeout
<1> QED
  BY <1>1, <1>2, <1>3, <1>4, <1>5, Zenon DEF BarrierNext

-----------------------------------------------------------------------------
(* The host's step and the P2P batch.                                       *)

\* The host never touches the state of the GPU rings and the worker threads.
LEMMA HostKeepsWorkers == HostNext => UNCHANGED <<workers, barrierVars>>
BY Zenon DEF HostNext, PrepareStep, Warmup, HostFlushRequest, HostFlushReturn, ReserveFlushed,
       PushMetas, AbandonStep, LaunchHook, EagerLaunch, EagerFlush, EagerStrip,
       EagerFlushedLaunch, EagerRefused, SubmitCpuDirect, RequestFlush, Stop, StopDrain,
       StopP2P

-----------------------------------------------------------------------------
(* The steps of the host.                                                   *)

\* A finished hook leaves the step at its next hook, or over.
LEMMA HookDoneStep ==
    ASSUME HostType, StepInv, step.plan \in Plans, HookDone
    PROVE  StepInv'
<1>1. Len(step.plan) \in Nat \ {0} /\ step.hook \in 1 .. Len(step.plan)
  BY PlanFacts, Zenon DEF StepInv
<1>2. CASE step.hook = Len(step.plan)
  <2>1. hpc' = "idle" /\ step'.plan = <<>>
    BY <1>2 DEF HookDone, NoStep
  <2>2. <<>> \notin Plans
    BY PlansAssumption, ZenonT(40)
  <2> QED
    BY <2>1, <2>2, Zenon DEF StepInv, Heading
<1>3. CASE step.hook # Len(step.plan)
  <2>1. /\ hpc' = "forward" /\ step'.plan = step.plan /\ step'.eager = step.eager
        /\ step'.hook = step.hook + 1
    BY <1>3, Zenon DEF HookDone, HostType, StepRecord
  <2> QED
    BY <1>1, <1>3, <2>1 DEF StepInv, Heading
<1> QED
  BY <1>2, <1>3, Zenon

\* Only the host moves through a step, and it does so in order.
LEMMA StepInvStep ==
    ASSUME TypeOK, StepInv, Next
    PROVE  StepInv'
<1> SUFFICES ASSUME HostType PROVE StepInv'
  BY Zenon DEF TypeOK
<1>1. ASSUME NEW p \in Plans, NEW e \in BOOLEAN, PrepareStep(p, e) PROVE StepInv'
  <2> DEFINE oversized == Bytes(p) > EffectiveCap \/ Len(p) > TaskCap
  <2>1. /\ step'.plan = p /\ step'.hook = 1 /\ step'.eager = (oversized \/ e)
        /\ step'.after = IF oversized \/ e THEN "commit" ELSE "reserve"
        /\ hpc' \in {"sync", "commit"}
    BY <1>1, Zenon DEF PrepareStep
  <2>2. Len(p) \in Nat \ {0} /\ Bytes(p) \in Nat /\ EffectiveCap \in Nat
    BY PlanFacts, CapAssumption, ZenonT(40) DEF EffectiveCap
  <2>3. CASE oversized \/ e
    <3>1. step'.eager /\ step'.after = "commit"
      BY <2>1, <2>3, ZenonT(40)
    <3> QED
      BY <2>1, <2>2, <3>1 DEF StepInv, Heading
  <2>4. CASE ~(oversized \/ e)
    <3>1. ~step'.eager /\ step'.after = "reserve"
      BY <2>1, <2>4, Zenon
    <3>2. Bytes(p) <= EffectiveCap /\ Len(p) <= TaskCap
      BY <2>2, <2>4, CapAssumption
    <3> QED
      BY <2>1, <2>2, <3>1, <3>2 DEF StepInv, Heading
  <2> QED
    BY <2>3, <2>4, Zenon
<1>2. ASSUME NEW p \in Plans, Warmup(p) PROVE StepInv'
  BY <1>2, Zenon DEF Warmup, StepInv, Heading, HookSize
<1>3. CASE HostFlushRequest
  <2>1. /\ step'.plan = step.plan /\ step'.hook = step.hook /\ step'.eager = step.eager
        /\ step'.after = step.after /\ hpc' \in {"wait", step.after} /\ hpc = "sync"
    BY <1>3, Zenon DEF HostFlushRequest, HostType, StepRecord
  <2> QED
    BY <2>1, Zenon DEF StepInv, Heading, HookSize, HostType, StepRecord
<1>4. CASE HostFlushReturn
  BY <1>4, Zenon DEF HostFlushReturn, StepInv, Heading, HookSize, HostType, StepRecord
<1>5. CASE ReserveFlushed
  BY <1>5, Zenon DEF ReserveFlushed, StepInv, Heading, HookSize
<1>6. CASE PushMetas
  BY <1>6, Zenon DEF PushMetas, StepInv, Heading, HookSize
<1>7. CASE AbandonStep
  <2>1. hpc' = "idle" /\ step'.plan = <<>>
    BY <1>7, Zenon DEF AbandonStep, NoStep
  <2> QED
    BY <2>1, PlansAssumption, Zenon DEF StepInv, Heading
<1>8. CASE LaunchHook \/ EagerLaunch \/ EagerFlushedLaunch \/ SubmitCpuDirect
  <2>1. step.plan \in Plans /\ HookDone
    BY <1>8, ZenonT(40) DEF LaunchHook, EagerLaunch, EagerFlushedLaunch, SubmitCpuDirect, StepInv, Heading
  <2> QED
    BY <2>1, HookDoneStep, Zenon
<1>9. CASE EagerFlush
  <2>1. /\ step'.plan = step.plan /\ step'.hook = step.hook /\ step'.eager = step.eager
        /\ step'.after = IF HookSize <= EffectiveCap THEN "hook" ELSE "direct"
        /\ hpc' = "sync" /\ hpc = "forward" /\ step.eager
    BY <1>9, Zenon DEF EagerFlush, HostType, StepRecord
  <2> QED
    BY <2>1 DEF StepInv, Heading, HookSize
<1>10. CASE EagerStrip
  <2>1. /\ step'.plan = step.plan /\ step'.hook = step.hook /\ step'.eager = step.eager
        /\ step'.after = "direct" /\ hpc' = "sync" /\ hpc = "forward" /\ step.eager
    BY <1>10, ZenonT(40) DEF EagerStrip, HostType, StepRecord
  <2> QED
    BY <2>1, Zenon DEF StepInv, Heading, HookSize
<1>11. CASE EagerRefused
  BY <1>11, SMTT(20) DEF EagerRefused, StepInv, Heading
<1>12. CASE Stop
  <2>1. hpc' = "sync" /\ step'.plan = <<>> /\ step'.after = "stop"
    BY <1>12, SMTT(20) DEF Stop, NoStep
  <2> QED
    BY <2>1, PlansAssumption, Zenon DEF StepInv, Heading
<1>13. CASE StopDrain \/ StopP2P
  BY <1>13, Zenon DEF StopDrain, StopP2P, StepInv, Heading
<1>14. CASE UNCHANGED <<hpc, step>>
  BY <1>14, Zenon DEF StepInv, Heading, HookSize
<1>15. RequestFlush \/ GpuNext \/ DrainNext \/ P2PNext \/ BarrierNext \/ Done
          => UNCHANGED <<hpc, step>>
  BY Zenon DEF RequestFlush, GpuNext, KernelCopy, KernelPublish, DrainNext, DrainTop, ScanReady,
         FlushStateUpdate, DrainIdle, FlushDone, StagingSpace, CopyD2H, CopyFails, CommitTail,
         SubmitOne, SubmitEnd, P2PNext, P2PTake, P2PCopy, P2PDeliver, P2PExit, BarrierNext,
         BarrierStart, BarrierFlush, BarrierFlushed, BarrierReturn, BarrierTimeout, Done,
         othersOfDrain, othersOfP2P, othersOfBarrier, hostVars, vars
<1> QED
  BY <1>1, <1>2, <1>3, <1>4, <1>5, <1>6, <1>7, <1>8, <1>9, <1>10, <1>11, <1>12, <1>13,
     <1>14, <1>15, Zenon DEF Next, HostNext

\* The P2P thread's cursor stays inside its batch.
LEMMA P2PInvStep ==
    ASSUME TypeOK, P2PInv, Next
    PROVE  P2PInv'
<1> SUFFICES ASSUME P2PType PROVE P2PInv'
  BY Zenon DEF TypeOK
<1>1. CASE P2PTake
  BY <1>1 DEF P2PTake, P2PInv, P2PType
<1>2. CASE P2PCopy
  BY <1>2, Zenon DEF P2PCopy, P2PInv
<1>3. CASE P2PDeliver
  BY <1>3, SMTT(30) DEF P2PDeliver, P2PInv, P2PType
<1>4. CASE P2PExit
  BY <1>4, Zenon DEF P2PExit, P2PInv
<1>5. CASE UNCHANGED p2pVars
  BY <1>5, Zenon DEF p2pVars, P2PInv
<1>6. GpuNext \/ DrainNext \/ BarrierNext \/ Done => UNCHANGED p2pVars
  BY Zenon DEF GpuNext, KernelCopy, KernelPublish, DrainNext, DrainTop, ScanReady,
         FlushStateUpdate, DrainIdle, FlushDone, StagingSpace, CopyD2H, CopyFails, CommitTail,
         SubmitOne, SubmitEnd, BarrierNext, BarrierStart, BarrierFlush, BarrierFlushed,
         BarrierReturn, BarrierTimeout, Done, othersOfDrain, othersOfBarrier, workers, vars
<1>7. HostNext => UNCHANGED p2pVars
  BY HostKeepsWorkers, Zenon DEF workers
<1> QED
  BY <1>1, <1>2, <1>3, <1>4, <1>5, <1>6, <1>7, Zenon DEF Next, P2PNext

-----------------------------------------------------------------------------
(* The drain thread's bookkeeping.                                          *)

\* A step that leaves the drain thread, the heads and the stream alone keeps
\* its invariant.
LEMMA DrainKeep ==
    DrainInv /\ UNCHANGED <<failed, copying, stream, gpuTaskHead, drainVars>> => DrainInv'
BY SMTT(30) DEF DrainInv, drainVars, dctl, scanVars, tails, batchVars, Batching, BatchStart, EntryStart

\* The host only ever appends to a stream that is not empty.
LEMMA HostStream ==
    ASSUME HostNext
    PROVE  \/ stream' = stream \/ stream = <<>>
           \/ stream' = Append(stream, [id |-> hooks + 1, size |-> HookSize])
BY Zenon DEF HostNext, PrepareStep, Warmup, HostFlushRequest, HostFlushReturn, ReserveFlushed,
       PushMetas, AbandonStep, LaunchHook, EagerLaunch, EagerFlush, EagerStrip,
       EagerFlushedLaunch, EagerRefused, SubmitCpuDirect, RequestFlush, Stop, StopDrain,
       StopP2P, Launch

\* Scanning, taking a batch and handing it over keep the books.
LEMMA DrainInvStep ==
    ASSUME TypeOK, DrainInv, SlotInv, Next
    PROVE  DrainInv'
<1> SUFFICES ASSUME GpuType, DrainType, SyncType PROVE DrainInv'
  BY Zenon DEF TypeOK
<1> USE DEF Batching
<1>1. CASE HostNext
  <2>1. UNCHANGED <<failed, copying, gpuTaskHead, drainVars>>
    BY <1>1, HostKeepsWorkers, Zenon DEF workers, gpuVars, outcome
  <2>2. copying => stream' # <<>>
    BY <1>1, HostStream DEF DrainInv, GpuType
  <2> QED
    BY <2>1, <2>2, Zenon DEF DrainInv, drainVars, dctl, scanVars, tails, batchVars, BatchStart,
                      EntryStart
<1>2. CASE KernelCopy
  BY <1>2, Zenon DEF KernelCopy, DrainInv, hostVars, drainVars, dctl, scanVars, tails, batchVars,
              BatchStart, EntryStart
<1>3. CASE KernelPublish
  <2>1. /\ copying' = FALSE /\ gpuTaskHead' = gpuTaskHead + 1
        /\ UNCHANGED <<failed, drainVars>>
    BY <1>3, Zenon DEF KernelPublish
  <2>2. visibleHead <= gpuTaskHead'
    BY <2>1 DEF DrainInv, DrainType, GpuType
  <2> QED
    BY <2>1, <2>2, Zenon DEF DrainInv, drainVars, dctl, scanVars, tails, batchVars, BatchStart,
                      EntryStart
<1>4. CASE DrainTop
  BY <1>4, ZenonT(40) DEF DrainTop, DrainInv, othersOfDrain, hostVars, gpuVars, scanVars, tails, batchVars,
              outcome, BatchStart, EntryStart
<1>5. CASE ScanReady
  <2> DEFINE size == slots[Slot(visibleHead)]
  <2>1. /\ dpc = "scan" /\ Len(scanned) < TaskCap /\ size # Empty
        /\ scanned' = Append(scanned, ScanPosition + size) /\ visibleHead' = visibleHead + 1
        /\ UNCHANGED <<failed, copying, stream, gpuTaskHead, dpc, cpuTaskTail, cpuPayloadTail,
                       flushCount, flushBytes, submitted>>
    BY <1>5, Zenon DEF ScanReady, ScanMore, othersOfDrain, hostVars, gpuVars, tails, batchVars, outcome
  <2>2. ~failed /\ flushCount = 0 /\ flushBytes = 0 /\ Len(scanned) = visibleHead - cpuTaskTail
    BY <2>1 DEF DrainInv, DrainType
  <2>3. visibleHead < gpuTaskHead
    <3> SUFFICES ASSUME visibleHead >= gpuTaskHead PROVE FALSE
      BY DEF DrainType, GpuType
    <3>1. visibleHead \in gpuTaskHead .. cpuTaskTail + TaskCap - 1
      BY <2>1, <2>2, CapAssumption DEF DrainType, GpuType
    <3> QED
      BY <2>1, <2>2, <3>1, Zenon DEF SlotInv
  <2>4. size \in Nat /\ size <= StagingCap
    <3>1. Slot(visibleHead) \in 0 .. TaskCap - 1
      BY SlotRange, Zenon DEF DrainType
    <3>2. size \in Nat
      BY <2>1, <3>1, Zenon DEF GpuType
    <3>3. visibleHead \in cpuTaskTail .. gpuTaskHead - 1
      BY <2>3 DEF DrainInv, DrainType, GpuType
    <3> QED
      BY <2>2, <3>2, <3>3, Zenon DEF SlotInv
  <2> HIDE DEF size
  <2>5. BatchStart = cpuPayloadTail /\ BatchStart' = cpuPayloadTail
    BY <2>1, <2>2 DEF BatchStart, DrainType
  <2>6. /\ Len(scanned') = Len(scanned) + 1 /\ Len(scanned) \in Nat
        /\ scanned'[Len(scanned) + 1] = ScanPosition + size
        /\ \A k \in 1 .. Len(scanned) : scanned'[k] = scanned[k] /\ scanned[k] \in Nat
    BY <2>1, SMTT(30) DEF DrainType
  <2>7. /\ ScanPosition \in Nat /\ (scanned = <<>> => ScanPosition = cpuPayloadTail)
        /\ scanned # <<>> => ScanPosition = scanned[Len(scanned)] /\ Len(scanned) >= 1
        /\ \A k \in 1 .. Len(scanned) : scanned[k] <= ScanPosition
    BY <2>6, SMTT(30) DEF ScanPosition, DrainInv, DrainType
  <2>8. \A j, k \in 1 .. Len(scanned') : j <= k => scanned'[j] <= scanned'[k]
    BY <2>4, <2>6, <2>7, SMTT(30) DEF DrainInv
  <2>9. scanned' # <<>> => BatchStart' <= scanned'[1]
    <3>1. CASE scanned = <<>>
      BY <2>4, <2>5, <2>6, <2>7, <3>1 DEF DrainType
    <3>2. CASE scanned # <<>>
      BY <2>5, <2>6, <2>7, <3>2 DEF DrainInv
    <3> QED
      BY <3>1, <3>2, Zenon
  <2>10. ASSUME NEW k \in 1 .. Len(scanned') PROVE (scanned[k] - EntryStart(k) <= StagingCap)'
    <3>1. CASE k = Len(scanned) + 1
      <4>1. EntryStart(k)' = ScanPosition
        BY <2>5, <2>6, <2>7, <3>1 DEF EntryStart, DrainType
      <4> QED
        BY <2>4, <2>6, <2>7, <3>1, <4>1, CapAssumption
    <3>2. CASE k # Len(scanned) + 1
      <4>1. k \in 1 .. Len(scanned) /\ EntryStart(k)' = EntryStart(k)
        BY <2>5, <2>6, <3>2, SMTT(30) DEF EntryStart
      <4> QED
        BY <2>6, <4>1, Zenon DEF DrainInv
    <3> QED
      BY <3>1, <3>2, Zenon
  <2> QED
    BY <2>1, <2>2, <2>3, <2>6, <2>8, <2>9, <2>10, SMTT(30) DEF DrainInv, DrainType, GpuType
<1>6. CASE FlushStateUpdate
  <2>1. PICK n \in 1 .. Len(scanned) : /\ cpuTaskTail' = cpuTaskTail + n
                                       /\ cpuPayloadTail' = scanned[n] /\ flushCount' = n
                                       /\ flushBytes' = scanned[n] - cpuPayloadTail
    BY <1>6, Zenon DEF FlushStateUpdate
  <2>2. /\ dpc = "scan" /\ dpc' = "space"
        /\ UNCHANGED <<failed, copying, stream, gpuTaskHead, visibleHead, scanned, submitted>>
    BY <1>6, Zenon DEF FlushStateUpdate, othersOfDrain, hostVars, gpuVars, scanVars, outcome
  <2>3. /\ ~failed /\ flushCount = 0 /\ flushBytes = 0 /\ submitted = 0
        /\ Len(scanned) = visibleHead - cpuTaskTail
    BY <2>2 DEF DrainInv, DrainType
  <2>4. n \in Nat /\ scanned[n] \in Nat /\ cpuPayloadTail <= scanned[n]
    BY <2>1, <2>3, EntryFacts, SMTT(30) DEF BatchStart, DrainType
  <2>5. BatchStart' = BatchStart
    BY <2>1, <2>3, <2>4 DEF BatchStart, DrainType
  <2>6. \A k \in 1 .. Len(scanned) : EntryStart(k)' = EntryStart(k)
    BY <2>2, <2>5, ZenonT(40) DEF EntryStart
  <2> QED
    BY <2>1, <2>2, <2>3, <2>4, <2>5, <2>6, SMTT(30) DEF DrainInv, DrainType
<1>7. CASE DrainIdle \/ FlushDone
  BY <1>7, SMTT(30) DEF DrainIdle, FlushDone, DrainInv, othersOfDrain, hostVars, gpuVars, scanVars, tails,
              batchVars, outcome, BatchStart, EntryStart
<1>8. CASE StagingSpace \/ CopyD2H
  <2>1. CASE StagingSpace
    BY <2>1, SMTT(30) DEF StagingSpace, DrainInv, othersOfDrain, hostVars, gpuVars, scanVars,
              tails, batchVars, outcome, BatchStart, EntryStart
  <2>2. CASE CopyD2H
    BY <2>2, SMTT(30) DEF CopyD2H, DrainInv, othersOfDrain, hostVars, gpuVars, scanVars,
              tails, batchVars, outcome, BatchStart, EntryStart
  <2> QED
    BY <1>8, <2>1, <2>2, ZenonT(40)
<1>9. CASE CopyFails
  BY <1>9, SMTT(30) DEF CopyFails, DrainInv, othersOfDrain, hostVars, gpuVars, scanVars, tails,
              batchVars, BatchStart, EntryStart
<1>10. CASE CommitTail
  BY <1>10, SMTT(30) DEF CommitTail, DrainInv, DrainType, othersOfDrain, hostVars, gpuVars, scanVars,
               outcome, BatchStart, EntryStart
<1>11. CASE SubmitOne
  BY <1>11 DEF SubmitOne, DrainInv, DrainType, othersOfDrain, hostVars, gpuVars, scanVars, tails,
               outcome, BatchStart, EntryStart
<1>12. CASE SubmitEnd
  <2>1. /\ dpc = "submit" /\ dpc' \in {"top", "scan"}
        /\ flushCount' = 0 /\ flushBytes' = 0 /\ submitted' = 0
        /\ scanned' = SubSeq(scanned, flushCount + 1, Len(scanned))
        /\ UNCHANGED <<failed, copying, stream, gpuTaskHead, visibleHead, cpuTaskTail,
                       cpuPayloadTail>>
    BY <1>12, Zenon DEF SubmitEnd, othersOfDrain, hostVars, gpuVars, tails, outcome
  <2>2. /\ ~failed /\ flushCount \in 1 .. Len(scanned) /\ Len(scanned) \in Nat
        /\ cpuPayloadTail = scanned[flushCount]
        /\ Len(scanned) = visibleHead - cpuTaskTail + flushCount
    BY <2>1 DEF DrainInv, DrainType
  <2>3. /\ Len(scanned') = Len(scanned) - flushCount
        /\ \A k \in 1 .. Len(scanned') : scanned'[k] = scanned[flushCount + k]
    BY <2>1, <2>2 DEF DrainType
  <2>4. BatchStart' = scanned[flushCount]
    BY <2>1, <2>2, SMTT(30) DEF BatchStart, DrainType
  <2>5. \A k \in 1 .. Len(scanned') : EntryStart(k)' = EntryStart(flushCount + k)
    BY <2>2, <2>3, <2>4, SMTT(30) DEF EntryStart
  <2>6. \A j, k \in 1 .. Len(scanned') : j <= k => scanned'[j] <= scanned'[k]
    BY <2>2, <2>3, SMTT(30) DEF DrainInv
  <2>7. scanned' # <<>> => BatchStart' <= scanned'[1]
    BY <2>2, <2>3, <2>4, SMTT(30) DEF DrainInv, DrainType
  <2>8. \A k \in 1 .. Len(scanned') : (scanned[k] - EntryStart(k) <= StagingCap)'
    BY <2>2, <2>3, <2>5, SMTT(30) DEF DrainInv
  <2>9. (Len(scanned) = visibleHead - cpuTaskTail + flushCount /\ flushBytes <= cpuPayloadTail)'
    BY <2>1, <2>2, <2>3, SMTT(30) DEF DrainType
  <2> QED
    BY <2>1, <2>2, <2>6, <2>7, <2>8, <2>9, Zenon DEF DrainInv
<1>13. CASE P2PNext \/ BarrierNext \/ Done
  BY <1>13, DrainKeep, ZenonT(40) DEF P2PNext, P2PTake, P2PCopy, P2PDeliver, P2PExit, BarrierNext,
         BarrierStart, BarrierFlush, BarrierFlushed, BarrierReturn, BarrierTimeout, Done,
         othersOfP2P, othersOfBarrier, hostVars, gpuVars, workers, outcome, vars
<1> QED
  BY <1>1, <1>2, <1>3, <1>4, <1>5, <1>6, <1>7, <1>8, <1>9, <1>10, <1>11, <1>12, <1>13, Zenon
     DEF Next, GpuNext, DrainNext

-----------------------------------------------------------------------------
(* The publication slots.                                                   *)

\* A step that leaves the slots, their bounds and the stream alone keeps them.
LEMMA SlotKeep ==
    SlotInv /\ UNCHANGED <<stream, failed, gpuTaskHead, cpuTaskTail, slots>> => SlotInv'
BY DEF SlotInv

\* Every hook that is launched fits staging.
LEMMA LaunchFits ==
    ASSUME TypeOK, StepInv, LaunchHook \/ EagerLaunch \/ EagerFlushedLaunch
    PROVE  HookSize \in Nat /\ HookSize <= StagingCap
<1>1. EffectiveCap \in Nat /\ EffectiveCap <= StagingCap
  BY CapAssumption, SMTT(30) DEF EffectiveCap
<1>2. step.plan \in Plans
  BY Zenon DEF LaunchHook, EagerLaunch, EagerFlushedLaunch, StepInv, Heading
<1>3. HookSize \in Nat /\ HookSize <= Bytes(step.plan) /\ Bytes(step.plan) \in Nat
  BY <1>2, HookFacts, PlanFacts, ZenonT(40)
<1>4. HookSize <= EffectiveCap
  BY <1>1, <1>2, <1>3, SMTT(30)
     DEF LaunchHook, EagerLaunch, EagerFlushedLaunch, EagerRoom, StepInv, Heading
<1> QED
  BY <1>1, <1>3, <1>4, CapAssumption

\* Whatever a host action puts on the stream fits staging.
LEMMA HostStreamFits ==
    ASSUME TypeOK, StepInv, SlotInv, HostNext
    PROVE  \A i \in 1 .. Len(stream') : stream'[i].size <= StagingCap
<1>1. GpuType
  BY ZenonT(40) DEF TypeOK
<1>2. CASE LaunchHook \/ EagerLaunch \/ EagerFlushedLaunch
  <2>1. stream' = Append(stream, [id |-> hooks + 1, size |-> HookSize])
    BY <1>2, Zenon DEF LaunchHook, EagerLaunch, EagerFlushedLaunch, Launch
  <2>2. HookSize <= StagingCap
    BY <1>2, LaunchFits, SMTT(30)
  <2>3. \A i \in 1 .. Len(stream') :
           stream'[i] = IF i = Len(stream) + 1 THEN [id |-> hooks + 1, size |-> HookSize]
                                               ELSE stream[i]
    BY <1>1, <2>1 DEF GpuType
  <2>4. Len(stream') = Len(stream) + 1 /\ Len(stream) \in Nat
    BY <1>1, <2>1 DEF GpuType
  <2> QED
    BY <2>2, <2>3, <2>4 DEF SlotInv
<1>3. ASSUME NEW p \in Plans, Warmup(p)
      PROVE  \A i \in 1 .. Len(stream') : stream'[i].size <= StagingCap
  <2>1. EffectiveCap \in Nat /\ EffectiveCap <= StagingCap
    BY CapAssumption DEF EffectiveCap
  <2>2. /\ Len(p) \in Nat /\ Bytes(p) \in Nat /\ Bytes(p) <= EffectiveCap
        /\ \A i \in 1 .. Len(p) : Size(p, i) \in Nat /\ Size(p, i) <= Bytes(p)
    BY <1>3, PlanFacts, Zenon DEF Warmup
  <2>3. \A i \in 1 .. Len(p) : Size(p, i) <= StagingCap
    BY <2>1, <2>2, CapAssumption
  <2>4. stream' = [i \in 1 .. Len(p) |-> [id |-> 0, size |-> Size(p, i)]] /\ Len(stream') = Len(p)
    BY <1>3, <2>2 DEF Warmup
  <2> QED
    BY <2>3, <2>4, Zenon
<1>4. CASE stream' = stream
  BY <1>4, Zenon DEF SlotInv
<1> QED
  BY <1>2, <1>3, <1>4, Zenon DEF HostNext, PrepareStep, HostFlushRequest, HostFlushReturn,
       ReserveFlushed, PushMetas, AbandonStep, EagerFlush, EagerStrip, EagerRefused,
       SubmitCpuDirect, RequestFlush, Stop, StopDrain, StopP2P

\* Publishing fills the next empty slot; a flush empties the slots it takes,
\* which are then free for the lap that follows.
LEMMA SlotInvStep ==
    ASSUME RingInv, Next
    PROVE  SlotInv'
<1> SUFFICES ASSUME TypeOK, HostType, GpuType, DrainType, StepInv, DrainInv, SlotInv, AcctInv
             PROVE  SlotInv'
  BY Zenon DEF RingInv, TypeOK
<1>1. CASE HostNext
  <2>1. UNCHANGED <<failed, gpuTaskHead, cpuTaskTail, slots>>
    BY <1>1, HostKeepsWorkers, Zenon DEF workers, gpuVars, outcome, drainVars, tails
  <2>2. \A i \in 1 .. Len(stream') : stream'[i].size <= StagingCap
    BY <1>1, HostStreamFits, SMTT(30)
  <2> QED
    BY <2>1, <2>2, Zenon DEF SlotInv
<1>2. CASE KernelPublish
  <2> DEFINE k == Head(stream)
  <2>1. /\ stream # <<>> /\ slots' = [slots EXCEPT ![Slot(gpuTaskHead)] = k.size]
        /\ gpuTaskHead' = gpuTaskHead + 1 /\ stream' = Tail(stream)
        /\ UNCHANGED <<failed, cpuTaskTail>>
    BY <1>2, Zenon DEF KernelPublish, DrainInv, drainVars, tails
  <2>2. k.size \in Nat /\ Len(stream) \in Nat /\ Len(stream) >= 1 /\ k = stream[1]
    BY <2>1, HeadKernel, SMTT(30) DEF GpuType
  <2>3. k.size <= StagingCap
    BY <2>2, SMTT(30) DEF SlotInv
  <2>4. \A i \in 1 .. Len(stream') : stream'[i].size <= StagingCap
    <3>1. Len(stream') = Len(stream) - 1 /\ \A i \in 1 .. Len(stream') : stream'[i] = stream[i + 1]
      BY <2>1, <2>2, SMTT(30) DEF GpuType
    <3> QED
      BY <2>2, <3>1 DEF SlotInv
  <2>5. ASSUME ~failed
        PROVE  /\ gpuTaskHead' <= cpuTaskTail' + TaskCap
               /\ \A i \in cpuTaskTail' .. gpuTaskHead' - 1 :
                     slots'[Slot(i)] # Empty /\ slots'[Slot(i)] <= StagingCap
               /\ \A i \in gpuTaskHead' .. cpuTaskTail' + TaskCap - 1 :
                     slots'[Slot(i)] = Empty
    <3>1. TaskCap \in Nat \ {0} /\ gpuTaskHead \in Nat /\ cpuTaskTail \in Nat
      BY CapAssumption, Zenon DEF GpuType, DrainType
    <3>2. Remaining \in Nat
      <4>1. Reserved => step.plan \in Plans /\ step.hook \in 1 .. Len(step.plan)
        BY Zenon DEF Reserved, StepInv
      <4> QED
        BY <4>1, PlanFacts DEF Remaining
    <3>3. gpuTaskHead < cpuTaskTail + TaskCap
      BY <2>2, <2>5, <3>1, <3>2, SMTT(30) DEF AcctInv, Launched
    <3>4. cpuTaskTail <= gpuTaskHead
      BY DEF DrainInv, DrainType, GpuType
    <3>6. slots'[Slot(gpuTaskHead)] = k.size
      BY <2>1, <3>1, SlotRange, Zenon DEF GpuType
    <3>7. ASSUME NEW i \in cpuTaskTail .. cpuTaskTail + TaskCap - 1, i # gpuTaskHead
          PROVE  slots'[Slot(i)] = slots[Slot(i)]
      <4>1. i \in Nat
        BY <3>1
      <4>2. Slot(i) # Slot(gpuTaskHead)
        BY <3>1, <3>3, <3>4, <3>7, <4>1, SlotWindow, SMTT(30)
      <4> QED
        BY <2>1, SlotRange, <4>1, <4>2, Zenon DEF GpuType
    <3> HIDE DEF k
    <3>8. k.size # Empty
      BY <2>2, SMTT(30) DEF Empty
    <3>9. ASSUME NEW i \in cpuTaskTail .. gpuTaskHead
          PROVE  slots'[Slot(i)] # Empty /\ slots'[Slot(i)] <= StagingCap
      BY <2>3, <2>5, <3>1, <3>3, <3>6, <3>7, <3>8, SMTT(30) DEF SlotInv
    <3>10. ASSUME NEW i \in gpuTaskHead + 1 .. cpuTaskTail + TaskCap - 1
           PROVE  slots'[Slot(i)] = Empty
      BY <2>5, <3>1, <3>4, <3>7, SMTT(30) DEF SlotInv
    <3> QED
      BY <2>1, <3>1, <3>3, <3>9, <3>10
  <2> QED
    BY <2>1, <2>4, <2>5, SMTT(30) DEF SlotInv
<1>3. CASE FlushStateUpdate
  <2>1. PICK n \in 1 .. Len(scanned) :
           /\ slots' = [k \in DOMAIN slots |->
                          IF \E i \in cpuTaskTail .. cpuTaskTail + n - 1 : k = Slot(i)
                          THEN Empty ELSE slots[k]]
           /\ cpuTaskTail' = cpuTaskTail + n
    BY <1>3, Zenon DEF FlushStateUpdate
  <2>2. dpc = "scan" /\ UNCHANGED <<failed, stream, gpuTaskHead>>
    BY <1>3, Zenon DEF FlushStateUpdate, othersOfDrain, hostVars, gpuVars, outcome
  <2>3. /\ TaskCap \in Nat \ {0} /\ gpuTaskHead \in Nat /\ cpuTaskTail \in Nat
        /\ Len(scanned) \in Nat /\ n \in Nat \ {0}
    BY CapAssumption, SMTT(30) DEF GpuType, DrainType
  <2>4. ~failed /\ cpuTaskTail + n <= gpuTaskHead
    BY <2>2, <2>3 DEF DrainInv, DrainType, Batching
  <2>5. gpuTaskHead <= cpuTaskTail + TaskCap
    BY <2>4, Zenon DEF SlotInv
  <2>7. ASSUME NEW i \in cpuTaskTail + n .. cpuTaskTail + TaskCap - 1
        PROVE  slots'[Slot(i)] = slots[Slot(i)]
    <3>1. i \in Nat
      BY <2>3
    <3>2. ASSUME NEW j \in cpuTaskTail .. cpuTaskTail + n - 1 PROVE Slot(i) # Slot(j)
      BY <2>3, <3>1, SlotWindow
    <3> QED
      BY <2>1, SlotRange, <3>1, <3>2, Zenon DEF GpuType
  <2>8. ASSUME NEW i \in cpuTaskTail + TaskCap .. cpuTaskTail + n + TaskCap - 1
        PROVE  slots'[Slot(i)] = Empty
    <3>1. i \in Nat /\ i - TaskCap \in cpuTaskTail .. cpuTaskTail + n - 1 /\ i - TaskCap \in Nat
      BY <2>3
    <3>2. Slot(i - TaskCap) = Slot(i)
      <4>1. (i - TaskCap) + TaskCap = i
        BY <2>3, <3>1, SMTT(30)
      <4> QED
        BY <3>1, <4>1, SlotLap, Zenon
    <3> QED
      BY <2>1, SlotRange, <3>1, <3>2, Zenon DEF GpuType
  <2>9. ASSUME NEW i \in cpuTaskTail + n .. gpuTaskHead - 1
        PROVE  slots'[Slot(i)] # Empty /\ slots'[Slot(i)] <= StagingCap
    BY <2>3, <2>4, <2>5, <2>7, SMTT(30) DEF SlotInv
  <2>10. ASSUME NEW i \in gpuTaskHead .. cpuTaskTail + n + TaskCap - 1
         PROVE  slots'[Slot(i)] = Empty
    BY <2>3, <2>4, <2>7, <2>8, SMTT(30) DEF SlotInv
  <2>11. cpuTaskTail' = cpuTaskTail + n
    BY <2>1, Zenon
  <2>12. \A i \in cpuTaskTail' .. gpuTaskHead' - 1 :
            slots'[Slot(i)] # Empty /\ slots'[Slot(i)] <= StagingCap
    BY <2>2, <2>9, <2>11, Zenon
  <2>13. \A i \in gpuTaskHead' .. cpuTaskTail' + TaskCap - 1 : slots'[Slot(i)] = Empty
    BY <2>2, <2>10, <2>11, Zenon
  <2>14. \A i \in 1 .. Len(stream') : stream'[i].size <= StagingCap
    BY <2>2, Zenon DEF SlotInv
  <2>15. gpuTaskHead' <= cpuTaskTail' + TaskCap
    BY <2>2, <2>3, <2>5, <2>11
  <2> QED
    BY <2>12, <2>13, <2>14, <2>15, Zenon DEF SlotInv
<1>4. CASE CopyFails
  <2>1. failed' /\ stream' = stream
    BY <1>4, Zenon DEF CopyFails, othersOfDrain, hostVars
  <2> QED
    BY <2>1, Zenon DEF SlotInv
<1>5. KernelCopy \/ DrainTop \/ ScanReady \/ DrainIdle \/ FlushDone \/ StagingSpace \/ CopyD2H
         \/ CommitTail \/ SubmitOne \/ SubmitEnd \/ P2PNext \/ BarrierNext \/ Done
      => UNCHANGED <<stream, failed, gpuTaskHead, cpuTaskTail, slots>>
  BY Zenon DEF KernelCopy, DrainTop, ScanReady, DrainIdle, FlushDone, StagingSpace, CopyD2H,
         CommitTail, SubmitOne, SubmitEnd, P2PNext, P2PTake, P2PCopy, P2PDeliver, P2PExit,
         BarrierNext, BarrierStart, BarrierFlush, BarrierFlushed, BarrierReturn,
         BarrierTimeout, Done, othersOfDrain, othersOfP2P, othersOfBarrier, hostVars, gpuVars,
         workers, outcome, drainVars, tails, vars
<1> QED
  BY <1>1, <1>2, <1>3, <1>4, <1>5, SlotKeep, Zenon DEF Next, GpuNext, DrainNext

-----------------------------------------------------------------------------
(* Flush generations and the reservation accounting.                        *)

\* When do_full_flush returns nothing is scanned or published any more: every
\* entry fits staging, so an empty batch means that nothing is pending.
LEMMA FullFlush ==
    ASSUME TypeOK, DrainInv, SlotInv, FlushDone
    PROVE  ~failed /\ gpuTaskHead = cpuTaskTail
<1> SUFFICES ASSUME GpuType, DrainType PROVE ~failed /\ gpuTaskHead = cpuTaskTail
  BY Zenon DEF TypeOK
<1>1. dpc = "scan" /\ ~ScanMore /\ NoBatch
  BY Zenon DEF FlushDone
<1>2. ~failed /\ flushCount = 0 /\ flushBytes = 0 /\ Len(scanned) = visibleHead - cpuTaskTail
  BY <1>1 DEF DrainInv, Batching, DrainType
<1>3. scanned = <<>>
  <2> SUFFICES ASSUME scanned # <<>> PROVE FALSE
    BY Zenon
  <2>1. 1 \in 1 .. Len(scanned) /\ scanned[1] \in Nat
    BY DEF DrainType
  <2>2. EntryStart(1) = cpuPayloadTail
    BY <1>2 DEF EntryStart, BatchStart, DrainType
  <2>3. scanned[1] - cpuPayloadTail <= StagingCap
    BY <2>1, <2>2, Zenon DEF DrainInv
  <2> QED
    BY <1>1, <2>3, Zenon DEF NoBatch, Fits
<1>4. visibleHead = cpuTaskTail
  BY <1>2, <1>3 DEF DrainType
<1>5. slots[Slot(visibleHead)] = Empty
  BY <1>1, <1>3, CapAssumption DEF ScanMore
<1>6. gpuTaskHead = cpuTaskTail
  <2> SUFFICES ASSUME gpuTaskHead # cpuTaskTail PROVE FALSE
    BY ZenonT(40)
  <2>1. visibleHead \in cpuTaskTail .. gpuTaskHead - 1
    BY <1>4 DEF DrainInv, DrainType, GpuType
  <2> QED
    BY <1>2, <1>5, <2>1, Zenon DEF SlotInv
<1> QED
  BY <1>2, <1>6, Zenon

\* A batch takes published entries only.
LEMMA BatchTakesPublished ==
    ASSUME TypeOK, DrainInv, FlushStateUpdate
    PROVE  cpuTaskTail < gpuTaskHead /\ \E n \in Nat : cpuTaskTail' = cpuTaskTail + n
<1> SUFFICES ASSUME GpuType, DrainType
             PROVE  cpuTaskTail < gpuTaskHead /\ \E n \in Nat : cpuTaskTail' = cpuTaskTail + n
  BY Zenon DEF TypeOK
<1>1. PICK n \in 1 .. Len(scanned) : cpuTaskTail' = cpuTaskTail + n
  BY ZenonT(40) DEF FlushStateUpdate
<1>2. dpc = "scan" /\ Len(scanned) \in Nat /\ n \in Nat /\ n >= 1
  BY SMTT(30) DEF FlushStateUpdate, DrainType
<1>3. Len(scanned) = visibleHead - cpuTaskTail /\ visibleHead <= gpuTaskHead
  BY <1>2 DEF DrainInv, Batching, DrainType
<1>4. cpuTaskTail < gpuTaskHead
  BY <1>2, <1>3 DEF DrainType, GpuType
<1> QED
  BY <1>1, <1>2, <1>4, Zenon

\* A generation is completed only by a flush that emptied the ring, and the
\* host launches nothing while it waits for one.
LEMMA FlushInvStep ==
    ASSUME TypeOK, DrainInv, SlotInv, FlushInv, Next
    PROVE  FlushInv'
<1> SUFFICES ASSUME HostType, GpuType, DrainType, SyncType PROVE FlushInv'
  BY SMTT(30) DEF TypeOK
<1>1. CASE HostNext
  <2>1. UNCHANGED <<completed, failed, gpuTaskHead, cpuTaskTail, dgen>>
    BY <1>1, HostKeepsWorkers, ZenonT(40) DEF workers, outcome, gpuVars, drainVars, tails, dctl
  <2>2. CASE HostFlushRequest
    <3>1. /\ hpc = "sync" /\ stream' = stream /\ stream = <<>>
          /\ \/ failed /\ requested' = requested /\ hpc' = step.after
             \/ hpc' = "wait" /\ requested' = requested + 1 /\ step'.gen = requested + 1
      BY <2>2, Zenon DEF HostFlushRequest, HostType, StepRecord
    <3>2. step.after \in {"idle", "commit", "reserve", "hook", "direct", "stop"}
      BY Zenon DEF HostType, StepRecord
    <3> QED
      BY <2>1, <3>1, <3>2 DEF FlushInv, DrainType, SyncType
  <2>3. CASE HostFlushReturn
    <3>1. /\ hpc = "wait" /\ completed >= step.gen /\ hpc' = step.after
          /\ UNCHANGED <<stream, requested>>
      BY <2>3, Zenon DEF HostFlushReturn
    <3>2. step.after \in {"idle", "commit", "reserve", "hook", "direct", "stop"}
      BY Zenon DEF HostType, StepRecord
    <3> QED
      BY <2>1, <3>1, <3>2, Zenon DEF FlushInv
  <2>4. CASE hpc' \notin {"wait", "reserve"} /\ requested' = requested
    BY <2>1, <2>4, Zenon DEF FlushInv
  <2>5. CASE UNCHANGED <<hpc, step, stream, requested>>
    BY <2>1, <2>5, Zenon DEF FlushInv
  <2> QED
    BY <1>1, <2>2, <2>3, <2>4, <2>5, ZenonT(40) DEF HostNext, PrepareStep, Warmup, ReserveFlushed,
       PushMetas, AbandonStep, LaunchHook, EagerLaunch, EagerFlush, EagerStrip,
       EagerFlushedLaunch, EagerRefused, SubmitCpuDirect, RequestFlush, Stop, StopDrain,
       StopP2P, HookDone
<1>2. CASE GpuNext
  <2>1. stream # <<>> /\ UNCHANGED <<hpc, requested, completed, dgen>>
    BY <1>2, Zenon DEF GpuNext, KernelCopy, KernelPublish, DrainInv, hostVars, drainVars, dctl
  <2> QED
    BY <2>1, Zenon DEF FlushInv
<1>3. CASE FlushDone
  <2>1. UNCHANGED <<hpc, step, stream, requested, failed, gpuTaskHead, cpuTaskTail>>
    BY <1>3, Zenon DEF FlushDone, othersOfDrain, hostVars, gpuVars, tails
  <2>2. (completed' = dgen /\ dgen' = 0) \/ (completed' = completed /\ dgen' = dgen)
    BY <1>3, Zenon DEF FlushDone, dctl
  <2>3. gpuTaskHead = cpuTaskTail
    BY <1>3, FullFlush, Zenon
  <2> QED
    BY <2>1, <2>2, <2>3 DEF FlushInv, SyncType
<1>4. CASE DrainTop
  <2>1. /\ dgen' \in {dgen, requested}
        /\ UNCHANGED <<hpc, step, stream, requested, completed, failed, gpuTaskHead, cpuTaskTail>>
    BY <1>4, ZenonT(40) DEF DrainTop, dctl, othersOfDrain, hostVars, gpuVars, tails, outcome
  <2> QED
    BY <2>1 DEF FlushInv, SyncType
<1>5. CASE FlushStateUpdate
  <2>1. UNCHANGED <<hpc, step, stream, requested, completed, failed, gpuTaskHead, dgen>>
    BY <1>5, Zenon DEF FlushStateUpdate, dctl, othersOfDrain, hostVars, gpuVars, outcome
  <2>2. cpuTaskTail < gpuTaskHead
    BY <1>5, BatchTakesPublished, Zenon
  <2>3. ~failed
    BY <1>5, Zenon DEF FlushStateUpdate, DrainInv
  <2> QED
    BY <2>1, <2>2, <2>3 DEF FlushInv, GpuType, DrainType
<1>6. CASE CopyFails
  <2>1. failed' /\ completed' = requested /\ UNCHANGED <<hpc, stream, requested, dgen>>
    BY <1>6, ZenonT(40) DEF CopyFails, dctl, othersOfDrain, hostVars
  <2> QED
    BY <2>1 DEF FlushInv, SyncType
<1>7. CASE BarrierFlush
  <2>1. /\ requested' \in {requested, requested + 1}
        /\ UNCHANGED <<hpc, step, stream, completed, failed, gpuTaskHead, cpuTaskTail, dgen>>
    BY <1>7, Zenon DEF BarrierFlush, othersOfBarrier, workers, outcome, gpuVars, drainVars, tails, dctl
  <2> QED
    BY <2>1 DEF FlushInv, SyncType, DrainType
<1>8. CASE UNCHANGED <<hpc, step, stream, requested, completed, failed, gpuTaskHead,
                       cpuTaskTail, dgen>>
  BY <1>8, Zenon DEF FlushInv
<1>9. ScanReady \/ DrainIdle \/ StagingSpace \/ CopyD2H \/ CommitTail \/ SubmitOne \/ SubmitEnd
         \/ P2PNext \/ BarrierStart \/ BarrierFlushed \/ BarrierReturn \/ BarrierTimeout \/ Done
      => UNCHANGED <<hpc, step, stream, requested, completed, failed, gpuTaskHead, cpuTaskTail,
                     dgen>>
  BY Zenon DEF ScanReady, DrainIdle, StagingSpace, CopyD2H, CommitTail, SubmitOne, SubmitEnd,
         P2PNext, P2PTake, P2PCopy, P2PDeliver, P2PExit, BarrierStart, BarrierFlushed,
         BarrierReturn, BarrierTimeout, Done, othersOfDrain, othersOfP2P, othersOfBarrier,
         hostVars, gpuVars, workers, outcome, drainVars, dctl, tails, vars
<1> QED
  BY <1>1, <1>2, <1>3, <1>4, <1>5, <1>6, <1>7, <1>8, <1>9, Zenon DEF Next, DrainNext, BarrierNext

\* The hooks a step has reserved and not launched are a number of hooks.
LEMMA RemainingNat ==
    ASSUME TypeOK, StepInv
    PROVE  Remaining \in Nat /\ Launched \in Nat
<1>1. Launched \in Nat
  BY DEF Launched, TypeOK, GpuType
<1>2. Reserved => Len(step.plan) \in Nat \ {0} /\ step.hook \in 1 .. Len(step.plan)
  BY PlanFacts, Zenon DEF StepInv, Reserved
<1> QED
  BY <1>1, <1>2 DEF Remaining

\* DrainThread::reserve starts above everything that was launched: above the
\* head when it covers the stream, above the tail after a drained warmup.
LEMMA LiftCovers ==
    ASSUME TypeOK, StepInv, AcctInv, ~Reserved,
           warm => stream = <<>> /\ gpuTaskHead = cpuTaskTail
    PROVE  /\ LiftTo(cpuTaskHead, cpuTaskTail) \in Nat
           /\ Launched <= LiftTo(cpuTaskHead, cpuTaskTail)
<1>1. cpuTaskHead \in Nat /\ cpuTaskTail \in Nat /\ gpuTaskHead \in Nat /\ Len(stream) \in Nat
  BY DEF TypeOK, HostType, GpuType, DrainType
<1>2. Remaining = 0
  BY Zenon DEF Remaining
<1>3. CASE warm
  BY <1>1, <1>3 DEF Launched, LiftTo
<1>4. CASE ~warm
  BY <1>1, <1>2, <1>4, SMTT(30) DEF Launched, LiftTo, AcctInv
<1> QED
  BY <1>3, <1>4, Zenon

\* A reservation that passed the room check stays within the task ring.
LEMMA RoomBounds ==
    ASSUME TypeOK, NEW n \in Nat \ {0}, n <= AvailableTaskSlots
    PROVE  LiftTo(cpuTaskHead, cpuTaskTail) + n <= cpuTaskTail + TaskCap
BY CapAssumption DEF TypeOK, HostType, DrainType, AvailableTaskSlots, Room, LiftTo

\* A hook of an eager step leaves no reservation behind, and one of a reserved
\* step leaves one less.
LEMMA HookDoneRemaining ==
    ASSUME TypeOK, StepInv, step.plan \in Plans, HookDone
    PROVE  /\ step.eager => ~Reserved' /\ Remaining' = 0
           /\ Reserved => Remaining' = Remaining - 1
           /\ hpc' \in {"idle", "forward"} /\ (hpc' = "forward" => step'.eager = step.eager)
<1>1. Len(step.plan) \in Nat \ {0} /\ step.hook \in 1 .. Len(step.plan) /\ step \in StepRecord
  BY PlanFacts, ZenonT(40) DEF StepInv, TypeOK, HostType
<1>2. CASE step.hook = Len(step.plan)
  <2>1. hpc' = "idle"
    BY <1>2, ZenonT(40) DEF HookDone
  <2> QED
    BY <1>1, <1>2, <2>1 DEF Reserved, Remaining
<1>3. CASE step.hook # Len(step.plan)
  <2>1. /\ hpc' = "forward" /\ step'.plan = step.plan /\ step'.eager = step.eager
        /\ step'.hook = step.hook + 1
    BY <1>1, <1>3, Zenon DEF HookDone, StepRecord
  <2> QED
    BY <1>1, <2>1, SMTT(30) DEF Reserved, Remaining
<1> QED
  BY <1>2, <1>3, Zenon

\* The host's steps: a reservation is made above all launches and within the
\* ring, and every launch uses up a reserved slot.
LEMMA AcctHost ==
    ASSUME TypeOK, StepInv, FlushInv, AcctInv, HostNext
    PROVE  AcctInv'
<1> SUFFICES ASSUME HostType, GpuType, DrainType PROVE AcctInv'
  BY Zenon DEF TypeOK
<1>1. UNCHANGED <<failed, gpuTaskHead, cpuTaskTail>> /\ Remaining \in Nat /\ Launched \in Nat
  BY RemainingNat, HostKeepsWorkers, ZenonT(40) DEF workers, outcome, gpuVars, drainVars, tails
<1>2. /\ cpuTaskHead \in Nat /\ cpuTaskTail \in Nat /\ gpuTaskHead \in Nat
      /\ Len(stream) \in Nat /\ TaskCap \in Nat \ {0}
  BY CapAssumption DEF HostType, GpuType, DrainType
<1>3. ASSUME NEW p \in Plans, NEW e \in BOOLEAN, PrepareStep(p, e) PROVE AcctInv'
  <2> DEFINE oversized == Bytes(p) > EffectiveCap \/ Len(p) > TaskCap
  <2>1. /\ hpc = "idle" /\ stream' = stream /\ WarmupQuiesced /\ ~Reserved
        /\ step'.plan = p /\ step'.hook = 1 /\ step'.eager = (oversized \/ e)
    BY <1>3, Zenon DEF PrepareStep, Reserved
  <2>2. Len(p) \in Nat \ {0}
    BY PlanFacts, Zenon
  <2>3. Launched' = Launched /\ Remaining = 0
    BY <1>1, <2>1, Zenon DEF Launched, Remaining
  <2>4. CASE UNCHANGED acct /\ ~Reserved'
    <3>1. Remaining' = 0
      BY <2>4, Zenon DEF Remaining
    <3> QED
      BY <1>1, <2>1, <2>3, <2>4, <3>1, Zenon DEF AcctInv, WarmupQuiesced, acct
  <2>5. CASE /\ ~(oversized \/ e) /\ Len(p) <= AvailableTaskSlots
             /\ hpc' = "commit" /\ Reserve(Bytes(p), Len(p))
    <3>1. Reserved' /\ Remaining' = Len(p)
      <4>1. ~step'.eager
        BY <2>1, <2>5, Zenon
      <4> QED
        BY <2>1, <2>2, <2>5, <4>1 DEF Reserved, Remaining
    <3>2. ~warm' /\ cpuTaskHead' = LiftTo(cpuTaskHead, cpuTaskTail) + Len(p)
      BY <2>5, Zenon DEF Reserve
    <3>3. /\ LiftTo(cpuTaskHead, cpuTaskTail) \in Nat
          /\ Launched <= LiftTo(cpuTaskHead, cpuTaskTail)
      BY <2>1, LiftCovers, Zenon DEF WarmupQuiesced
    <3>4. LiftTo(cpuTaskHead, cpuTaskTail) + Len(p) <= cpuTaskTail + TaskCap
      BY <2>2, <2>5, RoomBounds, Zenon
    <3> QED
      BY <1>1, <1>2, <2>2, <2>3, <3>1, <3>2, <3>3, <3>4, SMTT(30) DEF AcctInv
  <2> QED
    <3>1. CASE oversized \/ e
      <4>1. ~Reserved'
        BY <2>1, <3>1, Zenon DEF Reserved
      <4>2. UNCHANGED acct
        BY <1>3, <3>1, Zenon DEF PrepareStep
      <4> QED
        BY <2>4, <4>1, <4>2, Zenon
    <3>2. CASE ~(oversized \/ e) /\ hpc' = "sync" /\ UNCHANGED acct
      BY <2>4, <3>2, Zenon DEF Reserved
    <3> QED
      BY <1>3, <2>5, <3>1, <3>2, Zenon DEF PrepareStep
<1>4. ASSUME NEW p \in Plans, Warmup(p) PROVE AcctInv'
  <2>1. /\ hpc = "idle" /\ hpc' = "idle" /\ gpuTaskHead = cpuTaskTail
        /\ Len(p) <= TaskCap /\ warm'
    BY <1>4, Zenon DEF Warmup
  <2>2. Len(stream') = Len(p) /\ Len(p) \in Nat
    BY <1>4, PlanFacts DEF Warmup
  <2>3. ~Reserved' /\ Remaining' = 0
    BY <2>1, Zenon DEF Reserved, Remaining
  <2> QED
    BY <1>1, <1>2, <2>1, <2>2, <2>3 DEF AcctInv, Launched, InStep
<1>5. CASE ReserveFlushed
  <2>1. /\ hpc = "reserve" /\ hpc' = "commit" /\ step' = step /\ stream' = stream
        /\ Reserve(Bytes(step.plan), Len(step.plan)) /\ ~Reserved
    BY <1>5, Zenon DEF ReserveFlushed, Reserved
  <2>2. step.plan \in Plans /\ ~step.eager /\ step.hook = 1
    BY <2>1, Zenon DEF StepInv, Heading
  <2>3. Len(step.plan) \in Nat \ {0} /\ Len(step.plan) <= TaskCap
    BY <2>2, PlanFacts, Zenon DEF StepInv
  <2>4. Reserved' /\ Remaining' = Len(step.plan)
    BY <2>1, <2>2, <2>3 DEF Reserved, Remaining
  <2>5. ~warm' /\ cpuTaskHead' = LiftTo(cpuTaskHead, cpuTaskTail) + Len(step.plan)
    BY <2>1, Zenon DEF Reserve
  <2>6. /\ LiftTo(cpuTaskHead, cpuTaskTail) \in Nat
        /\ Launched <= LiftTo(cpuTaskHead, cpuTaskTail)
    BY <2>1, LiftCovers, Zenon DEF AcctInv, InStep
  <2>7. Launched' = Launched /\ (~failed => Launched = cpuTaskTail)
    BY <1>1, <1>2, <2>1 DEF FlushInv, Launched
  <2> QED
    BY <1>1, <1>2, <2>3, <2>4, <2>5, <2>6, <2>7, SMTT(30) DEF AcctInv
<1>6. CASE LaunchHook
  <2>1. Reserved /\ HookDone /\ UNCHANGED acct /\ step.plan \in Plans
    BY <1>6, Zenon DEF LaunchHook, Reserved, StepInv
  <2>2. Remaining' = Remaining - 1 /\ ~warm /\ ~warm' /\ cpuTaskHead' = cpuTaskHead
    BY <2>1, HookDoneRemaining, Zenon DEF AcctInv, acct
  <2>3. Len(stream') = Len(stream) + 1
    BY <1>6 DEF LaunchHook, Launch, GpuType
  <2>4. Launched' = Launched + 1
    BY <1>1, <1>2, <2>3, SMTT(30) DEF Launched
  <2> QED
    BY <1>1, <1>2, <2>2, <2>4 DEF AcctInv
<1>7. CASE EagerLaunch \/ EagerFlushedLaunch
  <2>1. /\ hpc \in {"forward", "hook"} /\ 1 <= AvailableTaskSlots /\ Reserve(HookSize, 1)
        /\ HookDone /\ Launch(hooks + 1, HookSize)
    BY <1>2, <1>7
       DEF EagerLaunch, EagerFlushedLaunch, EagerRoom, AvailableTaskSlots, Room
  <2>2. step.plan \in Plans /\ step.eager /\ ~Reserved
    BY <1>7, Zenon DEF EagerLaunch, EagerFlushedLaunch, StepInv, Heading, Reserved
  <2>3. Remaining' = 0 /\ ~Reserved'
    BY <2>1, <2>2, HookDoneRemaining, Zenon
  <2>4. ~warm' /\ cpuTaskHead' = LiftTo(cpuTaskHead, cpuTaskTail) + 1
    BY <2>1, Zenon DEF Reserve
  <2>5. /\ LiftTo(cpuTaskHead, cpuTaskTail) \in Nat
        /\ Launched <= LiftTo(cpuTaskHead, cpuTaskTail)
    BY <2>1, <2>2, LiftCovers, Zenon DEF AcctInv, InStep
  <2>6. LiftTo(cpuTaskHead, cpuTaskTail) + 1 <= cpuTaskTail + TaskCap
    BY <2>1, RoomBounds, SMTT(30)
  <2>7. Len(stream') = Len(stream) + 1
    BY <2>1, SMTT(30) DEF Launch, GpuType
  <2>8. Launched' = Launched + 1
    BY <1>1, <1>2, <2>7 DEF Launched
  <2> QED
    BY <1>1, <1>2, <2>3, <2>4, <2>5, <2>6, <2>8, SMTT(30) DEF AcctInv
<1>8. CASE SubmitCpuDirect
  <2>1. HookDone /\ step.plan \in Plans /\ step.eager /\ UNCHANGED <<acct, stream>>
    BY <1>8, Zenon DEF SubmitCpuDirect, StepInv, Heading
  <2>2. Remaining' = 0 /\ ~Reserved' /\ hpc' \in {"idle", "forward"}
    BY <2>1, HookDoneRemaining, Zenon
  <2>3. Launched' = Launched /\ InStep
    BY <1>1, <1>8, <2>1, Zenon DEF Launched, InStep, SubmitCpuDirect
  <2> QED
    BY <1>1, <1>2, <2>1, <2>2, <2>3, SMTT(30) DEF AcctInv, acct
<1>9. CASE UNCHANGED <<acct, stream>> /\ ~Reserved' /\ (InStep' => InStep)
  <2>1. Launched' = Launched /\ Remaining' = 0
    BY <1>1, <1>9, Zenon DEF Launched, Remaining
  <2> QED
    BY <1>1, <1>2, <1>9, <2>1 DEF AcctInv, acct
<1>10. CASE PushMetas
  <2>1. UNCHANGED <<acct, stream, step>> /\ hpc = "commit" /\ hpc' = "forward"
    BY <1>10, Zenon DEF PushMetas
  <2>2. Launched' = Launched /\ Remaining' = Remaining /\ (Reserved' <=> Reserved)
    BY <1>1, <2>1, Zenon DEF Launched, Remaining, Reserved
  <2>3. InStep
    BY <2>1, Zenon DEF InStep
  <2> QED
    BY <1>1, <2>1, <2>2, <2>3, Zenon DEF AcctInv, acct
<1>11. HostFlushRequest => UNCHANGED <<acct, stream>> /\ ~Reserved' /\ (InStep' => InStep)
  <2> SUFFICES ASSUME HostFlushRequest
               PROVE  UNCHANGED <<acct, stream>> /\ ~Reserved' /\ (InStep' => InStep)
    BY Zenon
  <2>1. /\ hpc = "sync" /\ UNCHANGED <<acct, stream>>
        /\ step'.after = step.after /\ step'.eager = step.eager
        /\ hpc' \in {"wait", step.after}
    BY Zenon DEF HostFlushRequest, HostType, StepRecord
  <2>2. /\ step.after \in {"idle", "commit", "reserve", "hook", "direct", "stop"}
        /\ step.after = "commit" => step.eager
    BY <2>1, Zenon DEF HostType, StepRecord, StepInv
  <2> QED
    BY <2>1, <2>2, Zenon DEF Reserved, InStep
<1>12. HostFlushReturn => UNCHANGED <<acct, stream>> /\ ~Reserved' /\ (InStep' => InStep)
  <2>1. hpc = "wait" => /\ step.after \in {"idle", "commit", "reserve", "hook", "direct", "stop"}
                        /\ step.after = "commit" => step.eager
    BY Zenon DEF HostType, StepRecord, StepInv
  <2> QED
    BY <2>1, Zenon DEF Reserved, InStep, HostFlushReturn
<1>13. EagerFlush \/ EagerStrip \/ EagerRefused \/ AbandonStep \/ RequestFlush \/ Stop
          \/ StopDrain \/ StopP2P
       => UNCHANGED <<acct, stream>> /\ ~Reserved' /\ (InStep' => InStep)
  BY Zenon DEF EagerFlush, EagerStrip, EagerRefused, AbandonStep, RequestFlush, Stop, StopDrain,
         StopP2P, Reserved, InStep, HostType, StepRecord, NoStep
<1> QED
  BY <1>3, <1>4, <1>5, <1>6, <1>7, <1>8, <1>9, <1>10, <1>11, <1>12, <1>13, Zenon DEF HostNext

\* The GPU turns a launched hook into a published one, the drain thread raises
\* the task tail; neither touches the reservations.
LEMMA AcctInvStep ==
    ASSUME TypeOK, StepInv, DrainInv, FlushInv, AcctInv, Next
    PROVE  AcctInv'
<1> SUFFICES ASSUME GpuType, DrainType, ~HostNext PROVE AcctInv'
  BY AcctHost, Zenon DEF TypeOK
<1>1. Remaining \in Nat /\ Launched \in Nat /\ cpuTaskTail \in Nat /\ TaskCap \in Nat
  BY RemainingNat, CapAssumption, ZenonT(40) DEF DrainType
<1>2. CASE KernelPublish
  <2>1. /\ stream # <<>> /\ gpuTaskHead' = gpuTaskHead + 1 /\ stream' = Tail(stream)
        /\ UNCHANGED <<hpc, step, acct, failed, cpuTaskTail>>
    BY <1>2, Zenon DEF KernelPublish, DrainInv, drainVars, tails
  <2>2. Launched' = Launched
    BY <2>1 DEF Launched, GpuType
  <2>3. ~(warm /\ InStep)
    BY <2>1, Zenon DEF AcctInv
  <2> QED
    BY <2>1, <2>2, <2>3, SMTT(30) DEF AcctInv, acct, Remaining, Reserved, InStep
<1>3. CASE FlushStateUpdate
  <2>1. cpuTaskTail < gpuTaskHead /\ UNCHANGED <<hpc, step, acct, failed, gpuTaskHead, stream>>
    BY <1>3, BatchTakesPublished, Zenon DEF FlushStateUpdate, othersOfDrain, hostVars, gpuVars, outcome
  <2>2. Launched' = Launched /\ Remaining' = Remaining
    BY <2>1, Zenon DEF Launched, Remaining, Reserved
  <2>3. ~(warm /\ InStep)
    BY <2>1 DEF AcctInv, GpuType, DrainType
  <2>4. ~failed => Launched + Remaining <= cpuTaskTail' + TaskCap
    <3>1. PICK n \in Nat : cpuTaskTail' = cpuTaskTail + n
      BY <1>3, BatchTakesPublished, Zenon
    <3>2. ~failed => Launched + Remaining <= cpuTaskTail + TaskCap
      BY Zenon DEF AcctInv
    <3> QED
      BY <1>1, <3>1, <3>2
  <2>5. UNCHANGED <<warm, cpuTaskHead>> /\ (Reserved' <=> Reserved) /\ (InStep' <=> InStep)
    BY <2>1, SMTT(30) DEF acct, Reserved, InStep
  <2> QED
    BY <2>1, <2>2, <2>3, <2>4, <2>5, SMTT(30) DEF AcctInv
<1>4. CASE CopyFails
  <2>1. failed' /\ UNCHANGED <<hpc, step, acct, gpuTaskHead, stream, cpuTaskTail>>
    BY <1>4, Zenon DEF CopyFails, othersOfDrain, hostVars, gpuVars, tails
  <2> QED
    BY <2>1, Zenon DEF AcctInv, acct, Launched, Remaining, Reserved, InStep
<1>5. CASE UNCHANGED <<hpc, step, acct, failed, gpuTaskHead, stream, cpuTaskTail>>
  BY <1>5, Zenon DEF AcctInv, acct, Launched, Remaining, Reserved, InStep
<1>6. KernelCopy \/ DrainTop \/ ScanReady \/ DrainIdle \/ FlushDone \/ StagingSpace \/ CopyD2H
         \/ CommitTail \/ SubmitOne \/ SubmitEnd \/ P2PNext \/ BarrierNext \/ Done
      => UNCHANGED <<hpc, step, acct, failed, gpuTaskHead, stream, cpuTaskTail>>
  BY Zenon DEF KernelCopy, DrainTop, ScanReady, DrainIdle, FlushDone, StagingSpace, CopyD2H,
         CommitTail, SubmitOne, SubmitEnd, P2PNext, P2PTake, P2PCopy, P2PDeliver, P2PExit,
         BarrierNext, BarrierStart, BarrierFlush, BarrierFlushed, BarrierReturn,
         BarrierTimeout, Done, othersOfDrain, othersOfP2P, othersOfBarrier, hostVars, gpuVars,
         workers, outcome, drainVars, tails, vars
<1> QED
  BY <1>2, <1>3, <1>4, <1>5, <1>6, Zenon DEF Next, GpuNext, DrainNext

-----------------------------------------------------------------------------
(* The theorems.                                                            *)

\* The engine starts with empty rings, idle threads and nothing reserved.
LEMMA InitInv == Init => RingInv
<1> SUFFICES ASSUME Init PROVE RingInv
  BY Zenon
<1> USE CapAssumption
<1>1. HostType
  <2>1. left \in Bounds
    BY BoundsAssumption, Zenon DEF Init
  <2>2. 0 \in Nat
    BY Zenon
  <2> QED
    BY <2>1, <2>2, NoStepType, Zenon DEF Init, HostType
<1>2. GpuType
  <2>1. <<>> \in Seq(Kernel)
    OBVIOUS
  <2>2. /\ slots \in [0 .. TaskCap - 1 -> Nat \cup {Empty}]
        /\ payload \in [0 .. PayloadCap - 1 -> Nat]
    BY ZenonT(40) DEF Init
  <2> QED
    BY <2>1, <2>2, Zenon DEF Init, GpuType
<1>3. DrainType
  BY DEF Init, DrainType
<1>4. P2PType /\ SyncType
  <2>1. <<>> \in Seq(Task) /\ <<>> \in Seq(Kernel)
    BY SMTT(30)
  <2>2. NoOut \in [id : Nat, size : Nat, ids : SUBSET Nat, len : Nat]
    <3>1. 0 \in Nat /\ {} \in SUBSET Nat
      OBVIOUS
    <3> QED
      BY <3>1, Zenon DEF NoOut
  <2> QED
    BY <2>1, <2>2, Zenon DEF Init, P2PType, SyncType
<1>5. StepInv
  <2>1. hpc = "idle" /\ step.plan = <<>> /\ <<>> \notin Plans
    BY PlansAssumption, SMTT(30) DEF Init, NoStep
  <2> QED
    BY <2>1, SMTT(30) DEF StepInv, Heading
<1>6. DrainInv
  BY SMTT(30) DEF Init, DrainInv, Batching, BatchStart
<1>7. SlotInv
  BY SlotRange, SMTT(30) DEF Init, SlotInv
<1>8. P2PInv /\ FlushInv
  BY SMTT(30) DEF Init, P2PInv, FlushInv
<1>9. AcctInv
  BY DEF Init, AcctInv, Launched, Remaining, Reserved, InStep
<1> QED
  BY <1>1, <1>2, <1>3, <1>4, <1>5, <1>6, <1>7, <1>8, <1>9, Zenon DEF RingInv, TypeOK

\* A stuttering step keeps every type.
LEMMA StutterType == TypeOK /\ UNCHANGED vars => TypeOK'
<1> SUFFICES ASSUME TypeOK, UNCHANGED vars PROVE TypeOK'
  BY Zenon
<1>1. HostType /\ GpuType /\ DrainType /\ P2PType /\ SyncType
  BY Zenon DEF TypeOK
<1>2. UNCHANGED <<hostVars, workers, handoff, requested, barrierVars>>
  BY Zenon DEF vars
<1>3. UNCHANGED <<hpc, step, acct, hooks, left, running, p2pStop, asyncUntil, stream, metas>>
  BY <1>2, Zenon DEF hostVars
<1>4. UNCHANGED <<gpuVars, slots, drainVars, stagingVars, p2pVars, completed, failed>>
  BY <1>2, Zenon DEF workers, outcome
<1>5. UNCHANGED <<queue, enqueued, requested, barrierVars>>
  BY <1>2, Zenon DEF handoff
<1>6. HostType' /\ GpuType'
  BY <1>1, <1>3, <1>4, KeepHost, KeepGpu, Zenon
<1>7. DrainType' /\ P2PType' /\ SyncType'
  BY <1>1, <1>3, <1>4, <1>5, KeepDrain, KeepP2P, KeepSync, Zenon
<1> QED
  BY <1>6, <1>7, Zenon DEF TypeOK

\* Every step of every thread preserves the invariant.
LEMMA NextInv == RingInv /\ [Next]_vars => RingInv'
<1>1. ASSUME RingInv, Next PROVE RingInv'
  <2>1. TypeOK /\ StepInv /\ DrainInv /\ SlotInv /\ P2PInv /\ FlushInv /\ AcctInv
    BY <1>1, Zenon DEF RingInv
  <2>2. TypeOK'
    <3>1. CASE Done
      BY <2>1, <3>1, StutterType, Zenon DEF Done
    <3> QED
      BY <1>1, <2>1, <3>1, HostTypeStep, GpuTypeStep, DrainTypeStep, P2PTypeStep,
         BarrierTypeStep, Zenon DEF Next
  <2>3. StepInv' /\ P2PInv'
    BY <1>1, <2>1, StepInvStep, P2PInvStep, Zenon
  <2>4. DrainInv'
    BY <1>1, <2>1, DrainInvStep, Zenon
  <2>5. SlotInv'
    BY <1>1, <2>1, SlotInvStep, Zenon
  <2>6. FlushInv' /\ AcctInv'
    BY <1>1, <2>1, FlushInvStep, AcctInvStep, Zenon
  <2> QED
    BY <2>2, <2>3, <2>4, <2>5, <2>6, Zenon DEF RingInv
<1>2. ASSUME RingInv, UNCHANGED vars PROVE RingInv'
  <2>1. TypeOK /\ StepInv /\ DrainInv /\ SlotInv /\ P2PInv /\ FlushInv /\ AcctInv
    BY <1>2, Zenon DEF RingInv
  <2>2. /\ UNCHANGED <<hpc, step, stream, cpuTaskHead, warm, copying, gpuTaskHead, slots>>
        /\ UNCHANGED <<dpc, dgen, visibleHead, scanned, cpuTaskTail, cpuPayloadTail>>
        /\ UNCHANGED <<flushCount, flushBytes, submitted, ppc, local, cursor>>
        /\ UNCHANGED <<completed, failed, requested>>
    BY <1>2, Zenon DEF vars, hostVars, acct, workers, gpuVars, drainVars, dctl, scanVars, tails,
                batchVars, p2pVars, outcome
  <2>3. TypeOK'
    BY <1>2, <2>1, StutterType, SMTT(20)
  <2>4. StepInv'
    BY <2>1, <2>2, Zenon DEF StepInv, Heading, HookSize
  <2>5. P2PInv'
    BY <2>1, <2>2, Zenon DEF P2PInv
  <2>6. DrainInv'
    BY <2>1, <2>2, ZenonT(30) DEF DrainInv, Batching, BatchStart, EntryStart
  <2>7. SlotInv'
    BY <2>1, <2>2, ZenonT(30) DEF SlotInv
  <2>8. FlushInv'
    BY <2>1, <2>2, Zenon DEF FlushInv
  <2>9. AcctInv'
    BY <2>1, <2>2, Zenon DEF AcctInv, Launched, Remaining, Reserved, InStep
  <2> QED
    BY <2>3, <2>4, <2>5, <2>6, <2>7, <2>8, <2>9, Zenon DEF RingInv
<1> QED
  BY <1>1, <1>2, Zenon

\* The invariant holds in every reachable state of the legacy ring.
THEOREM Invariance == Spec => []RingInv
BY InitInv, NextInv, PTL DEF Spec

\* Type correctness of host, producer, drain, P2P and barrier state.
THEOREM TypeCorrect == Spec => []TypeOK
<1>1. RingInv => TypeOK
  BY Zenon DEF RingInv
<1> QED
  BY <1>1, Invariance, PTL

\* No producer kernel ever publishes over a slot the drain thread has not
\* read, whatever the capacities and the steps: the reservations of
\* prepare_step and reserve_one, abandoned ones included, are enough.
THEOREM SlotSafety == Spec => []NoUnreadSlotOverwritten
<1>1. RingInv => NoUnreadSlotOverwritten
  <2> SUFFICES ASSUME RingInv PROVE NoUnreadSlotOverwritten
    BY Zenon
  <2>1. Remaining \in Nat /\ Launched \in Nat
    BY RemainingNat, ZenonT(40) DEF RingInv
  <2>2. /\ cpuTaskTail \in Nat /\ TaskCap \in Nat /\ gpuTaskHead \in Nat
        /\ Len(stream) \in Nat
    BY CapAssumption DEF RingInv, TypeOK, DrainType, GpuType
  <2>3. ~failed => Launched + Remaining <= cpuTaskTail + TaskCap
    BY Zenon DEF RingInv, AcctInv
  <2> QED
    BY <2>1, <2>2, <2>3 DEF NoUnreadSlotOverwritten, Launched
<1> QED
  BY <1>1, Invariance, PTL

\* After a failed D2H copy the drain thread only waits for stop: no further
\* entry is taken off the ring and no further task is handed over.
THEOREM FailureIsFinal == Spec => NothingDrainedAfterFailure
<1>1. ASSUME RingInv, [Next]_vars
      PROVE  [failed => cpuTaskTail' = cpuTaskTail /\ submitted' = submitted
                           /\ stgHead' = stgHead]_vars
  <2> SUFFICES ASSUME Next, failed
               PROVE  UNCHANGED <<cpuTaskTail, submitted, stgHead>>
    BY <1>1, Zenon
  <2>1. dpc \in {"top", "exit"}
    BY <1>1, Zenon DEF RingInv, DrainInv
  <2>2. CASE HostNext
    BY <2>2, HostKeepsWorkers, Zenon DEF workers, drainVars, tails, batchVars, stagingVars
  <2>3. CASE GpuNext
    BY <2>3, Zenon DEF GpuNext, KernelCopy, KernelPublish, drainVars, tails, batchVars, stagingVars
  <2>4. CASE DrainNext
    BY <2>1, <2>4, Zenon DEF DrainNext, DrainTop, ScanReady, FlushStateUpdate, DrainIdle, FlushDone,
         StagingSpace, CopyD2H, CopyFails, CommitTail, SubmitOne, SubmitEnd, tails, batchVars,
         stagingVars
  <2>5. CASE P2PNext
    BY <2>5, Zenon DEF P2PNext, P2PTake, P2PCopy, P2PDeliver, P2PExit, othersOfP2P, drainVars, tails,
         batchVars
  <2>6. CASE BarrierNext
    BY <2>6, Zenon DEF BarrierNext, BarrierStart, BarrierFlush, BarrierFlushed, BarrierReturn,
         BarrierTimeout, othersOfBarrier, workers, drainVars, tails, batchVars, stagingVars
  <2>7. CASE Done
    BY <2>7, Zenon DEF Done, vars, workers, drainVars, tails, batchVars, stagingVars
  <2> QED
    BY <2>2, <2>3, <2>4, <2>5, <2>6, <2>7, Zenon DEF Next
<1> QED
  BY <1>1, Invariance, PTL DEF Spec, NothingDrainedAfterFailure
=============================================================================
