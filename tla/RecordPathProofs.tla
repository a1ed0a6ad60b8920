-------------------------- MODULE RecordPathProofs --------------------------
(***************************************************************************)
(* The theorems about two parts of the record path.                         *)
(*                                                                          *)
(* Every pair the record consumer submits is a payload with its own         *)
(* descriptor, and an idle consumer has accounted for every record: proved  *)
(* for both failure policies, any number of records and steps, and any      *)
(* order of pushes, discard windows, failures and deliveries.               *)
(*                                                                          *)
(* AckedSurvives for any packs, sizes, stagers, upload workers and bounds:  *)
(* every step of the spool, the uploader, a crash and the recovery keeps    *)
(* SpoolInv.                                                                *)
(***************************************************************************)
EXTENDS RecordConsumer, SpoolUpload, FiniteSetTheorems, TLAPS

-----------------------------------------------------------------------------
(* The record consumer.                                                     *)

IInv == ConsumerTypeOK /\ PairingInv

Descriptor == [id : Nat, step : Nat]

\* A queue s with the k descriptors of one push appended.
PushedQueue(s, k, p, n) == s \o [i \in 1 .. k |-> [id |-> p + i, step |-> n]]
IsPushed(t, s, k, p) ==
    /\ t \in Seq(Descriptor)
    /\ Len(t) = Len(s) + k
    /\ \A i \in 1 .. Len(s) : t[i] = s[i]
    /\ \A i \in Len(s) + 1 .. Len(t) : t[i].id = p + (i - Len(s))

\* The descriptors one push appends are records, one per record pushed.
LEMMA PushedDescriptors ==
    ASSUME NEW s \in Seq(Descriptor), NEW k \in Nat, NEW p \in Nat, NEW n \in Nat
    PROVE  IsPushed(PushedQueue(s, k, p, n), s, k, p)
<1> DEFINE new == [i \in 1 .. k |-> [id |-> p + i, step |-> n]]
           t == PushedQueue(s, k, p, n)
<1>1. new \in [1 .. k -> Descriptor]
  BY DEF Descriptor
<1>2. \A i \in 1 .. k : new[i].id = p + i
  BY Zenon
<1>3. t = s \o new
  BY Zenon DEF PushedQueue
<1> HIDE DEF new, t
<1>4. new \in Seq(Descriptor) /\ Len(new) = k
  BY <1>1
<1>5. t \in Seq(Descriptor) /\ Len(t) = Len(s) + k
  <2>1. s \o new \in Seq(Descriptor)
    BY <1>4
  <2>2. Len(s \o new) = Len(s) + Len(new)
    BY <1>4
  <2> QED
    BY <1>3, <1>4, <2>1, <2>2, Zenon
<1>6. \A i \in 1 .. Len(s) : t[i] = s[i]
  BY <1>3, <1>4
<1>7. \A i \in Len(s) + 1 .. Len(t) : t[i] = new[i - Len(s)] /\ i - Len(s) \in 1 .. k
  BY <1>3, <1>4, <1>5
<1>8. \A i \in Len(s) + 1 .. Len(t) : t[i].id = p + (i - Len(s))
  BY <1>2, <1>7, SMTT(30)
<1> QED
  BY <1>5, <1>6, <1>8, Zenon DEF t, IsPushed

\* Taking the oldest descriptor shifts the queue by one.
LEMMA PoppedDescriptors ==
    ASSUME NEW s \in Seq(Descriptor), s # <<>>
    PROVE  /\ Tail(s) \in Seq(Descriptor)
           /\ Head(s).id \in Nat /\ Head(s) = s[1]
           /\ Len(s) \in Nat /\ Len(s) > 0 /\ Len(Tail(s)) = Len(s) - 1
           /\ \A i \in 1 .. Len(Tail(s)) : Tail(s)[i] = s[i + 1]
<1>1. Len(s) \in Nat /\ Len(s) > 0 /\ s[1] \in Descriptor
  OBVIOUS
<1>2. Head(s) = s[1] /\ Head(s).id \in Nat
  BY <1>1 DEF Descriptor
<1>3. Tail(s) \in Seq(Descriptor) /\ Len(Tail(s)) = Len(s) - 1
  BY <1>1
<1>4. \A i \in 1 .. Len(Tail(s)) : Tail(s)[i] = s[i + 1]
  BY <1>1, <1>3
<1> QED
  BY <1>1, <1>2, <1>3, <1>4, Zenon

\* Noting discarded steps keeps the step counters numbers.
LEMMA NotedSteps ==
    ASSUME ConsumerTypeOK, NEW ss \in Seq(Nat), NoteDiscarded(ss)
    PROVE  stepsWithDiscards' \in Nat /\ lastDiscarded' \in Nat /\ lostSteps' \subseteq Nat
<1> DEFINE prev(i) == IF i = 1 THEN lastDiscarded ELSE ss[i - 1]
           new == {i \in DOMAIN ss : ss[i] # prev(i)}
<1>1. DOMAIN ss = 1 .. Len(ss) /\ Len(ss) \in Nat
  OBVIOUS
<1>2. IsFiniteSet(1 .. Len(ss))
  BY <1>1, FS_Interval
<1>3. new \in SUBSET (1 .. Len(ss))
  BY <1>1, Zenon
<1>4. Cardinality(new) \in Nat
  BY <1>2, <1>3, FS_Subset, FS_CardinalityType, Zenon
<1>5. stepsWithDiscards' = stepsWithDiscards + Cardinality(new)
  BY Zenon DEF NoteDiscarded
<1>6. stepsWithDiscards' \in Nat
  <2> HIDE DEF new
  <2> QED
    BY <1>4, <1>5 DEF ConsumerTypeOK
<1>7. \A i \in 1 .. Len(ss) : ss[i] \in Nat
  BY <1>1
<1>8. lastDiscarded' \in Nat
  <2>1. lastDiscarded' = IF ss = <<>> THEN lastDiscarded ELSE ss[Len(ss)]
    BY Zenon DEF NoteDiscarded
  <2>2. ss # <<>> => Len(ss) \in 1 .. Len(ss)
    BY <1>1
  <2> QED
    BY <1>7, <2>1, <2>2, Zenon DEF ConsumerTypeOK
<1>9. lostSteps' \subseteq Nat
  <2>1. lostSteps' = lostSteps \cup {ss[i] : i \in DOMAIN ss}
    BY Zenon DEF NoteDiscarded
  <2> QED
    BY <1>1, <1>7, <2>1, Zenon DEF ConsumerTypeOK
<1> QED
  BY <1>6, <1>8, <1>9, Zenon

\* Pushing descriptors keeps the invariant.
LEMMA PushKeeps ==
    ASSUME IInv, policy' = policy, NEW k \in Pushes, Push(k)
    PROVE  IInv'
<1> USE DEF IInv
<1>1. k \in Nat /\ k > 0
  BY PushesAssumption
<1>2. descs \in Seq(Descriptor)
  BY Zenon DEF ConsumerTypeOK, Descriptor
<1>3. Len(descs) \in Nat
  BY <1>2
<1>4. pushed' = pushed + k /\ UNCHANGED <<workerVars, emitted, failed, discarding, active,
                                            discardedPayloads, rstep>>
  BY Zenon DEF Push, PushDescriptors
<1>5. Settled \in Int /\ Settled' = Settled /\ InHand' = InHand /\ Submitting' = Submitting
  BY <1>4 DEF Settled, InHand, Submitting, workerVars, ConsumerTypeOK
<1>6. WorkerInv'
  BY <1>1, <1>4 DEF ConsumerTypeOK, PairingInv, WorkerInv, SubmitsOwnPayload, workerVars
<1>7. CASE failed /\ Disable
  <2>1. discardedDescs' = discardedDescs + k
        /\ UNCHANGED <<descs, owed, stepsWithDiscards, lastDiscarded, lostSteps>>
    BY <1>7, Zenon DEF Push, PushDescriptors
  <2>2. ConsumerTypeOK'
    BY <1>1, <1>4, <2>1 DEF ConsumerTypeOK, workerVars
  <2>3. LatchedInv'
    BY <1>1, <1>4, <1>5, <1>7, <2>1 DEF ConsumerTypeOK, PairingInv, LatchedInv, workerVars, Submitting
  <2> QED
    BY <1>4, <1>6, <1>7, <2>2, <2>3, Zenon DEF PairingInv
<1>8. CASE ~failed /\ discarding
  <2>1. discardedDescs' = discardedDescs + k /\ owed' = owed + k /\ UNCHANGED descs
        /\ NoteDiscarded(<<rstep>>)
    BY <1>8, Zenon DEF Push, PushDescriptors
  <2>2. <<rstep>> \in Seq(Nat)
    BY DEF ConsumerTypeOK
  <2>3. stepsWithDiscards' \in Nat /\ lastDiscarded' \in Nat /\ lostSteps' \subseteq Nat
    BY <2>1, <2>2, NotedSteps, Zenon
  <2>4. ConsumerTypeOK'
    BY <1>1, <1>4, <2>1, <2>3 DEF ConsumerTypeOK, workerVars
  <2>5. QueueInv' /\ LiveInv'
    <3>1. descs = <<>> /\ descs' = <<>> /\ LiveInv
      BY <1>8, <2>1, Zenon DEF PairingInv, LiveInv
    <3> QED
      BY <1>1, <1>4, <1>5, <2>1, <3>1 DEF ConsumerTypeOK, QueueInv, LiveInv, workerVars
  <2> QED
    BY <1>4, <1>6, <1>8, <2>4, <2>5, Zenon DEF PairingInv
<1>9. CASE ~failed /\ ~discarding
  <2>1. descs' = PushedQueue(descs, k, pushed, rstep)
        /\ UNCHANGED <<discardedDescs, owed, stepsWithDiscards, lastDiscarded, lostSteps>>
    BY <1>9, Zenon DEF Push, PushDescriptors, PushedQueue
  <2>2. pushed \in Nat /\ rstep \in Nat
    BY Zenon DEF ConsumerTypeOK
  <2>3. /\ descs' \in Seq(Descriptor)
        /\ Len(descs') = Len(descs) + k
        /\ \A i \in 1 .. Len(descs) : descs'[i] = descs[i]
        /\ \A i \in Len(descs) + 1 .. Len(descs') : descs'[i].id = pushed + (i - Len(descs))
    <3>1. IsPushed(PushedQueue(descs, k, pushed, rstep), descs, k, pushed)
      BY <1>1, <1>2, <2>2, PushedDescriptors, Zenon
    <3>2. IsPushed(descs', descs, k, pushed)
      BY <2>1, <3>1, Zenon
    <3> QED
      BY <3>2, Zenon DEF IsPushed
  <2>4. ConsumerTypeOK'
    BY <1>1, <1>4, <2>1, <2>3, SMTT(30) DEF ConsumerTypeOK, workerVars, Descriptor
  <2>5. QueueInv'
    <3>1. pushed = Settled + owed + Len(descs) /\ owed \in Nat /\ owed' = owed
      BY <1>9, <2>1, Zenon DEF PairingInv, LiveInv, ConsumerTypeOK
    <3>2. \A i \in 1 .. Len(descs) : descs[i].id = Settled + owed + i
      BY <1>9, Zenon DEF PairingInv, QueueInv
    <3>3. \A i \in 1 .. Len(descs') : descs'[i].id = Settled + owed + i
      <4> TAKE i \in 1 .. Len(descs')
      <4>1. i \in 1 .. Len(descs) \/ i \in Len(descs) + 1 .. Len(descs')
        BY <1>1, <1>3, <2>3
      <4>2. CASE i \in 1 .. Len(descs)
        BY <2>3, <3>2, <4>2, Zenon
      <4>3. CASE i \in Len(descs) + 1 .. Len(descs')
        <5>1. descs'[i].id = pushed + (i - Len(descs))
          BY <2>3, <4>3, Zenon
        <5> QED
          BY <1>3, <1>5, <2>2, <3>1, <5>1
      <4> QED
        BY <4>1, <4>2, <4>3, Zenon
    <3> QED
      BY <1>5, <3>1, <3>3, Zenon DEF QueueInv
  <2>6. LiveInv'
    BY <1>1, <1>3, <1>4, <1>5, <1>9, <2>1, <2>3 DEF ConsumerTypeOK, PairingInv, LiveInv, workerVars
  <2> QED
    BY <1>4, <1>6, <1>9, <2>4, <2>5, <2>6, Zenon DEF PairingInv
<1> QED
  BY <1>7, <1>8, <1>9, Zenon DEF Push, PushDescriptors

\* Opening or closing a discard window keeps the invariant.
LEMMA WindowKeeps ==
    ASSUME IInv, policy' = policy, OpenWindow \/ CloseWindow
    PROVE  IInv'
<1> USE DEF IInv
<1>1. Len(descs) \in Nat /\ \A i \in 1 .. Len(descs) : descs[i].step \in Nat
  <2>1. descs \in Seq(Descriptor)
    BY Zenon DEF ConsumerTypeOK, Descriptor
  <2>2. Len(descs) \in Nat /\ \A i \in 1 .. Len(descs) : descs[i] \in Descriptor
    BY <2>1
  <2> QED
    BY <2>2, Zenon DEF Descriptor
<1>2. UNCHANGED <<workerVars, pushed, emitted, failed, active, discardedPayloads, rstep>>
  BY Zenon DEF OpenWindow, CloseWindow, BeginDiscardWindow, EndDiscardWindow, discardVars
<1>3. Settled \in Int /\ Settled' = Settled /\ Submitting' = Submitting
  BY <1>2 DEF Settled, InHand, Submitting, workerVars, ConsumerTypeOK
<1>4. WorkerInv'
  BY <1>2, Zenon DEF PairingInv, WorkerInv, SubmitsOwnPayload, workerVars
<1>5. CASE OpenWindow
  <2>1. /\ discarding' = TRUE /\ descs' = <<>>
        /\ discardedDescs' = discardedDescs + Len(descs) /\ owed' = owed + Len(descs)
        /\ NoteDiscarded([i \in 1 .. Len(descs) |-> descs[i].step])
    BY <1>5, Zenon DEF OpenWindow, BeginDiscardWindow
  <2>2. [i \in 1 .. Len(descs) |-> descs[i].step] \in Seq(Nat)
    BY <1>1
  <2>3. stepsWithDiscards' \in Nat /\ lastDiscarded' \in Nat /\ lostSteps' \subseteq Nat
    BY <2>1, <2>2, NotedSteps, SMTT(30)
  <2>4. descs' \in Seq([id : Nat, step : Nat])
    BY <2>1
  <2>5. ConsumerTypeOK'
    BY <1>1, <1>2, <2>1, <2>3, <2>4, SMTT(30) DEF ConsumerTypeOK, workerVars
  <2>6. ~failed => QueueInv' /\ LiveInv'
    <3>1. QueueInv'
      BY <2>1 DEF QueueInv
    <3>2. ASSUME ~failed PROVE LiveInv'
      <4>1. /\ pushed = Settled + owed + Len(descs) /\ refused = 0
            /\ stored + discardedPayloads + Submitting = Settled
            /\ discardedDescs = discardedPayloads + owed
        BY <3>2, Zenon DEF PairingInv, LiveInv
      <4>2. owed \in Nat /\ discardedPayloads \in Nat
        BY Zenon DEF ConsumerTypeOK
      <4> QED
        BY <1>1, <1>2, <1>3, <2>1, <4>1, <4>2, SMTT(30) DEF LiveInv, workerVars
    <3> QED
      BY <3>1, <3>2, Zenon
  <2>7. failed /\ Disable => LatchedInv'
    BY <1>1, <1>2, <1>3, <2>1, SMTT(30) DEF ConsumerTypeOK, PairingInv, LatchedInv, workerVars
  <2> QED
    BY <1>2, <1>4, <2>5, <2>6, <2>7, Zenon DEF PairingInv, Disable
<1>6. CASE CloseWindow
  <2>1. discarding' = FALSE /\ UNCHANGED <<descs, owed, discardedDescs, stepsWithDiscards,
                                             lastDiscarded, lostSteps>>
    BY <1>6, Zenon DEF CloseWindow, EndDiscardWindow, discardVars
  <2>2. ConsumerTypeOK'
    BY <1>2, <2>1, Zenon DEF ConsumerTypeOK, workerVars
  <2>3. ~failed => QueueInv' /\ LiveInv'
    BY <1>2, <1>3, <2>1, Zenon DEF PairingInv, QueueInv, LiveInv, workerVars
  <2>4. failed /\ Disable => LatchedInv'
    BY <1>2, <1>3, <2>1, Zenon DEF PairingInv, LatchedInv, workerVars
  <2> QED
    BY <1>2, <1>4, <2>2, <2>3, <2>4, Zenon DEF PairingInv, Disable
<1> QED
  BY <1>5, <1>6, Zenon

\* What the latch does, whoever latches.
LEMMA LatchFacts ==
    ASSUME IInv, policy' = policy, Latch
    PROVE  /\ failed' = TRUE /\ descs' \in Seq([id : Nat, step : Nat])
           /\ owed' \in Nat /\ discardedDescs' \in Nat
           /\ Disable => descs' = <<>> /\ owed' = 0
           /\ Disable => discardedDescs' = discardedDescs + Len(descs)
           /\ Disable /\ ~failed => Len(descs) = pushed - Settled - owed
           /\ Disable /\ failed => Len(descs) = 0
<1>1. Len(descs) \in Nat
  BY DEF IInv, ConsumerTypeOK
<1>2. <<>> \in Seq([id : Nat, step : Nat]) /\ Len(<<>>) = 0
  OBVIOUS
<1>3. Disable /\ failed => Len(descs) = 0
  BY <1>2, Zenon DEF IInv, PairingInv, LatchedInv
<1>4. Disable /\ ~failed => Len(descs) = pushed - Settled - owed
  BY <1>1 DEF IInv, PairingInv, LiveInv, ConsumerTypeOK, Settled, InHand
<1>5. CASE Disable
  BY <1>1, <1>2, <1>3, <1>4, <1>5, SMTT(30) DEF Latch, IInv, ConsumerTypeOK
<1>6. CASE ~Disable
  BY <1>3, <1>4, <1>6, Zenon DEF Latch, IInv, ConsumerTypeOK
<1> QED
  BY <1>5, <1>6, Zenon

\* A failure recorded by the reserving thread or the flush keeps it.
LEMMA FailureKeeps ==
    ASSUME IInv, policy' = policy, FailFromProducer
    PROVE  IInv'
<1> USE DEF IInv
<1>1. UNCHANGED <<workerVars, pushed, emitted, discarding, active, discardedPayloads,
                  stepsWithDiscards, lastDiscarded, lostSteps, rstep>> /\ Latch /\ ~failed
  BY Zenon DEF FailFromProducer, RecordFailure
<1>2. Settled \in Int /\ Settled' = Settled /\ Submitting' = Submitting
  BY <1>1 DEF Settled, InHand, Submitting, workerVars, ConsumerTypeOK
<1>3. WorkerInv'
  BY <1>1, Zenon DEF PairingInv, WorkerInv, SubmitsOwnPayload, workerVars
<1>4. ConsumerTypeOK'
  BY <1>1, LatchFacts, Zenon DEF ConsumerTypeOK, workerVars
<1>5. ASSUME Disable PROVE LatchedInv'
  <2>1. descs' = <<>> /\ owed' = 0 /\ discardedDescs' = discardedDescs + (pushed - Settled - owed)
    BY <1>1, <1>5, LatchFacts, Zenon
  <2>2. /\ stored + discardedPayloads + Submitting = Settled /\ refused = 0
        /\ discardedDescs = discardedPayloads + owed
    BY <1>1, Zenon DEF PairingInv, LiveInv
  <2>3. /\ stored \in Nat /\ discardedPayloads \in Nat /\ Submitting \in Nat /\ pushed \in Nat
        /\ owed \in Nat
    BY Zenon DEF ConsumerTypeOK, Submitting
  <2>4. UNCHANGED <<stored, discardedPayloads, Submitting, refused, pushed, Settled>>
    BY <1>1, <1>2, Zenon DEF workerVars
  <2> QED
    BY <2>1, <2>2, <2>3, <2>4, SMTT(30) DEF LatchedInv
<1> QED
  BY <1>3, <1>4, <1>5, LatchFacts, <1>1, Zenon DEF PairingInv, Disable

\* A payload entering the ring, and the worker taking one, keep it.
LEMMA EmitTakeKeeps ==
    ASSUME IInv, policy' = policy, Emit \/ BeginStep \/ WorkerTake
    PROVE  IInv'
<1> USE DEF IInv
<1>1. UNCHANGED <<failed, descs, discarding, owed, active, discardVars, pushed, desc, stored, refused>>
  BY Zenon DEF Emit, BeginStep, WorkerTake, Take, workerVars
<1>2. Settled' = Settled /\ Submitting' = Submitting
  <2>1. CASE Emit \/ BeginStep
    BY <2>1, Zenon DEF Emit, BeginStep, workerVars, Settled, InHand, Submitting
  <2>2. CASE WorkerTake
    BY <2>2 DEF WorkerTake, Take, Settled, InHand, Submitting, ConsumerTypeOK
  <2> QED
    BY <2>1, <2>2, Zenon
<1>3. ConsumerTypeOK'
  <2>1. CASE Emit
    BY <2>1 DEF Emit, workerVars, discardVars, ConsumerTypeOK
  <2>2. CASE BeginStep
    BY <2>2 DEF BeginStep, ConsumerBeginStep, workerVars, discardVars, ConsumerTypeOK
  <2>3. CASE WorkerTake
    BY <2>3 DEF WorkerTake, Take, discardVars, ConsumerTypeOK
  <2> QED
    BY <2>1, <2>2, <2>3, Zenon
<1>4. WorkerInv'
  BY SMTT(30) DEF Emit, BeginStep, WorkerTake, Take, workerVars, WorkerInv, PairingInv, SubmitsOwnPayload,
         ConsumerTypeOK
<1>5. ~failed => QueueInv' /\ LiveInv'
  BY <1>1, <1>2, Zenon DEF PairingInv, QueueInv, LiveInv, discardVars
<1>6. failed /\ Disable => LatchedInv'
  BY <1>1, <1>2, Zenon DEF PairingInv, LatchedInv, discardVars
<1> QED
  BY <1>1, <1>3, <1>4, <1>5, <1>6, Zenon DEF PairingInv, Disable

\* Discarding the payload in hand keeps it: one payload less is owed.
LEMMA DiscardKeeps ==
    ASSUME IInv, policy' = policy, wpc \in {"check", "copied"}, Unwanted, wpc' = "idle",
           owed' = (IF failed THEN owed ELSE owed - 1),
           discardedPayloads' = discardedPayloads + 1,
           UNCHANGED <<failed, descs, discarding, active, discardedDescs, stepsWithDiscards,
                       lastDiscarded, lostSteps, rstep, cur, desc, taken, stored, refused,
                       pushed, emitted>>
    PROVE  IInv'
<1> USE DEF IInv
<1>1. Settled' = Settled + 1 /\ Submitting' = Submitting /\ Settled \in Int /\ Submitting = 0
  BY DEF Settled, InHand, Submitting, ConsumerTypeOK
<1>2. ConsumerTypeOK'
  BY DEF ConsumerTypeOK, Unwanted
<1>3. WorkerInv'
  BY Zenon DEF PairingInv, WorkerInv, SubmitsOwnPayload
<1>4. ASSUME ~failed PROVE QueueInv' /\ LiveInv'
  <2>1. owed' = owed - 1 /\ owed \in Nat
    BY <1>4, Zenon DEF ConsumerTypeOK
  <2>2. Settled' + owed' = Settled + owed
    BY <1>1, <2>1
  <2>3. QueueInv'
    BY <1>4, <2>2, Zenon DEF PairingInv, QueueInv
  <2>4. LiveInv'
    BY <1>1, <1>4, <2>1, <2>2, SMTT(30) DEF PairingInv, LiveInv, ConsumerTypeOK
  <2> QED
    BY <2>3, <2>4, Zenon
<1>5. ASSUME failed, Disable PROVE LatchedInv'
  BY <1>1, <1>5 DEF PairingInv, LatchedInv, ConsumerTypeOK
<1> QED
  BY <1>2, <1>3, <1>4, <1>5, Zenon DEF PairingInv, Disable

\* Pairing the payload in hand with the oldest descriptor keeps it: while the
\* consumer is unfailed and owes nothing, that descriptor is the payload's.
LEMMA PairKeeps ==
    ASSUME IInv, policy' = policy, wpc = "copied", ~failed, owed = 0, descs # <<>>,
           wpc' = "submit", desc' = Head(descs).id, descs' = Tail(descs), active' = active + 1,
           UNCHANGED <<failed, discarding, owed, discardVars, rstep, cur, taken, stored, refused,
                       pushed, emitted>>
    PROVE  IInv'
<1> USE DEF IInv
<1>1. /\ Tail(descs) \in Seq(Descriptor) /\ Head(descs).id \in Nat /\ Head(descs) = descs[1]
      /\ Len(descs) \in Nat /\ Len(descs) > 0 /\ Len(Tail(descs)) = Len(descs) - 1
      /\ \A i \in 1 .. Len(Tail(descs)) : Tail(descs)[i] = descs[i + 1]
  <2>1. descs \in Seq(Descriptor)
    BY Zenon DEF ConsumerTypeOK, Descriptor
  <2> QED
    BY <2>1, PoppedDescriptors, Zenon
<1>2. /\ Settled = taken - 1 /\ Settled' = taken /\ Submitting = 0 /\ Submitting' = 1
      /\ taken \in Nat /\ cur = taken /\ active = 0
  BY DEF Settled, InHand, Submitting, ConsumerTypeOK, PairingInv, WorkerInv
<1>3. QueueInv /\ LiveInv
  BY Zenon DEF PairingInv
<1>4. desc' = cur'
  <2>1. descs[1].id = Settled + owed + 1
    BY <1>1, <1>3 DEF QueueInv
  <2> QED
    BY <1>1, <1>2, <2>1
<1>5. ConsumerTypeOK'
  BY <1>1 DEF ConsumerTypeOK, discardVars, Descriptor
<1>6. WorkerInv'
  BY <1>2, <1>4 DEF PairingInv, WorkerInv, SubmitsOwnPayload
<1>7. QueueInv'
  <2>1. \A i \in 1 .. Len(Tail(descs)) : descs[i + 1].id = Settled + owed + (i + 1)
    BY <1>1, <1>3 DEF QueueInv
  <2> QED
    BY <1>1, <1>2, <2>1 DEF QueueInv
<1>8. LiveInv'
  BY <1>1, <1>2, <1>3 DEF LiveInv, ConsumerTypeOK, discardVars
<1> QED
  BY <1>5, <1>6, <1>7, <1>8, Zenon DEF PairingInv

\* The worker's steps keep the invariant.
LEMMA WorkerKeeps ==
    ASSUME IInv, policy' = policy, WorkerRun
    PROVE  IInv'
<1> USE DEF IInv
<1>1. CASE DiscardCheck
  <2>1. CASE Unwanted
    BY <1>1, <2>1, DiscardKeeps, Zenon DEF WorkerRun, DiscardCheck, TakeUnwanted
  <2>2. CASE ~Unwanted
    <3>1. UNCHANGED <<failed, descs, discarding, owed, active, discardVars, rstep, cur, desc, taken,
                      stored, refused, pushed, emitted>> /\ wpc = "check" /\ wpc' = "copied"
      BY <1>1, <2>2, Zenon DEF WorkerRun, DiscardCheck
    <3>2. Settled' = Settled /\ Submitting' = Submitting
      BY <3>1, Zenon DEF Settled, InHand, Submitting
    <3>3. ConsumerTypeOK'
      BY <3>1, Zenon DEF ConsumerTypeOK, discardVars
    <3>4. WorkerInv'
      BY <3>1, Zenon DEF PairingInv, WorkerInv, SubmitsOwnPayload
    <3>5. (~failed => QueueInv' /\ LiveInv') /\ (failed /\ Disable => LatchedInv')
      BY <3>1, <3>2, Zenon DEF PairingInv, QueueInv, LiveInv, LatchedInv, discardVars
    <3> QED
      BY <3>1, <3>3, <3>4, <3>5, Zenon DEF PairingInv, Disable
  <2> QED
    BY <2>1, <2>2, Zenon
<1>2. CASE Consume
  <2>1. CASE failed /\ ~Disable
    <3>1. /\ Latch /\ wpc' = "idle" /\ wpc = "copied"
          /\ UNCHANGED <<active, discardedPayloads, desc, discarding, stepsWithDiscards, lastDiscarded,
                         lostSteps, rstep, cur, taken, stored, refused, pushed, emitted>>
      BY <1>2, <2>1, Zenon DEF WorkerRun, Consume
    <3>2. ConsumerTypeOK'
      BY <3>1, LatchFacts, Zenon DEF ConsumerTypeOK
    <3>3. WorkerInv'
      BY <3>1, Zenon DEF PairingInv, WorkerInv, SubmitsOwnPayload
    <3> QED
      BY <2>1, <3>1, <3>2, <3>3, LatchFacts, Zenon DEF PairingInv, Disable
  <2>2. CASE ~(failed /\ ~Disable) /\ Unwanted
    BY <1>2, <2>2, DiscardKeeps, SMTT(30) DEF WorkerRun, Consume
  <2>3. CASE ~(failed /\ ~Disable) /\ ~Unwanted
    <3>1. ~failed /\ owed = 0 /\ wpc = "copied"
      BY <1>2, <2>3, SMTT(30) DEF Unwanted, ConsumerTypeOK, Consume
    <3>2. descs # <<>>
      <4>1. Settled = taken - 1 /\ taken <= pushed /\ pushed = Settled + owed + Len(descs)
        BY <3>1 DEF Settled, InHand, PairingInv, WorkerInv, LiveInv, ConsumerTypeOK
      <4>2. Len(descs) # 0
        BY <3>1, <4>1 DEF ConsumerTypeOK
      <4> QED
        BY <4>2
    <3> QED
      BY <1>2, <2>3, <3>1, <3>2, PairKeeps, SMTT(30) DEF WorkerRun, Consume, discardVars
  <2> QED
    BY <2>1, <2>2, <2>3, Zenon
<1>3. CASE SinkAccepts
  <2>1. /\ wpc = "submit" /\ wpc' = "retire" /\ stored' = stored + 1
        /\ UNCHANGED <<failed, descs, discarding, owed, active, discardVars, rstep, cur, desc, taken,
                       refused, pushed, emitted>>
    BY <1>3, Zenon DEF WorkerRun, SinkAccepts
  <2>2. Settled' = Settled /\ Submitting = 1 /\ Submitting' = 0
    BY <2>1, Zenon DEF Settled, InHand, Submitting
  <2>3. ConsumerTypeOK'
    BY <2>1 DEF ConsumerTypeOK, discardVars
  <2>4. WorkerInv'
    BY <2>1, Zenon DEF PairingInv, WorkerInv, SubmitsOwnPayload
  <2>5. ~failed => QueueInv' /\ LiveInv'
    BY <2>1, <2>2, SMTT(30) DEF PairingInv, QueueInv, LiveInv, discardVars, ConsumerTypeOK
  <2>6. failed /\ Disable => LatchedInv'
    BY <2>1, <2>2 DEF PairingInv, LatchedInv, discardVars, ConsumerTypeOK
  <2> QED
    BY <2>1, <2>3, <2>4, <2>5, <2>6, SMTT(30) DEF PairingInv, Disable
<1>4. CASE Retire
  <2>1. /\ wpc = "retire" /\ wpc' = "idle" /\ desc' = 0 /\ active' = active - 1
        /\ UNCHANGED <<failed, descs, discarding, owed, discardVars, rstep, cur, taken, stored,
                       refused, pushed, emitted>>
    BY <1>4, Zenon DEF WorkerRun, Retire, NoRecord
  <2>2. Settled' = Settled /\ Submitting' = Submitting /\ active = 1
    BY <2>1, Zenon DEF Settled, InHand, Submitting, PairingInv, WorkerInv
  <2>3. ConsumerTypeOK'
    BY <2>1, <2>2, SMTT(30) DEF ConsumerTypeOK, discardVars
  <2>4. WorkerInv'
    BY <2>1, <2>2, SMTT(30) DEF PairingInv, WorkerInv, SubmitsOwnPayload
  <2>5. (~failed => QueueInv' /\ LiveInv') /\ (failed /\ Disable => LatchedInv')
    BY <2>1, <2>2, Zenon DEF PairingInv, QueueInv, LiveInv, LatchedInv, discardVars
  <2> QED
    BY <2>1, <2>3, <2>4, <2>5, Zenon DEF PairingInv, Disable
<1>5. CASE SinkRefuses
  <2>1. /\ wpc = "submit" /\ wpc' = "idle" /\ desc' = 0 /\ active' = active - 1
        /\ refused' = refused + 1 /\ Latch
        /\ discardedPayloads' = discardedPayloads + (IF Disable THEN 1 ELSE 0)
        /\ UNCHANGED <<discarding, stepsWithDiscards, lastDiscarded, lostSteps, rstep, cur, taken,
                       stored, pushed, emitted>>
    BY <1>5, Zenon DEF WorkerRun, SinkRefuses, NoRecord
  <2>2. Settled' = Settled /\ Submitting = 1 /\ Submitting' = 0 /\ active = 1
    BY <2>1, Zenon DEF Settled, InHand, Submitting, PairingInv, WorkerInv
  <2>3. ConsumerTypeOK'
    <3>1. refused' \in Nat /\ active' = 0 /\ discardedPayloads' \in Nat
      BY <2>1, <2>2 DEF ConsumerTypeOK
    <3>2. /\ failed' = TRUE /\ descs' \in Seq([id : Nat, step : Nat])
          /\ owed' \in Nat /\ discardedDescs' \in Nat
      BY <2>1, LatchFacts, Zenon
    <3>3. UNCHANGED <<discarding, stepsWithDiscards, lastDiscarded, lostSteps, rstep, cur, taken,
                      stored, pushed, emitted>> /\ wpc' = "idle" /\ desc' = 0
      BY <2>1, Zenon
    <3> QED
      BY <3>1, <3>2, <3>3, Zenon DEF ConsumerTypeOK
  <2>4. WorkerInv'
    BY <2>1, <2>2 DEF PairingInv, WorkerInv, SubmitsOwnPayload
  <2>5. ASSUME Disable PROVE LatchedInv'
    <3>1. /\ descs' = <<>> /\ owed' = 0
          /\ failed \/ discardedDescs' = discardedDescs + (pushed - Settled - owed)
          /\ ~failed \/ discardedDescs' = discardedDescs
      <4>1. /\ descs' = <<>> /\ owed' = 0 /\ discardedDescs' = discardedDescs + Len(descs)
            /\ ~failed => Len(descs) = pushed - Settled - owed
            /\ failed => Len(descs) = 0
        BY <2>1, <2>5, LatchFacts, Zenon
      <4>2. discardedDescs \in Nat
        BY Zenon DEF ConsumerTypeOK
      <4> QED
        BY <4>1, <4>2
    <3>2. /\ stored \in Nat /\ discardedPayloads \in Nat /\ pushed \in Nat /\ owed \in Nat
          /\ discardedDescs \in Nat /\ refused \in Nat /\ Settled \in Int
      BY DEF ConsumerTypeOK, Settled, InHand
    <3>3. discardedPayloads' = discardedPayloads + 1 /\ refused' = refused + 1
          /\ stored' = stored /\ pushed' = pushed
      BY <2>1, <2>5, Zenon
    <3>4. CASE ~failed
      BY <2>2, <3>1, <3>2, <3>3, <3>4, SMTT(30) DEF PairingInv, LiveInv, LatchedInv
    <3>5. CASE failed
      BY <2>2, <2>5, <3>1, <3>2, <3>3, <3>5, SMTT(30) DEF PairingInv, LatchedInv
    <3> QED
      BY <3>4, <3>5, Zenon
  <2> QED
    BY <2>1, <2>3, <2>4, <2>5, LatchFacts, Zenon DEF PairingInv, Disable
<1> QED
  BY <1>1, <1>2, <1>3, <1>4, <1>5, Zenon DEF WorkerRun, WorkerStep

-----------------------------------------------------------------------------
(* The theorems.                                                            *)

\* PairingInv is inductive together with the types.
LEMMA ConsumerInvariant == ConsumerSpec => []IInv
<1>1. ConsumerInit => IInv
  <2> SUFFICES ASSUME ConsumerInit PROVE IInv
    BY Zenon
  <2>1. taken = 0 /\ wpc = "idle" /\ descs = <<>> /\ owed = 0 /\ pushed = 0 /\ ~failed
    BY Zenon DEF ConsumerInit
  <2>2. Settled = 0 /\ Submitting = 0
    <3>1. taken = 0 /\ wpc = "idle"
      BY <2>1, Zenon
    <3>2. InHand = 0 /\ Submitting = 0
      BY <3>1, Zenon DEF InHand, Submitting
    <3> QED
      BY <3>1, <3>2 DEF Settled
  <2>3. descs \in Seq([id : Nat, step : Nat]) /\ Len(descs) = 0
    BY <2>1
  <2>4. ConsumerTypeOK
    BY <2>3, Zenon DEF ConsumerInit, ConsumerTypeOK, NoRecord
  <2>5. WorkerInv
    BY DEF ConsumerInit, WorkerInv, SubmitsOwnPayload, NoRecord
  <2>6. QueueInv /\ LiveInv
    BY <2>1, <2>2, <2>3 DEF ConsumerInit, QueueInv, LiveInv
  <2> QED
    BY <2>1, <2>4, <2>5, <2>6, Zenon DEF IInv, PairingInv
<1>2. IInv /\ [ConsumerNext]_consumerVars => IInv'
  <2> SUFFICES ASSUME IInv, [ConsumerNext]_consumerVars
               PROVE  IInv'
    BY Zenon
  <2>0. policy' = policy
    BY Zenon DEF ConsumerNext, consumerVars
  <2>1. ASSUME NEW k \in Pushes, Push(k)
        PROVE  IInv'
    BY <2>0, <2>1, PushKeeps, Zenon
  <2>2. CASE OpenWindow \/ CloseWindow
    BY <2>0, <2>2, WindowKeeps, Zenon
  <2>3. CASE FailFromProducer
    BY <2>0, <2>3, FailureKeeps, Zenon
  <2>4. CASE Emit \/ BeginStep \/ WorkerTake
    BY <2>0, <2>4, EmitTakeKeeps, SMTT(30)
  <2>5. CASE WorkerRun
    BY <2>0, <2>5, WorkerKeeps, Zenon
  <2>6. CASE UNCHANGED consumerVars
    BY <2>6, Zenon DEF consumerVars, workerVars, discardVars, IInv, ConsumerTypeOK, PairingInv, WorkerInv,
                SubmitsOwnPayload, QueueInv, LiveInv, LatchedInv, Settled, InHand, Submitting, Disable
  <2> QED
    BY <2>1, <2>2, <2>3, <2>4, <2>5, <2>6, SMTT(30) DEF ConsumerNext
<1> QED
  BY <1>1, <1>2, PTL DEF ConsumerSpec

\* The state of the record consumer and of its worker keeps its types.
THEOREM ConsumerTypeCorrect == ConsumerSpec => []ConsumerTypeOK
<1>1. IInv => ConsumerTypeOK
  BY Zenon DEF IInv
<1> QED
  BY <1>1, ConsumerInvariant, PTL

\* Whatever windows opened and failures were latched, consume_payload hands
\* the sink every payload with the descriptor that was pushed for it.
THEOREM PairsAreRight == ConsumerSpec => []SubmitsOwnPayload
<1>1. IInv => SubmitsOwnPayload
  BY Zenon DEF IInv, PairingInv, WorkerInv
<1> QED
  BY <1>1, ConsumerInvariant, PTL

\* The inductive invariant a run checks holds for every bound.
THEOREM PairingInvariant == ConsumerSpec => []PairingInv
<1>1. IInv => PairingInv
  BY Zenon DEF IInv
<1> QED
  BY <1>1, ConsumerInvariant, PTL

\* What wait_until_idle reports to a flush: an idle, unfailed consumer has
\* handled every record pushed, and no submit has failed unseen.
THEOREM IdleIsComplete == ConsumerSpec => []IdleMeansAllHandled
<1>1. IInv => IdleMeansAllHandled
  <2> SUFFICES ASSUME IInv, Idle, ~failed
               PROVE  /\ stored + discardedPayloads = pushed
                      /\ discardedPayloads = discardedDescs
                      /\ refused = 0
    BY Zenon DEF IdleMeansAllHandled
  <2>1. LiveInv /\ WorkerInv /\ ConsumerTypeOK
    BY Zenon DEF IInv, PairingInv
  <2>2. descs = <<>> /\ active = 0 /\ owed = 0 /\ Len(descs) = 0
    BY Zenon DEF Idle
  <2>3. Submitting = 0
    BY <2>1, <2>2, Zenon DEF Submitting, WorkerInv
  <2>4. /\ stored \in Nat /\ discardedPayloads \in Nat /\ pushed \in Nat /\ discardedDescs \in Nat
        /\ Settled \in Int
    BY <2>1 DEF ConsumerTypeOK, Settled, InHand
  <2> QED
    BY <2>1, <2>2, <2>3, <2>4 DEF LiveInv
<1> QED
  BY <1>1, ConsumerInvariant, PTL

\* The discard counters of capture_status balance once a runtime with
\* disable_capture has run its payloads through.
THEOREM DiscardsBalanced == ConsumerSpec => []DiscardsBalance
<1>1. IInv => DiscardsBalance
  <2> SUFFICES ASSUME IInv, Disable, taken = pushed, wpc = "idle"
               PROVE  /\ stored + discardedPayloads = pushed
                      /\ stored + discardedDescs + refused = pushed
    BY Zenon DEF DiscardsBalance
  <2>1. Submitting = 0 /\ Settled = pushed /\ pushed \in Nat /\ Len(descs) \in Nat
        /\ stored \in Nat /\ discardedPayloads \in Nat /\ discardedDescs \in Nat
        /\ owed \in Nat /\ refused \in Nat
    BY DEF Submitting, Settled, InHand, IInv, ConsumerTypeOK
  <2>2. CASE ~failed
    BY <2>1, <2>2 DEF IInv, PairingInv, LiveInv
  <2>3. CASE failed
    BY <2>1, <2>3 DEF IInv, PairingInv, LatchedInv
  <2> QED
    BY <2>2, <2>3, Zenon
<1> QED
  BY <1>1, ConsumerInvariant, PTL

-----------------------------------------------------------------------------
(* The spool and its uploader.                                              *)

(* The packs of a deployment have a key, and None is none of them.          *)
LEMMA PackFacts ==
    ASSUME UploadTypeOK
    PROVE  /\ conf.packs \subseteq Packs /\ None \notin Packs
           /\ \A p \in Packs : Id[p] \in Keys /\ (Stored(p) => store[Id[p]] # None)
BY SpoolAssumption, UploadAssumption, Zenon DEF UploadTypeOK, Keys, Stored

(* What is around stays alone under its id while nothing new comes.         *)
LEMMA AroundKeeps ==
    ASSUME OneAroundInv, \A p \in Packs : store[Id[p]] # None => store'[Id[p]] # None,
           \A p \in Packs : Around(p)' => Around(p)
    PROVE  OneAroundInv'
BY Zenon DEF OneAroundInv

---------------------------------------------------------------------------
(* The stagers.                                                             *)

(* A stager adds a file with an unsynced name, or syncs all names, and      *)
(* acknowledges what it synced.                                             *)
LEMMA StagerKeeps ==
    ASSUME SpoolInv, UNCHANGED <<store, up, remaining, life, quarantined>>,
           ready \subseteq ready', dirty' = {} \/ dirty' = dirty \cup (ready' \ ready),
           \A p \in acked' : p \in acked \/ (dirty' = {} /\ \E s \in Stagers : st[s].pc = "sync" /\ st[s].pack = p),
           \A s \in Stagers : st'[s].pc \in Acking =>
              (st[s].pc \in Acking /\ st'[s].pack = st[s].pack) \/ st'[s].pack \in ready'
    PROVE  AckedSurvives' /\ AckingInv' /\ BatchInv' /\ StoreInv'
<1> USE DEF SpoolInv
<1>1. \A p : Stored(p)' = Stored(p)
  BY Zenon DEF Stored
<1>2. ready \ dirty \subseteq ready' \ dirty'
  BY Zenon
<1>3. AckedSurvives'
  <2>1. ASSUME NEW p \in acked' PROVE (p \in ready \ dirty \/ Stored(p) \/ p \in quarantined)'
    <3>1. CASE p \in acked
      BY <3>1, <1>1, <1>2, ZenonT(40) DEF AckedSurvives
    <3>2. CASE dirty' = {} /\ \E s \in Stagers : st[s].pc = "sync" /\ st[s].pack = p
      BY <3>2, <1>1 DEF AckingInv, Acking
    <3> QED BY <3>1, <3>2, Zenon
  <2> QED BY <2>1, Zenon DEF AckedSurvives
<1>4. AckingInv'
  BY <1>1, Zenon DEF AckingInv
<1>5. BatchInv'
  BY Zenon DEF BatchInv, Busy
<1>6. StoreInv'
  BY <1>1, Zenon DEF StoreInv
<1> QED BY <1>3, <1>4, <1>5, <1>6, Zenon

(* Stage() up to its reservation.                                           *)
LEMMA CheckKeeps ==
    ASSUME SpoolInv, NEW s \in Stagers, NEW p \in Packs, StageCheck(s, p), NoUpload, Fixed
    PROVE  SpoolInv'
<1> USE DEF SpoolInv
<1>0. /\ UNCHANGED <<conf, ready, dirty, quarantined, acked, life, store, up, remaining>>
      /\ s \in conf.stagers /\ p \in conf.packs /\ st[s].pc \in Resting
  BY Zenon DEF StageCheck, NoUpload, Fixed, uploadVars, diskVars
<1>1. PICK x \in {"validate", "conflict", "write", "full"} :
        /\ st' = [st EXCEPT ![s] = [pc |-> x, pack |-> p]]
        /\ x = "write" => \A q \in ready : Id[q] # Id[p]
  BY Zenon DEF StageCheck
<1>2. UploadTypeOK'
  <2>1. st' \in [Stagers -> [pc : StagerSteps, pack : Packs]]
    BY <1>1, Zenon DEF UploadTypeOK, StagerSteps, Resting
  <2>2. \A t \in Stagers : st'[t].pc # "idle" => t \in conf.stagers /\ st'[t].pack \in conf.packs
    BY <1>0, <1>1, Zenon DEF UploadTypeOK
  <2> QED BY <1>0, <2>1, <2>2, Zenon DEF UploadTypeOK
<1>3. AckedSurvives' /\ AckingInv' /\ BatchInv' /\ StoreInv'
  <2>1. \A t \in Stagers : st'[t].pc \in Acking => t # s /\ st'[t] = st[t]
    BY <1>1, ZenonT(40) DEF UploadTypeOK, Acking
  <2> QED BY <1>0, <2>1, StagerKeeps, Zenon
<1>4. OneAroundInv'
  <2>1. \A q : Around(q)' => Around(q) \/ (q = p /\ st'[s].pc = "write")
    BY <1>0, <1>1, Zenon DEF Around, UploadTypeOK
  <2>2. ASSUME st'[s].pc = "write", NEW q \in Packs, Around(q), Id[q] = Id[p]
        PROVE  q = p \/ store[Id[q]] # None
    <3>1. q \notin ready
      BY <1>1, <2>2, Zenon DEF UploadTypeOK
    <3>2. CASE q \in dirty
      BY <3>1, <3>2, PackFacts, Zenon DEF StoreInv
    <3>3. CASE \E t \in Stagers : st[t].pc \in {"write", "link"} /\ st[t].pack = q
      <4>1. PICK t \in Stagers : st[t].pc \in {"write", "link"} /\ st[t].pack = q
        BY <3>3, Zenon
      <4>2. t # s /\ t \in conf.stagers /\ q \in conf.packs
        BY <1>0, <4>1, Zenon DEF Resting, UploadTypeOK
      <4> QED BY <1>0, <2>2, <4>2, IdAssumption, Zenon DEF UploadTypeOK
    <3> QED BY <2>2, <3>1, <3>2, <3>3, Zenon DEF Around
  <2> QED BY <1>0, <2>1, <2>2 DEF OneAroundInv
<1> QED BY <1>2, <1>3, <1>4, Zenon

(* The rest of Stage().                                                     *)
LEMMA StageKeeps ==
    ASSUME SpoolInv, NEW s \in Stagers, StageStep(s), NoUpload, Fixed
    PROVE  SpoolInv'
<1> USE DEF SpoolInv
<1> DEFINE p == st[s].pack
<1>0. UNCHANGED <<conf, life, quarantined, store, up, remaining>> /\ p \in Packs
  BY Zenon DEF StageStep, StageWrite, StageFails, StageDrop, StageLink, StageUnlink, StageCommit, StageLost,
         StageValidate, StageAccount, StageSync, StageSyncFails, NoUpload, Fixed, uploadVars, diskVars,
         UploadTypeOK
<1>1. PICK x \in StagerSteps :
        /\ st[s].pc # "idle" /\ st' = [st EXCEPT ![s].pc = x]
        /\ x \in {"write", "link"} => st[s].pc \in {"write", "link"}
        /\ x \in Acking => st[s].pc \in Acking \/ p \in ready'
        /\ \/ ready' = ready /\ dirty' = dirty /\ acked' = acked
           \/ ready' = ready \cup {p} /\ dirty' = dirty \cup {p} /\ acked' = acked
              /\ p \notin ready /\ st[s].pc = "link"
           \/ ready' = ready /\ dirty' = {} /\ acked' = acked \cup {p} /\ st[s].pc = "sync"
  <2>1. CASE StageWrite(s) \/ StageFails(s) \/ StageDrop(s) \/ StageUnlink(s) \/ StageCommit(s)
             \/ StageLost(s) \/ StageSyncFails(s)
    BY <2>1, Zenon DEF StageWrite, StageFails, StageDrop, StageUnlink, StageCommit, StageLost,
                StageSyncFails, At, StagerSteps, Acking, Resting, diskVars
  <2>2. CASE StageLink(s)
    BY <2>2, Zenon DEF StageLink, At, StagerSteps, Acking, Resting
  <2>3. CASE StageValidate(s)
    BY <2>3, Zenon DEF StageValidate, At, StagerSteps, Acking, Resting, diskVars
  <2>4. CASE StageAccount(s)
    BY <2>4, Zenon DEF StageAccount, At, StagerSteps, Acking, Resting, diskVars
  <2>5. CASE StageSync(s)
    BY <2>5, Zenon DEF StageSync, At, StagerSteps, Acking, Resting
  <2> QED BY <2>1, <2>2, <2>3, <2>4, <2>5, Zenon DEF StageStep
<1>2. /\ st'[s].pc = x /\ st'[s].pack = p /\ s \in conf.stagers /\ p \in conf.packs
      /\ \A t \in Stagers : t # s => st'[t] = st[t]
  BY <1>1, Zenon DEF UploadTypeOK
<1> HIDE DEF p
<1>3. UploadTypeOK'
  <2>1. st' \in [Stagers -> [pc : StagerSteps, pack : Packs]]
    BY <1>1, Zenon DEF UploadTypeOK
  <2>2. ready' \subseteq conf.packs /\ dirty' \subseteq conf.packs /\ acked' \subseteq Packs
    BY <1>0, <1>1, <1>2, Zenon DEF UploadTypeOK
  <2>3. \A t \in Stagers : st'[t].pc # "idle" => t \in conf.stagers /\ st'[t].pack \in conf.packs
    BY <1>2, Zenon DEF UploadTypeOK
  <2> QED BY <1>0, <2>1, <2>2, <2>3, Zenon DEF UploadTypeOK
<1>4. AckedSurvives' /\ AckingInv' /\ BatchInv' /\ StoreInv'
  <2>1. \A t \in Stagers : st'[t].pc \in Acking =>
          (st[t].pc \in Acking /\ st'[t].pack = st[t].pack) \/ st'[t].pack \in ready'
    BY <1>1, <1>2, Zenon DEF p
  <2>2. ready \subseteq ready' /\ (dirty' = {} \/ dirty' = dirty \cup (ready' \ ready))
    BY <1>1, Zenon
  <2>3. \A q \in acked' : q \in acked \/ (dirty' = {} /\ \E t \in Stagers : st[t].pc = "sync" /\ st[t].pack = q)
    BY <1>1, Zenon DEF p
  <2> QED BY <1>0, <2>1, <2>2, <2>3, StagerKeeps, Zenon
<1>5. OneAroundInv'
  <2>1. \A q \in Packs : Around(q)' => Around(q)
    BY <1>1, <1>2, ZenonT(40) DEF Around, p
  <2> QED BY <1>0, <2>1, AroundKeeps, Zenon
<1> QED BY <1>3, <1>4, <1>5, Zenon

---------------------------------------------------------------------------
(* The uploader.                                                            *)

(* A worker that does not rest: where it may go next.                       *)
Onward(v) ==
    /\ up[v].pc \notin {"idle", "removed"} /\ up'[v].pc \notin {"removed", "visible"}
    /\ up'[v].pc = "remove" => Stored(up[v].pack)
    /\ up'[v].pc = "put" => store[Id[up[v].pack]] = None

(* Workers go on with their packs or come to rest, and names are synced or  *)
(* packs of the batch given up: the spool and the store stay.               *)
LEMMA WorkersKeep ==
    ASSUME SpoolInv, UNCHANGED <<conf, ready, quarantined, acked, st, life, store>>,
           dirty' \subseteq dirty, remaining' \subseteq remaining,
           up' \in [Workers -> [pc : WorkerSteps, pack : Packs, tries : Int]],
           \A v \in Workers : up'[v].pack = up[v].pack,
           \A v \in Workers : up'[v].pc = up[v].pc \/ up'[v].pc = "idle" \/ Onward(v)
    PROVE  SpoolInv'
<1> USE DEF SpoolInv
<1>2. UploadTypeOK'
  <2>1. dirty' \subseteq conf'.packs
    BY Zenon DEF UploadTypeOK
  <2> QED BY <2>1, Zenon DEF UploadTypeOK
<1>3. \A p : Stored(p)' = Stored(p)
  BY Zenon DEF Stored
<1>4. AckedSurvives' /\ AckingInv'
  BY <1>3, Zenon DEF AckedSurvives, AckingInv
<1>5. BatchInv'
  <2>1. Busy' \subseteq Busy /\ Busy \subseteq Workers
    BY Zenon DEF Busy, Onward
  <2>2. \A v \in Busy' : up[v].pc # "removed" \/ up'[v].pc = "removed"
    BY Zenon DEF Busy, Onward
  <2>3. \A v \in Busy' : up'[v].pack \notin remaining' /\ (up'[v].pc # "removed" => up'[v].pack \in ready')
    <3> SUFFICES ASSUME NEW v \in Busy'
                 PROVE  up'[v].pack \notin remaining' /\ (up'[v].pc # "removed" => up'[v].pack \in ready')
      BY Zenon
    <3>1. v \in Busy /\ v \in Workers
      BY <2>1, Zenon
    <3>2. up'[v].pack = up[v].pack
      BY <3>1, Zenon
    <3> QED BY <2>2, <3>1, <3>2, Zenon DEF BatchInv
  <2>4. ASSUME NEW u \in Busy', NEW v \in Busy', up'[v].pack = up'[u].pack PROVE v = u
    <3>1. u \in Busy /\ v \in Busy /\ u \in Workers /\ v \in Workers
      BY <2>1, Zenon
    <3>2. up'[v].pack = up[v].pack /\ up'[u].pack = up[u].pack
      BY <3>1, Zenon
    <3> QED BY <2>4, <3>1, <3>2, Zenon DEF BatchInv
  <2> QED BY <2>1, <2>3, <2>4, Zenon DEF BatchInv
<1>6. StoreInv'
  <2>1. \A v \in Workers : up'[v].pc \in {"visible", "remove", "removed"} => Stored(up[v].pack)'
    BY <1>3, Zenon DEF StoreInv, Onward
  <2>2. \A v \in Workers : up'[v].pc = "put" => (store[Id[up[v].pack]] = None \/ Stored(up[v].pack))'
    BY <1>3, Zenon DEF StoreInv, Onward
  <2>3. \A p \in dirty' \ ready' : Stored(p)'
    BY <1>3, Zenon DEF StoreInv
  <2> QED BY <2>1, <2>2, <2>3, Zenon DEF StoreInv
<1>7. OneAroundInv'
  <2>1. \A q \in Packs : Around(q)' => Around(q)
    BY Zenon DEF Around
  <2> QED BY <2>1, AroundKeeps, Zenon
<1> QED BY <1>2, <1>4, <1>5, <1>6, <1>7, Zenon

(* The same for one worker.                                                 *)
LEMMA UploadWorkerKeeps ==
    ASSUME SpoolInv, UNCHANGED <<conf, ready, dirty, quarantined, acked, st, life, store, remaining>>,
           NEW w \in Workers, NEW x \in WorkerSteps, Goes(w, x), up[w].pc \notin {"idle", "removed"},
           x \notin {"removed", "visible"}, x = "remove" => Stored(up[w].pack),
           x = "put" => store[Id[up[w].pack]] = None
    PROVE  SpoolInv'
<1>1. /\ up' \in [Workers -> [pc : WorkerSteps, pack : Packs, tries : Int]]
      /\ up'[w].pc = x /\ \A v \in Workers : up'[v].pack = up[v].pack /\ (v # w => up'[v].pc = up[v].pc)
  BY ZenonT(40) DEF SpoolInv, UploadTypeOK, Goes
<1> QED BY <1>1, WorkersKeep, Zenon DEF Onward

(* A PUT gives the store a pack it has nothing else for.                    *)
LEMMA PutKeeps ==
    ASSUME SpoolInv, UNCHANGED <<conf, ready, dirty, quarantined, acked, st, life, remaining>>,
           NEW w \in Workers, life = "up", up[w].pc = "put",
           NEW x \in {"visible", "retry"}, up' = [up EXCEPT ![w].pc = x],
           store' = [store EXCEPT ![Id[up[w].pack]] = up[w].pack]
    PROVE  SpoolInv'
<1> USE DEF SpoolInv
<1> DEFINE p == up[w].pack
<1>1. /\ up'[w].pc = x /\ up'[w].pack = p
      /\ \A v \in Workers : v # w => up'[v] = up[v]
  BY Zenon DEF UploadTypeOK
<1>2. p \in Packs /\ p \in ready /\ (store[Id[p]] = None \/ Stored(p))
  BY Zenon DEF UploadTypeOK, BatchInv, Busy, StoreInv
<1>3. store'[Id[p]] = p /\ \A k \in Keys : k # Id[p] => store'[k] = store[k]
  BY <1>2, PackFacts, Zenon DEF UploadTypeOK
<1> HIDE DEF p
<1>4. \A q \in Packs : Stored(q) => Stored(q)'
  BY <1>2, <1>3, PackFacts, Zenon DEF Stored
<1>5. \A q \in Packs : store[Id[q]] # None => store'[Id[q]] # None
  BY <1>2, <1>3, PackFacts, Zenon
<1>6. UploadTypeOK'
  <2>1. up' \in [Workers -> [pc : WorkerSteps, pack : Packs, tries : Int]]
    BY ZenonT(40) DEF UploadTypeOK, WorkerSteps
  <2>2. store' \in [Keys -> Packs \cup {None}]
    BY <1>2, Zenon DEF UploadTypeOK, p
  <2> QED BY <2>1, <2>2, Zenon DEF UploadTypeOK
<1>7. AckedSurvives' /\ AckingInv'
  BY <1>4, Zenon DEF AckedSurvives, AckingInv, UploadTypeOK
<1>8. BatchInv'
  BY <1>1 DEF BatchInv, Busy, p
<1>9. StoreInv'
  <2>1. ASSUME NEW v \in Workers, up'[v].pc \in {"visible", "remove", "removed"}
        PROVE  Stored(up[v].pack)'
    BY <1>1, <1>3, <1>4, <2>1, ZenonT(40) DEF StoreInv, Stored, UploadTypeOK
  <2>2. ASSUME NEW v \in Workers, up'[v].pc = "put"
        PROVE  store'[Id[up[v].pack]] = None \/ Stored(up[v].pack)'
    <3> DEFINE q == up[v].pack
    <3>1. v # w /\ up[v].pc = "put" /\ q \in Packs /\ q \in ready
      BY <1>1, <2>2, Zenon DEF BatchInv, Busy, UploadTypeOK
    <3>2. q # p
      BY <3>1, Zenon DEF BatchInv, Busy, p
    <3>3. store[Id[q]] = None \/ Stored(q)
      BY <3>1, Zenon DEF StoreInv
    <3> HIDE DEF q
    <3>4. CASE Id[q] # Id[p]
      BY <1>3, <3>1, <3>3, <3>4, PackFacts DEF Stored, q
    <3>5. CASE Id[q] = Id[p]
      <4>1. store[Id[p]] # None
        BY <1>2, <3>1, <3>2, <3>5, Zenon DEF OneAroundInv, Around
      <4> QED BY <1>2, <3>2, <3>3, <3>5, <4>1, Zenon DEF Stored
    <3> QED BY <3>4, <3>5, Zenon
  <2>3. \A q \in dirty' \ ready' : Stored(q)'
    BY <1>4, PackFacts, Zenon DEF StoreInv, UploadTypeOK
  <2>4. \A v \in Workers : up'[v].pack = up[v].pack
    BY <1>1, Zenon DEF p
  <2> QED BY <2>1, <2>2, <2>3, <2>4, Zenon DEF StoreInv, Stored
<1>10. OneAroundInv'
  <2>1. \A q \in Packs : Around(q)' => Around(q)
    BY Zenon DEF Around
  <2> QED BY <1>5, <2>1, AroundKeeps, Zenon
<1> QED BY <1>6, <1>7, <1>8, <1>9, <1>10, Zenon

(* Remove unlinks what the store has.                                       *)
LEMMA RemoveKeeps ==
    ASSUME SpoolInv, NEW w \in Workers, UploadRemove(w), Fixed
    PROVE  SpoolInv'
<1> USE DEF SpoolInv
<1> DEFINE p == up[w].pack
<1>0. /\ UNCHANGED <<conf, quarantined, acked, st, life, store, remaining>> /\ life = "up"
      /\ up[w].pc = "remove" /\ up' = [up EXCEPT ![w].pc = "removed"]
      /\ ready' = ready \ {p} /\ dirty' \subseteq dirty \cup {p} /\ dirty \subseteq dirty'
  BY Zenon DEF UploadRemove, Working, Goes, Unlink, Fixed
<1>1. /\ up'[w].pc = "removed" /\ up'[w].pack = p
      /\ \A v \in Workers : v # w => up'[v] = up[v]
  BY <1>0, Zenon DEF UploadTypeOK
<1>2. p \in ready /\ p \notin remaining /\ Stored(p)
  BY <1>0, Zenon DEF BatchInv, Busy, StoreInv
<1> HIDE DEF p
<1>3. \A q : Stored(q)' = Stored(q)
  BY <1>0, Zenon DEF Stored
<1>4. UploadTypeOK'
  <2>1. up' \in [Workers -> [pc : WorkerSteps, pack : Packs, tries : Int]]
    BY <1>0, ZenonT(40) DEF UploadTypeOK, WorkerSteps
  <2>2. ready' \subseteq conf.packs /\ dirty' \subseteq conf.packs
    BY <1>0, <1>2, Zenon DEF UploadTypeOK
  <2> QED BY <1>0, <2>1, <2>2, Zenon DEF UploadTypeOK
<1>5. AckedSurvives' /\ AckingInv'
  BY <1>0, <1>2, <1>3, ZenonT(40) DEF AckedSurvives, AckingInv
<1>6. BatchInv'
  BY <1>0, <1>1, <1>2 DEF BatchInv, Busy, p
<1>7. StoreInv'
  BY <1>0, <1>1, <1>2, <1>3, ZenonT(40) DEF StoreInv
<1>8. OneAroundInv'
  <2>1. \A q \in Packs : Around(q)' => Around(q)
    BY <1>0, <1>2, Zenon DEF Around
  <2> QED BY <1>0, <2>1, AroundKeeps, Zenon
<1> QED BY <1>4, <1>5, <1>6, <1>7, <1>8, Zenon

(* The steps of the workers.                                                *)
LEMMA UploadKeeps ==
    ASSUME SpoolInv, NEW w \in Workers, Fixed,
           UploadTake(w) \/ UploadStep(w) \/ UploadPutUnheard(w) \/ UploadFault(w)
    PROVE  SpoolInv'
<1> USE DEF SpoolInv
<1>2. CASE UploadTake(w)
  <2>1. PICK p \in remaining :
          /\ remaining' = remaining \ {p}
          /\ up' = [up EXCEPT ![w] = [pc |-> "head", pack |-> p, tries |-> MaxAttempts]]
    BY <1>2, Zenon DEF UploadTake
  <2>2. UNCHANGED <<conf, ready, dirty, quarantined, acked, st, life, store>> /\ life = "up" /\ up[w].pc = "idle"
    BY <1>2, ZenonT(40) DEF UploadTake, Working, spoolVars, diskVars
  <2>3. /\ up' \in [Workers -> [pc : WorkerSteps, pack : Packs, tries : Int]]
        /\ up'[w].pack = p /\ up'[w].pc = "head" /\ \A v \in Workers : v # w => up'[v] = up[v]
    BY <2>1, PackFacts, UploadAssumption DEF UploadTypeOK, BatchInv, WorkerSteps
  <2>4. UploadTypeOK'
    BY <2>2, <2>3, Zenon DEF UploadTypeOK
  <2>5. \A q : Stored(q)' = Stored(q)
    BY <2>2, Zenon DEF Stored
  <2>6. AckedSurvives' /\ AckingInv'
    BY <2>2, <2>5, Zenon DEF AckedSurvives, AckingInv
  <2>7. BatchInv'
    <3>1. Busy' = Busy \cup {w} /\ w \notin Busy /\ Busy \subseteq Workers
      BY <2>2, <2>3, Zenon DEF Busy
    <3>2. p \in ready /\ \A v \in Busy : up'[v] = up[v] /\ up[v].pack # p
      BY <2>3, <3>1, Zenon DEF BatchInv
    <3>3. \A v \in Busy' : up'[v].pack \notin remaining' /\ (up'[v].pc # "removed" => up'[v].pack \in ready')
      BY <2>1, <2>2, <2>3, <3>1, <3>2, ZenonT(40) DEF BatchInv
    <3>4. \A u, v \in Busy' : up'[v].pack = up'[u].pack => v = u
      BY <2>3, <3>1, <3>2 DEF BatchInv
    <3> QED BY <2>1, <2>2, <3>3, <3>4, Zenon DEF BatchInv
  <2>8. StoreInv'
    BY <2>2, <2>3, <2>5, Zenon DEF StoreInv
  <2>9. OneAroundInv'
    <3>1. \A q \in Packs : Around(q)' => Around(q)
      BY <2>2, Zenon DEF Around
    <3> QED BY <2>2, <3>1, AroundKeeps, Zenon
  <2> QED BY <2>4, <2>6, <2>7, <2>8, <2>9, ZenonT(40)
<1>3. CASE UploadHead(w)
  <2>1. /\ UNCHANGED <<conf, ready, dirty, quarantined, acked, st, life, store, remaining>>
        /\ life = "up" /\ up[w].pc = "head"
    BY <1>3, Zenon DEF UploadHead, Working, spoolVars, diskVars
  <2>2. PICK x \in {"put", "verify", "idle"} : Goes(w, x) /\ (x = "put" => store[Id[up[w].pack]] = None)
    BY <1>3, Zenon DEF UploadHead
  <2> QED BY <2>1, <2>2, UploadWorkerKeeps, Zenon DEF WorkerSteps
<1>4. CASE UploadVerify(w)
  <2>1. /\ UNCHANGED <<conf, ready, dirty, quarantined, acked, st, life, store, remaining>>
        /\ life = "up" /\ up[w].pc = "verify"
    BY <1>4, Zenon DEF UploadVerify, Working, spoolVars, diskVars
  <2>2. PICK x \in {"remove", "retry"} : Goes(w, x) /\ (x = "remove" => Stored(up[w].pack))
    BY <1>4, Zenon DEF UploadVerify, Stored
  <2> QED BY <2>1, <2>2, UploadWorkerKeeps, Zenon DEF WorkerSteps
<1>5. CASE UploadPut(w) \/ UploadPutUnheard(w)
  <2>1. /\ UNCHANGED <<conf, ready, dirty, quarantined, acked, st, life, remaining>>
        /\ life = "up" /\ up[w].pc = "put"
    BY <1>5, Zenon DEF UploadPut, UploadPutUnheard, Working, spoolVars, diskVars, Fixed
  <2>2. CASE /\ store' = [store EXCEPT ![Id[up[w].pack]] = up[w].pack]
             /\ Goes(w, "visible") \/ Goes(w, "retry")
    BY <2>1, <2>2, PutKeeps, Zenon DEF Goes
  <2>3. CASE store' = store /\ (Goes(w, "idle") \/ Goes(w, "retry"))
    BY <2>1, <2>3, UploadWorkerKeeps, Zenon DEF WorkerSteps
  <2> QED BY <1>5, <2>2, <2>3, Zenon DEF UploadPut, UploadPutUnheard
<1>6. CASE UploadVisible(w)
  <2>1. /\ UNCHANGED <<conf, ready, dirty, quarantined, acked, st, life, store, remaining>>
        /\ life = "up" /\ up[w].pc = "visible"
    BY <1>6, Zenon DEF UploadVisible, Working, spoolVars, diskVars
  <2>2. PICK x \in {"remove", "retry"} : Goes(w, x)
    BY <1>6, Zenon DEF UploadVisible
  <2>3. Stored(up[w].pack)
    BY <2>1, Zenon DEF StoreInv
  <2> QED BY <2>1, <2>2, <2>3, UploadWorkerKeeps, Zenon DEF WorkerSteps
<1>7. CASE UploadRetry(w)
  <2>1. /\ UNCHANGED <<conf, ready, dirty, quarantined, acked, st, life, store, remaining>>
        /\ up[w].pc = "retry" /\ up[w].tries \in Int
    BY <1>7, Zenon DEF UploadRetry, Working, spoolVars, diskVars, UploadTypeOK
  <2>2. PICK x \in {"head", "idle"} : up' = [up EXCEPT ![w].tries = @ - 1, ![w].pc = x]
    BY <1>7, Zenon DEF UploadRetry
  <2>3. /\ up' \in [Workers -> [pc : WorkerSteps, pack : Packs, tries : Int]] /\ up'[w].pc = x
        /\ \A v \in Workers : up'[v].pack = up[v].pack /\ (v # w => up'[v].pc = up[v].pc)
    BY <2>1, <2>2 DEF UploadTypeOK, WorkerSteps
  <2>4. Onward(w)
    BY <2>1, <2>3, Zenon DEF Onward
  <2> QED BY <2>1, <2>3, <2>4, WorkersKeep, Zenon
<1>8. CASE UploadRemove(w)
  BY <1>8, RemoveKeeps, Zenon
<1>9. CASE UploadFault(w)
  <2>1. /\ UNCHANGED <<conf, ready, dirty, quarantined, acked, st, life, store, remaining>>
        /\ life = "up" /\ up[w].pc \in {"head", "verify", "put", "visible", "remove"} /\ Goes(w, "retry")
    BY <1>9, Zenon DEF UploadFault, diskVars, Fixed
  <2> QED BY <2>1, UploadWorkerKeeps, Zenon DEF WorkerSteps
<1>10. CASE UploadDone(w)
  <2>1. /\ UNCHANGED <<conf, ready, quarantined, acked, st, life, store, remaining>>
        /\ Goes(w, "idle") /\ dirty' \subseteq dirty
    BY <1>10, Zenon DEF UploadDone, Working, Fixed
  <2>2. /\ up' \in [Workers -> [pc : WorkerSteps, pack : Packs, tries : Int]]
        /\ up'[w].pc = "idle" /\ \A v \in Workers : up'[v].pack = up[v].pack /\ (v # w => up'[v].pc = up[v].pc)
    BY <2>1, ZenonT(40) DEF UploadTypeOK, Goes, WorkerSteps
  <2> QED BY <2>1, <2>2, WorkersKeep, Zenon
<1> QED BY <1>2, <1>3, <1>4, <1>5, <1>6, <1>7, <1>8, <1>9, <1>10, ZenonT(40) DEF UploadStep

---------------------------------------------------------------------------
(* A step that rests every worker, drops unsynced names or sets files       *)
(* aside.                                                                   *)
LEMMA SettleKeeps ==
    ASSUME SpoolInv, UNCHANGED <<conf, acked, store>>,
           ready' \subseteq ready \cup dirty, dirty' \subseteq dirty, quarantined \subseteq quarantined',
           ready \ dirty \subseteq (ready' \ dirty') \cup quarantined', dirty' \ ready' \subseteq dirty \ ready,
           remaining' \subseteq ready', life' # "up" => remaining' = {},
           up' \in [Workers -> [pc : WorkerSteps, pack : Packs, tries : Int]],
           \A v \in Workers : up'[v].pc = "idle",
           st' \in [Stagers -> [pc : StagerSteps, pack : Packs]],
           \/ st' = st /\ ready \subseteq ready' \cup quarantined'
           \/ \A s \in Stagers : st'[s].pc = "idle"
    PROVE  SpoolInv'
<1> USE DEF SpoolInv
<1>1. \A p : Stored(p)' = Stored(p)
  BY Zenon DEF Stored
<1>2. UploadTypeOK'
  <2>1. ready' \subseteq conf'.packs /\ dirty' \subseteq conf'.packs
    BY Zenon DEF UploadTypeOK
  <2>2. \A s \in Stagers : st'[s].pc # "idle" => s \in conf'.stagers /\ st'[s].pack \in conf'.packs
    BY Zenon DEF UploadTypeOK
  <2> QED BY <2>1, <2>2, Zenon DEF UploadTypeOK
<1>3. AckedSurvives'
  BY <1>1, Zenon DEF AckedSurvives
<1>4. AckingInv'
  <2>1. CASE st' = st /\ ready \subseteq ready' \cup quarantined'
    BY <1>1, <2>1, Zenon DEF AckingInv
  <2>2. CASE \A s \in Stagers : st'[s].pc = "idle"
    BY <2>2, Zenon DEF AckingInv, Acking
  <2> QED BY <2>1, <2>2, Zenon
<1>5. BatchInv'
  <2>1. Busy' = {}
    BY Zenon DEF Busy
  <2> QED BY <2>1, Zenon DEF BatchInv
<1>6. StoreInv'
  BY <1>1, Zenon DEF StoreInv
<1>7. OneAroundInv'
  <2>1. \A q \in Packs : Around(q)' => Around(q)
    BY Zenon DEF Around
  <2> QED BY <2>1, AroundKeeps, Zenon
<1> QED BY <1>2, <1>3, <1>4, <1>5, <1>6, <1>7, Zenon

(* A listing sets corrupt files aside; a new batch is what it lists.        *)
LEMMA ListingKeeps ==
    ASSUME SpoolInv, Fixed, UploadPending \/ (RecoverSweep /\ NoUpload)
    PROVE  SpoolInv'
<1> USE DEF SpoolInv
<1>1. /\ UNCHANGED <<conf, acked, store, up, st>>
      /\ Busy = {} /\ remaining' \subseteq Listed /\ (life' # "up" => remaining' = {})
  BY Zenon DEF UploadPending, RecoverSweep, NoUpload, Fixed, uploadVars, BatchInv
<1>2. Quarantine
  BY Zenon DEF UploadPending, RecoverSweep
<1>3. \A v \in Workers : up'[v].pc = "idle"
  BY <1>1, Zenon DEF Busy
<1> QED BY <1>1, <1>2, <1>3, SettleKeeps, ZenonT(40) DEF Quarantine, Listed, UploadTypeOK

(* A crash keeps or undoes each unsynced link and unlink: an acknowledged   *)
(* name was synced, and an unlinked pack is in the store.                   *)
LEMMA CrashKeeps ==
    ASSUME SpoolInv, Fixed, Crash
    PROVE  SpoolInv'
<1> USE DEF SpoolInv
<1>1. /\ UNCHANGED <<conf, acked, store, quarantined>> /\ dirty' = {} /\ remaining' = {}
      /\ ready' \subseteq ready \cup dirty /\ ready \ dirty \subseteq ready'
  BY Zenon DEF Crash, CrashDisk, Fixed
<1>2. up' \in [Workers -> [pc : WorkerSteps, pack : Packs, tries : Int]] /\ \A v \in Workers : up'[v].pc = "idle"
  BY Zenon DEF Crash, UploadTypeOK, WorkerSteps
<1>3. st' \in [Stagers -> [pc : StagerSteps, pack : Packs]] /\ \A s \in Stagers : st'[s].pc = "idle"
  BY DEF Crash, CrashDisk, UploadTypeOK, StagerSteps, Resting
<1> QED BY <1>1, <1>2, <1>3, SettleKeeps, Zenon

(* A cancel ends the uploads under way, but not a removal.                  *)
LEMMA CancelKeeps ==
    ASSUME SpoolInv, Fixed, UploadCancel
    PROVE  SpoolInv'
<1>1. /\ UNCHANGED <<conf, ready, dirty, quarantined, acked, st, life, store>> /\ remaining' = {}
  BY Zenon DEF UploadCancel, spoolVars, diskVars
<1>2. up' \in [Workers -> [pc : WorkerSteps, pack : Packs, tries : Int]]
  BY DEF UploadCancel, SpoolInv, UploadTypeOK, WorkerSteps
<1>3. \A v \in Workers : up'[v].pack = up[v].pack /\ (up'[v].pc = up[v].pc \/ up'[v].pc = "idle")
  BY Zenon DEF UploadCancel, SpoolInv, UploadTypeOK
<1> QED BY <1>1, <1>2, <1>3, WorkersKeep, Zenon

(* Bit rot and the opening of a swept directory.                            *)
LEMMA OpenKeeps ==
    ASSUME SpoolInv, Fixed, NoUpload, OpenSpool \/ \E p \in Packs : BitRot(p)
    PROVE  SpoolInv'
<1> USE DEF SpoolInv
<1>1. UNCHANGED <<conf, ready, dirty, quarantined, acked, st, store, up, remaining>> /\ (life' = life \/ life' = "up")
  BY Zenon DEF OpenSpool, BitRot, NoUpload, Fixed, uploadVars, diskVars
<1>2. \A p : Stored(p)' = Stored(p) /\ Around(p)' = Around(p)
  BY <1>1, Zenon DEF Stored, Around
<1>3. UploadTypeOK' /\ StoreInv' /\ AckedSurvives' /\ AckingInv'
  BY <1>1, <1>2, ZenonT(40) DEF UploadTypeOK, StoreInv, AckedSurvives, AckingInv
<1>4. BatchInv' /\ OneAroundInv'
  BY <1>1, <1>2, ZenonT(40) DEF BatchInv, Busy, OneAroundInv
<1> QED BY <1>3, <1>4, Zenon

---------------------------------------------------------------------------
(* Nothing is staged or acknowledged in the beginning.                      *)
LEMMA SpoolStarts == Init => SpoolInv
<1> SUFFICES ASSUME Init PROVE SpoolInv
  BY Zenon
<1>1. /\ conf \in Scenarios /\ ready = {} /\ dirty = {} /\ acked = {}
      /\ \A s \in Stagers : st[s].pc = "idle"
  BY Zenon DEF Init, SpoolInit
<1>2. \A w \in Workers : up[w].pc = "idle"
  BY ZenonT(40) DEF Init
<1>3. UploadTypeOK
  BY UploadAssumption DEF Init, SpoolInit, UploadTypeOK, StagerSteps, WorkerSteps, Resting
<1> QED BY <1>1, <1>2, <1>3, ZenonT(40) DEF Init, SpoolInv, AckedSurvives, AckingInv, Acking, BatchInv, Busy, StoreInv, OneAroundInv, Around

(* SpoolInv holds in every reachable state: what the spool, its stagers,    *)
(* the upload workers, crashes and the recovery keep between them.          *)
THEOREM SpoolHolds == Spec => []SpoolInv
<1>1. ASSUME SpoolInv, [Next]_vars PROVE SpoolInv'
  <2>1. CASE Next
    <3>1. CASE \E s \in Stagers : \/ \E p \in Packs : StageCheck(s, p) /\ NoUpload
                                  \/ StageStep(s) /\ NoUpload
      BY <1>1, <2>1, <3>1, CheckKeeps, StageKeeps, Zenon DEF Next
    <3>2. CASE \E w \in Workers : \/ UploadTake(w) \/ UploadStep(w)
                                  \/ UploadPutUnheard(w) \/ UploadFault(w)
      BY <1>1, <2>1, <3>2, UploadKeeps, Zenon DEF Next
    <3>3. CASE UploadPending \/ (RecoverSweep /\ NoUpload)
      BY <1>1, <2>1, <3>3, ListingKeeps, Zenon DEF Next
    <3>4. CASE UploadCancel \/ Crash
      BY <1>1, <2>1, <3>4, CancelKeeps, CrashKeeps, Zenon DEF Next
    <3>5. CASE OpenSpool /\ NoUpload
      BY <1>1, <2>1, <3>5, OpenKeeps, Zenon DEF Next
    <3>6. CASE \E p \in Packs : BitRot(p) /\ NoUpload
      BY <1>1, <2>1, <3>6, OpenKeeps, Zenon DEF Next
    <3> QED BY <2>1, <3>1, <3>2, <3>3, <3>4, <3>5, <3>6, ZenonT(40) DEF Next
  <2>2. CASE UNCHANGED vars
    <3>1. UNCHANGED <<conf, ready, dirty, quarantined, acked, st, life, store, up, remaining>>
      BY <2>2, Zenon DEF vars, spoolVars, uploadVars, diskVars
    <3>2. \A v \in Workers : up'[v].pack = up[v].pack /\ up'[v].pc = up[v].pc
      BY <3>1, Zenon
    <3>3. up' \in [Workers -> [pc : WorkerSteps, pack : Packs, tries : Int]]
      BY <1>1, <3>1, Zenon DEF SpoolInv, UploadTypeOK
    <3> QED BY <1>1, <3>1, <3>2, <3>3, WorkersKeep, Zenon
  <2> QED BY <1>1, <2>1, <2>2, Zenon
<1> QED BY <1>1, SpoolStarts, PTL DEF Spec

(* A pack the spool acknowledged survives every crash: it is in a ready     *)
(* file whose name is durable, in the object store, or set aside by a       *)
(* listing that found its bytes changed.                                    *)
THEOREM AckedPacksSurvive == Spec => []AckedSurvives
BY SpoolHolds, PTL DEF SpoolInv
=============================================================================
