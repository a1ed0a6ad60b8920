--------------------------- MODULE RecordConsumer ---------------------------
(***************************************************************************)
(* The record consumer of a record ring (native/csrc/ring/record_consumer)  *)
(* and the worker that feeds it (RecordP2PThread).  The forward pushes one   *)
(* descriptor per record before the record's payload enters the ring; the   *)
(* ring hands payloads to the worker in emission order; the worker pairs    *)
(* each payload with the oldest descriptor and submits the pair to a sink.  *)
(*                                                                          *)
(* A pair is never checked by the code: it is right only because every path *)
(* that drops a descriptor also drops, or owes the drop of, its payload.    *)
(* Those paths are the failure latch under the two failure policies and the *)
(* discard window a spent stall budget opens.                               *)
(*                                                                          *)
(* Records are numbered in push order, so the ring between the push and the *)
(* worker is three counters: pushed, emitted into the ring, taken out of it.*)
(***************************************************************************)
EXTENDS Integers, Sequences, FiniteSets

CONSTANTS
    Pushes,         \* how many descriptors one push may carry
    MaxRecords,     \* bound: descriptors pushed in a behaviour
    MaxSteps        \* bound: model steps begun

ASSUME PushesAssumption == Pushes \subseteq Nat \ {0}
ASSUME RecordBounds == MaxRecords \in Nat /\ MaxSteps \in Nat

VARIABLES
    \* RecordFailurePolicy of the runtime, fixed when it is built
    policy,
    \* RecordConsumer, all under its mutex
    failed, descs, discarding, owed, active, discardedDescs, discardedPayloads,
    stepsWithDiscards, lastDiscarded, rstep,
    \* the worker: control point, the payload and the descriptor in its hands
    wpc, cur, desc,
    \* records whose descriptor was pushed, whose payload entered the ring,
    \* whose payload the worker took
    pushed, emitted, taken,
    \* history: records a sink accepted, records it refused, steps that lost
    \* a record to a discard window
    stored, refused, lostSteps

discardVars  == <<discardedDescs, discardedPayloads, stepsWithDiscards, lastDiscarded, lostSteps>>
workerVars   == <<wpc, cur, desc, taken, stored, refused>>
consumerVars == <<policy, failed, descs, discarding, owed, active, discardVars, rstep, workerVars, pushed, emitted>>

Disable == policy = "disable"
NoRecord == 0

ConsumerInit ==
    /\ policy \in {"raise", "disable"}
    /\ failed = FALSE /\ descs = <<>> /\ discarding = FALSE /\ owed = 0 /\ active = 0
    /\ discardedDescs = 0 /\ discardedPayloads = 0
    /\ stepsWithDiscards = 0 /\ lastDiscarded = 0 /\ rstep = 0
    /\ wpc = "idle" /\ cur = NoRecord /\ desc = NoRecord
    /\ pushed = 0 /\ emitted = 0 /\ taken = 0
    /\ stored = 0 /\ refused = 0 /\ lostSteps = {}

-----------------------------------------------------------------------------
(* The producer's side.                                                     *)

\* begin_step.  (RingEnginePy counts the first step before any record.)
ConsumerBeginStep ==
    /\ rstep < MaxSteps
    /\ rstep' = rstep + 1

\* note_discarded_step_locked, called for each step of ss in turn: a step is
\* counted when it differs from the one noted last.
NoteDiscarded(ss) ==
    LET prev(i) == IF i = 1 THEN lastDiscarded ELSE ss[i - 1]
    IN /\ stepsWithDiscards' = stepsWithDiscards
                                + Cardinality({i \in DOMAIN ss : ss[i] # prev(i)})
       /\ lastDiscarded' = IF ss = <<>> THEN lastDiscarded ELSE ss[Len(ss)]
       /\ lostSteps' = lostSteps \cup {ss[i] : i \in DOMAIN ss}

\* push_descriptors of k records.  Under "raise" a failed consumer raises, so
\* nothing changes and the caller emits no payload.
PushDescriptors(k) ==
    /\ pushed' = pushed + k
    /\ \/ /\ failed /\ Disable
          /\ discardedDescs' = discardedDescs + k
          /\ UNCHANGED <<descs, owed, stepsWithDiscards, lastDiscarded, lostSteps>>
       \/ /\ ~failed /\ discarding
          /\ discardedDescs' = discardedDescs + k
          /\ owed' = owed + k
          /\ NoteDiscarded(<<rstep>>)
          /\ UNCHANGED descs
       \/ /\ ~failed /\ ~discarding
          /\ descs' = descs \o [i \in 1 .. k |-> [id |-> pushed + i, step |-> rstep]]
          /\ UNCHANGED <<discardedDescs, owed, stepsWithDiscards, lastDiscarded, lostSteps>>
    /\ UNCHANGED <<failed, discarding, active, discardedPayloads, rstep>>

\* begin_discard_window: drop every queued descriptor and owe its payload.
\* Mutant: only what is pushed from now on is discarded.
BeginDiscardWindowKeepQueue ==
    /\ discarding' = TRUE
    /\ owed' = owed + Len(descs)
    /\ discardedDescs' = discardedDescs + Len(descs)
    /\ NoteDiscarded([i \in 1 .. Len(descs) |-> descs[i].step])
    /\ UNCHANGED <<failed, descs, active, discardedPayloads, rstep>>
BeginDiscardWindow ==
    /\ discarding' = TRUE
    /\ NoteDiscarded([i \in 1 .. Len(descs) |-> descs[i].step])
    /\ discardedDescs' = discardedDescs + Len(descs)
    /\ owed' = owed + Len(descs)
    /\ descs' = <<>>
    /\ UNCHANGED <<failed, active, discardedPayloads, rstep>>

EndDiscardWindow ==
    /\ discarding' = FALSE
    /\ UNCHANGED <<failed, descs, owed, active, discardVars, rstep>>

-----------------------------------------------------------------------------
(* The failure latch and the worker.                                        *)

\* latch_locked: the first failure stays; "disable" also drops the queue.
Latch ==
    /\ failed' = TRUE
    /\ IF Disable
       THEN /\ discardedDescs' = discardedDescs + Len(descs)
            /\ descs' = <<>> /\ owed' = 0
       ELSE UNCHANGED <<discardedDescs, descs, owed>>

\* record_failure, from the reserving thread or the flush.
RecordFailure ==
    /\ Latch
    /\ UNCHANGED <<discarding, active, discardedPayloads, stepsWithDiscards, lastDiscarded,
                   lostSteps, rstep>>

\* take_unwanted_payload_locked, when it takes the payload.
Unwanted == IF failed THEN Disable ELSE owed > 0
TakeUnwanted ==
    /\ owed' = IF failed THEN owed ELSE owed - 1
    /\ discardedPayloads' = discardedPayloads + 1
    /\ UNCHANGED <<failed, descs, discarding, active, discardedDescs, stepsWithDiscards,
                   lastDiscarded, lostSteps, rstep>>

\* RecordP2PThread::process takes the next task of its queue.
Take ==
    /\ wpc = "idle" /\ taken < emitted
    /\ taken' = taken + 1 /\ cur' = taken + 1
    /\ wpc' = "check"
    /\ UNCHANGED <<desc, stored, refused>>

\* discard_next_payload_if_unwanted: skip the copy of an unwanted payload.
DiscardCheck ==
    /\ wpc = "check"
    /\ IF Unwanted
       THEN TakeUnwanted /\ wpc' = "idle"
       ELSE /\ wpc' = "copied"
            /\ UNCHANGED <<failed, descs, discarding, owed, active, discardVars, rstep>>
    /\ UNCHANGED <<cur, desc, taken, stored, refused>>

\* consume_payload up to the submit: the payload may have become unwanted
\* since the check.  The worker turns a raise into record_failure.
Consume ==
    /\ wpc = "copied"
    /\ IF failed /\ ~Disable
       THEN /\ wpc' = "idle" /\ Latch
            /\ UNCHANGED <<active, discardedPayloads, desc>>
       ELSE IF Unwanted
       THEN /\ wpc' = "idle"
            /\ owed' = IF failed THEN owed ELSE owed - 1
            /\ discardedPayloads' = discardedPayloads + 1
            /\ UNCHANGED <<failed, descs, active, discardedDescs, desc>>
       ELSE IF descs = <<>>
       THEN /\ wpc' = "idle" /\ Latch
            /\ discardedPayloads' = discardedPayloads + (IF Disable THEN 1 ELSE 0)
            /\ UNCHANGED <<active, desc>>
       ELSE /\ wpc' = "submit" /\ desc' = Head(descs).id
            /\ descs' = Tail(descs) /\ active' = active + 1
            /\ UNCHANGED <<failed, owed, discardedDescs, discardedPayloads>>
    /\ UNCHANGED <<discarding, stepsWithDiscards, lastDiscarded, lostSteps, rstep>>
    /\ UNCHANGED <<cur, taken, stored, refused>>

\* The sink takes the envelope; the payload is retired under the lock after.
\* (An envelope without rows skips the sink and counts as taken.)
SinkAccepts ==
    /\ wpc = "submit"
    /\ stored' = stored + 1 /\ wpc' = "retire"
    /\ UNCHANGED <<failed, descs, discarding, owed, active, discardVars, rstep>>
    /\ UNCHANGED <<cur, desc, taken, refused>>
Retire ==
    /\ wpc = "retire"
    /\ active' = active - 1 /\ wpc' = "idle" /\ desc' = NoRecord
    /\ UNCHANGED <<failed, descs, discarding, owed, discardVars, rstep>>
    /\ UNCHANGED <<cur, taken, stored, refused>>

\* The sink, or the envelope's validation, throws: the latch and the retire
\* are one critical section.  Under "raise" process latches again, idly.
SinkRefuses ==
    /\ wpc = "submit"
    /\ Latch
    /\ refused' = refused + 1
    /\ active' = active - 1 /\ wpc' = "idle" /\ desc' = NoRecord
    /\ discardedPayloads' = discardedPayloads + (IF Disable THEN 1 ELSE 0)
    /\ UNCHANGED <<discarding, stepsWithDiscards, lastDiscarded, lostSteps, rstep>>
    /\ UNCHANGED <<cur, taken, stored>>

WorkerStep == DiscardCheck \/ Consume \/ SinkAccepts \/ Retire \/ SinkRefuses
-----------------------------------------------------------------------------
(* The consumer alone: a producer that calls it in any order, and a ring    *)
(* that delivers every pushed record's payload, in order, at any time.      *)

Push(k) ==
    /\ pushed + k <= MaxRecords /\ rstep > 0
    /\ PushDescriptors(k)
    /\ UNCHANGED <<workerVars, emitted>>
Emit ==
    /\ emitted < pushed
    /\ emitted' = emitted + 1
    /\ UNCHANGED <<failed, descs, discarding, owed, active, discardVars, rstep, workerVars, pushed>>
BeginStep ==
    /\ ConsumerBeginStep
    /\ UNCHANGED <<failed, descs, discarding, owed, active, discardVars, workerVars, pushed, emitted>>
OpenWindow ==
    /\ ~discarding /\ BeginDiscardWindow
    /\ UNCHANGED <<workerVars, pushed, emitted>>
CloseWindow ==
    /\ discarding /\ EndDiscardWindow
    /\ UNCHANGED <<workerVars, pushed, emitted>>
FailFromProducer ==
    /\ ~failed /\ RecordFailure
    /\ UNCHANGED <<workerVars, pushed, emitted>>
WorkerTake ==
    /\ Take
    /\ UNCHANGED <<failed, descs, discarding, owed, active, discardVars, rstep, pushed, emitted>>
WorkerRun == WorkerStep /\ UNCHANGED <<pushed, emitted>>

ConsumerNext ==
    /\ \/ \E k \in Pushes : Push(k)
       \/ Emit \/ BeginStep \/ OpenWindow \/ CloseWindow \/ FailFromProducer
       \/ WorkerTake \/ WorkerRun
    /\ UNCHANGED policy

ConsumerSpec == ConsumerInit /\ [][ConsumerNext]_consumerVars
-----------------------------------------------------------------------------
(* Properties.                                                              *)

\* The type invariant of RecordConsumer and RecordP2PThread.
ConsumerTypeOK ==
    /\ policy \in {"raise", "disable"}
    /\ failed \in BOOLEAN /\ discarding \in BOOLEAN
    /\ descs \in Seq([id : Nat, step : Nat])
    /\ owed \in Nat /\ active \in Nat
    /\ discardedDescs \in Nat /\ discardedPayloads \in Nat
    /\ stepsWithDiscards \in Nat /\ lastDiscarded \in Nat /\ rstep \in Nat
    /\ wpc \in {"idle", "check", "copied", "submit", "retire"}
    /\ cur \in Nat /\ desc \in Nat
    /\ pushed \in Nat /\ emitted \in Nat /\ taken \in Nat
    /\ stored \in Nat /\ refused \in Nat /\ lostSteps \subseteq Nat

\* Every envelope submitted to the sink holds a payload and the descriptor of
\* that payload, whatever discard windows and failures came before
\* (consume_payload pairs by position only).
SubmitsOwnPayload == wpc \in {"submit", "retire"} => desc = cur

\* The consumer is idle in the sense of wait_until_idle.
Idle == descs = <<>> /\ active = 0 /\ owed = 0

\* A flush waiter that sees an idle, unfailed consumer knows the fate of every
\* record: it was accepted by the sink, or a discard window counted both its
\* descriptor and its payload.  In particular no submit failed unseen ("A
\* flush waiter must never observe an idle consumer before the submit failure
\* becomes visible", record_consumer.cpp:160).
IdleMeansAllHandled ==
    Idle /\ ~failed =>
        /\ stored + discardedPayloads = pushed
        /\ discardedPayloads = discardedDescs
        /\ refused = 0

\* Once every payload of a runtime with disable_capture has come through, the
\* counters of capture_status account for each record: stored, or its payload
\* counted as discarded, and every descriptor counted too except the one a
\* refusing sink was given.
DiscardsBalance ==
    Disable /\ taken = pushed /\ wpc = "idle" =>
        /\ stored + discardedPayloads = pushed
        /\ stored + discardedDescs + refused = pushed

\* Why the pairs are right.  A payload in the worker's hands before it is
\* paired or discarded is InHand; the payloads before it are Settled.  While
\* the consumer is unfailed, the payloads still to come are first the owed
\* ones and then exactly those of the queued descriptors.
InHand == IF wpc \in {"check", "copied"} THEN 1 ELSE 0
Submitting == IF wpc = "submit" THEN 1 ELSE 0
Settled == taken - InHand
WorkerInv ==
    /\ cur = taken /\ taken <= emitted /\ emitted <= pushed
    /\ (wpc # "idle" => taken > 0)
    /\ SubmitsOwnPayload
    /\ active = (IF wpc \in {"submit", "retire"} THEN 1 ELSE 0)
QueueInv == \A i \in 1 .. Len(descs) : descs[i].id = Settled + owed + i
LiveInv ==
    /\ pushed = Settled + owed + Len(descs)
    /\ stored + discardedPayloads + Submitting = Settled
    /\ discardedDescs = discardedPayloads + owed
    /\ refused = 0
    /\ discarding => descs = <<>>
LatchedInv ==
    /\ descs = <<>> /\ owed = 0
    /\ stored + discardedPayloads + Submitting = Settled
    /\ stored + discardedDescs + refused + Submitting = pushed
PairingInv ==
    /\ WorkerInv
    /\ ~failed => QueueInv /\ LiveInv
    /\ failed /\ Disable => LatchedInv
=============================================================================
