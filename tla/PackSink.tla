------------------------------ MODULE PackSink ------------------------------
(***************************************************************************)
(* The native capture sink (native/csrc/sink/pack_sink.cpp) behind its     *)
(* ring adapter (native_pack_sink.cpp): a bounded queue per packer, one    *)
(* open pack per packer, a bounded stage queue per packer/stager pair, and *)
(* flush barriers that travel through all of them.  Records are numbered   *)
(* in the order the record worker submits them; Script gives each one its  *)
(* scope, size and capture id.                                             *)
(*                                                                         *)
(* Waits on condition variables are explicit: a thread whose predicate is  *)
(* false goes to sleep and runs again only when somebody notifies the      *)
(* condition variable it sleeps on, so a notification sent to the wrong    *)
(* one is a lost wakeup.                                                   *)
(***************************************************************************)
EXTENDS Integers, Sequences, FiniteSets, FiniteSetsExt

CONSTANTS
    MaxQueueBytes, MaxPackBytes, MaxPackRecords, StageQueuePacks,
    Framing,          \* what the pack's header, footer and trailer add
    Flushers,         \* host threads that call flush_and_wait
    Scenarios         \* the configurations and bounds of a behaviour

(* A configuration: config.num_workers packer/stager pairs, RouteWorker's  *)
(* map of scopes to pairs, the queue bound in records, Overload::kBlock    *)
(* (else kDropNewest), whether timeouts are finite; and what is done with  *)
(* it: the records to submit, whether a stage or a seal may fail, and how  *)
(* often each flusher flushes and the engine releases the sink.            *)
Fields == {"workers", "route", "queueRecords", "block", "timed", "script",
           "faults", "flushes", "releases"}

ASSUME SinkAssumption ==
    /\ MaxPackRecords \in Nat \ {0} /\ StageQueuePacks \in Nat \ {0}
    /\ "free" \notin Flushers
    /\ \A c \in Scenarios :
         /\ DOMAIN c = Fields
         /\ c.workers \in Nat \ {0} /\ c.script \in Seq(Range(c.script))
         /\ \A r \in DOMAIN c.script : c.route[c.script[r].scope] \in 1 .. c.workers

VARIABLES
    conf,       \* the configuration, fixed when the sink is built
    sub,        \* the record worker in submit(): [pc, sent]
    attached,   \* the sink is owned by a ring engine
    releases,   \* number of releases so far
    sealed,     \* sealed_on_release_
    queue,      \* queues_[w]: records and barrier copies
    wpc, hand,  \* packer w: where it is, and the item it popped
    builder,    \* packer w's open pack (<<>>: none)
    due,        \* packer w's open pack is older than max_linger_ns
    stageq,     \* stage_queues_[w]: packs and barrier copies
    spc, shand, \* stager w and the item it popped
    closed, stageClosed, latched,
    barrier,    \* FlushBarrier objects made so far
    pending,    \* pending_ (0: none)
    flush,      \* flusher f in Flush(): [pc, want, on, calls]
    flushLock,  \* flush_mutex_ ("free" or its holder)
    cpc,        \* the destructor (or Close())
    admitted,   \* the records admitted, in order
    persisted,  \* records of packs Stage() acknowledged, in order
    duplicate, oversized, refused,  \* the loss counters, as sets of records
    asleep      \* threads asleep on their condition variable

hostVars == <<attached, releases, sealed, cpc>>
packVars == <<wpc, hand, builder, due>>
stageVars == <<stageq, spc, shand>>
stopVars == <<closed, stageClosed, latched>>
flushVars == <<barrier, pending, flush, flushLock>>
logVars == <<admitted, persisted, duplicate, oversized, refused>>
svars == <<conf, sub, hostVars, queue, packVars, stageVars, stopVars, flushVars,
           logVars, asleep>>

Workers == 1 .. conf.workers
Script == conf.script
AllPairs == UNION {1 .. c.workers : c \in Scenarios}
AllFlushers == Flushers \cup {"release"}
NoItem == [kind |-> "none"]
RecordItem(r) == [kind |-> "record", n |-> r]
BarrierItem(b) == [kind |-> "barrier", n |-> b]
PackItem(p) == [kind |-> "pack", n |-> p]
Packer(w) == <<"packer", w>>
Stager(w) == <<"stager", w>>
Submitter == <<"submitter", 0>>
Flusher(f) == <<"flusher", f>>

Bytes(rs) == MapThenSumSet(LAMBDA r : Script[r].bytes, rs)

(* queue_records_ and queue_bytes_ are over all the queues.                *)
QueuedIn(w) == {i.n : i \in {q \in Range(queue[w]) : q.kind = "record"}}
Queued == UNION {QueuedIn(w) : w \in Workers}

(* What LossError() finds moved since construction.                        *)
Losses == duplicate \cup oversized \cup refused

---------------------------------------------------------------------------
(* Condition variables.  cv_ is shared by the blocked submitter and the    *)
(* flush waiters; worker_cv_[w] is packer w's; stage_cv_[w] is shared by    *)
(* packer w waiting for room and stager w waiting for an item.              *)
OnCv == {Submitter} \cup {Flusher(f) : f \in AllFlushers}
OnWorkerCv(w) == IF wpc[w] = "wait" THEN {Packer(w)} ELSE {}
(* Mutant: a packer waiting to forward a barrier waits on the shared cv_.     *)
OnStageCvShared(w) ==
    {Stager(w)} \cup (IF wpc[w] = "wait" \/ hand[w].kind = "barrier" THEN {}
                     ELSE {Packer(w)})

OnStageCv(w) == {Stager(w)} \cup (IF wpc[w] = "wait" THEN {} ELSE {Packer(w)})
Everyone == OnCv \cup UNION {{Packer(w), Stager(w)} : w \in Workers}
Notify(threads) == asleep' = asleep \ threads
Awake(t) == t \notin asleep
Sleep(t) == Awake(t) /\ asleep' = asleep \cup {t}

SinkInit ==
    /\ conf \in Scenarios
    /\ sub = [pc |-> "idle", sent |-> 0]
    /\ attached = TRUE /\ releases = 0 /\ sealed = FALSE /\ cpc = "open"
    /\ queue = [w \in Workers |-> <<>>]
    /\ wpc = [w \in Workers |-> "wait"] /\ hand = [w \in Workers |-> NoItem]
    /\ builder = [w \in Workers |-> <<>>] /\ due = [w \in Workers |-> FALSE]
    /\ stageq = [w \in Workers |-> <<>>]
    /\ spc = [w \in Workers |-> "wait"] /\ shand = [w \in Workers |-> NoItem]
    /\ closed = FALSE /\ stageClosed = FALSE /\ latched = FALSE
    /\ barrier = <<>> /\ pending = 0 /\ flushLock = "free"
    /\ flush = [f \in AllFlushers |->
                  [pc |-> "idle", want |-> 0, on |-> 0, calls |-> 0]]
    /\ admitted = <<>> /\ persisted = <<>>
    /\ duplicate = {} /\ oversized = {} /\ refused = {}
    /\ asleep = {}

(* Completes the pending barrier with an error, if it is still open.       *)
FailPending(bs) ==
    IF pending /= 0 /\ ~bs[pending].completed
    THEN [bs EXCEPT ![pending].completed = TRUE, ![pending].error = TRUE]
    ELSE bs

(* Latch, close, fail the pending barrier, wake everybody.                 *)
FailWorker ==
    /\ latched' = TRUE /\ closed' = TRUE /\ UNCHANGED stageClosed
    /\ barrier' = FailPending(barrier)
    /\ UNCHANGED <<pending, flush, flushLock>>
    /\ Notify(Everyone)

---------------------------------------------------------------------------
(* NativePackSink::submit and PackSink::SubmitBy, on the record worker.    *)
Current == sub.sent + 1
Stopped == sub' = [pc |-> "stopped", sent |-> Current]

(* rethrow_if_failed, and SubmitBy up to its size screens.  A refusal ends *)
(* the capture: the record consumer latches it.                             *)
SubmitStart ==
    /\ sub.pc = "idle" /\ attached /\ sub.sent < Len(Script)
    /\ \/ /\ latched \/ Losses /= {}
          /\ Stopped /\ UNCHANGED oversized
       \/ /\ ~latched /\ Losses = {}
          /\ Script[Current].bytes > Min({MaxPackBytes, MaxQueueBytes})
          /\ Stopped /\ oversized' = oversized \cup {Current}
       \/ /\ ~latched /\ Losses = {}
          /\ Script[Current].bytes <= Min({MaxPackBytes, MaxQueueBytes})
          /\ sub' = [sub EXCEPT !.pc = "admit"] /\ UNCHANGED oversized
    /\ UNCHANGED <<hostVars, queue, packVars, stageVars, stopVars, flushVars,
                   admitted, persisted, duplicate, refused, asleep>>

HasRoom(r) == /\ Cardinality(Queued) < conf.queueRecords
              /\ Bytes(Queued) + Script[r].bytes <= MaxQueueBytes

SubmitAdmit ==
    /\ sub.pc = "admit" /\ Awake(Submitter) /\ ~closed /\ HasRoom(Current)
    /\ LET w == conf.route[Script[Current].scope] IN
       /\ queue' = [queue EXCEPT ![w] = Append(@, RecordItem(Current))]
       /\ Notify(OnWorkerCv(w))
    /\ admitted' = Append(admitted, Current)
    /\ sub' = [pc |-> "idle", sent |-> Current]
    /\ UNCHANGED <<hostVars, packVars, stageVars, stopVars, flushVars,
                   persisted, duplicate, oversized, refused>>

(* Closed, dropped or timed out: counted and refused.                      *)
SubmitRefused ==
    /\ sub.pc = "admit"
    /\ \/ closed /\ Awake(Submitter)
       \/ ~closed /\ ~HasRoom(Current) /\ (conf.timed \/ ~conf.block)
    /\ Stopped
    /\ refused' = refused \cup {Current}
    /\ Notify({Submitter})
    /\ UNCHANGED <<hostVars, queue, packVars, stageVars, stopVars, flushVars,
                   admitted, persisted, duplicate, oversized>>

SubmitWait ==
    /\ sub.pc = "admit" /\ conf.block /\ ~closed /\ ~HasRoom(Current)
    /\ Sleep(Submitter)
    /\ UNCHANGED <<sub, hostVars, queue, packVars, stageVars, stopVars,
                   flushVars, logVars>>

---------------------------------------------------------------------------
(* Run(w): the packer.                                                     *)
GoTo(w, pc) == wpc' = [wpc EXCEPT ![w] = pc]
Take(w, item) == hand' = [hand EXCEPT ![w] = item]

(* max_linger_ns passes for the open pack; a timed wait ends.              *)
LingerDue(w) ==
    /\ builder[w] /= <<>> /\ ~due[w]
    /\ due' = [due EXCEPT ![w] = TRUE]
    /\ Notify(OnWorkerCv(w))
    /\ UNCHANGED <<sub, hostVars, queue, wpc, hand, builder, stageVars,
                   stopVars, flushVars, logVars>>

PackerPop(w) ==
    /\ wpc[w] = "wait" /\ Awake(Packer(w)) /\ queue[w] /= <<>>
    /\ Take(w, Head(queue[w])) /\ GoTo(w, "item")
    /\ queue' = [queue EXCEPT ![w] = Tail(@)]
    /\ Notify(OnCv)
    /\ UNCHANGED <<sub, hostVars, builder, due, stageVars, stopVars, flushVars,
                   logVars>>

(* An empty queue: exit once closed, seal an expired pack, or wait.        *)
PackerIdle(w) ==
    /\ wpc[w] = "wait" /\ Awake(Packer(w)) /\ queue[w] = <<>>
    /\ \/ closed /\ GoTo(w, "exit") /\ UNCHANGED asleep
       \/ ~closed /\ due[w] /\ GoTo(w, "seal") /\ UNCHANGED asleep
       \/ ~closed /\ ~due[w] /\ Sleep(Packer(w)) /\ UNCHANGED wpc
    /\ UNCHANGED <<sub, hostVars, queue, hand, builder, due, stageVars,
                   stopVars, flushVars, logVars>>

Ids(p) == {Script[r].id : r \in Range(p)}
IsDuplicate(w, r) == Script[r].id \in Ids(builder[w])
Fits(p, r) == Framing + Bytes(Range(p)) + Script[r].bytes <= MaxPackBytes

(* The item in hand needs the open pack sealed first: a barrier, an        *)
(* expired linger, another scope, or a pack with no room for the record.    *)
SealFirst(w) ==
    /\ builder[w] /= <<>>
    /\ \/ hand[w].kind = "barrier"
       \/ /\ hand[w].kind = "record"
          /\ LET r == hand[w].n IN
             \/ due[w]
             \/ Script[r].scope /= Script[Head(builder[w])].scope
             \/ ~IsDuplicate(w, r) /\ ~Fits(builder[w], r)

(* Whether packer w's next step is SealForStager.                          *)
Sealing(w) == \/ wpc[w] \in {"seal", "exit"} /\ builder[w] /= <<>>
              \/ wpc[w] = "item" /\ SealFirst(w)
Forwarding(w) ==
    wpc[w] = "item" /\ hand[w].kind = "barrier" /\ builder[w] = <<>>
StageRoom(w) == closed \/ Len(stageq[w]) < StageQueuePacks

PackerSleep(w) ==
    /\ Sealing(w) \/ Forwarding(w)
    /\ ~StageRoom(w)
    /\ Sleep(Packer(w))
    /\ UNCHANGED <<sub, hostVars, queue, packVars, stageVars, stopVars,
                   flushVars, logVars>>

SealForStager(w) ==
    /\ Sealing(w) /\ Awake(Packer(w)) /\ StageRoom(w)
    /\ stageq' = [stageq EXCEPT ![w] = Append(@, PackItem(builder[w]))]
    /\ builder' = [builder EXCEPT ![w] = <<>>]
    /\ due' = [due EXCEPT ![w] = FALSE]
    /\ wpc' = [wpc EXCEPT ![w] = CASE @ = "seal" -> "wait"
                                   [] @ = "exit" -> "dead"
                                   [] OTHER -> @]
    /\ Notify({Stager(w)})
    /\ UNCHANGED <<sub, hostVars, queue, hand, spc, shand, stopVars, flushVars,
                   logVars>>

PackerExit(w) ==
    /\ wpc[w] = "exit" /\ builder[w] = <<>>
    /\ GoTo(w, "dead")
    /\ UNCHANGED <<sub, hostVars, queue, hand, builder, due, stageVars,
                   stopVars, flushVars, logVars, asleep>>

ForwardBarrier(w) ==
    /\ Forwarding(w) /\ Awake(Packer(w)) /\ StageRoom(w)
    /\ stageq' = [stageq EXCEPT ![w] = Append(@, hand[w])]
    /\ Take(w, NoItem) /\ GoTo(w, "wait")
    /\ Notify({Stager(w)})
    /\ UNCHANGED <<sub, hostVars, queue, builder, due, spc, shand, stopVars,
                   flushVars, logVars>>

(* PackBuilder::Append on the open pack, or on a fresh one.                *)
PackerAppend(w) ==
    /\ wpc[w] = "item" /\ hand[w].kind = "record" /\ ~SealFirst(w)
    /\ Take(w, NoItem)
    /\ LET r == hand[w].n IN
       \/ /\ IsDuplicate(w, r)
          /\ duplicate' = duplicate \cup {r}
          /\ GoTo(w, "wait") /\ UNCHANGED <<builder, oversized>>
       \/ /\ builder[w] = <<>> /\ ~Fits(<<>>, r)
          /\ oversized' = oversized \cup {r}
          /\ GoTo(w, "wait") /\ UNCHANGED <<builder, duplicate>>
       \/ /\ ~IsDuplicate(w, r) /\ Fits(builder[w], r)
          /\ builder' = [builder EXCEPT ![w] = Append(@, r)]
          /\ GoTo(w, IF Len(builder'[w]) >= MaxPackRecords THEN "seal"
                     ELSE "wait")
          /\ UNCHANGED <<duplicate, oversized>>
    /\ UNCHANGED <<sub, hostVars, queue, due, stageVars, stopVars, flushVars,
                   admitted, persisted, refused, asleep>>

(* A seal or an append throws.  The barrier in hand, if any, is completed  *)
(* with the error first.                                                    *)
PackerFails(w) ==
    /\ conf.faults /\ Awake(Packer(w))
    /\ Sealing(w) \/ (wpc[w] = "item" /\ hand[w].kind = "record")
    /\ GoTo(w, "dead")
    /\ builder' = [builder EXCEPT ![w] = <<>>]
    /\ due' = [due EXCEPT ![w] = FALSE]
    /\ latched' = TRUE /\ closed' = TRUE
    /\ barrier' =
         FailPending(IF hand[w].kind = "barrier"
                     THEN [barrier EXCEPT ![hand[w].n].completed = TRUE,
                                          ![hand[w].n].error = TRUE]
                     ELSE barrier)
    /\ Notify(Everyone)
    /\ UNCHANGED <<sub, hostVars, queue, hand, stageVars, stageClosed, pending,
                   flush, flushLock, logVars>>

---------------------------------------------------------------------------
(* RunStager(w).                                                           *)
StagerPop(w) ==
    /\ spc[w] = "wait" /\ Awake(Stager(w)) /\ stageq[w] /= <<>>
    /\ shand' = [shand EXCEPT ![w] = Head(stageq[w])]
    /\ stageq' = [stageq EXCEPT ![w] = Tail(@)]
    /\ spc' = [spc EXCEPT ![w] = "item"]
    /\ Notify(OnStageCv(w))
    /\ UNCHANGED <<sub, hostVars, queue, packVars, stopVars, flushVars,
                   logVars>>

StagerIdle(w) ==
    /\ spc[w] = "wait" /\ Awake(Stager(w)) /\ stageq[w] = <<>>
    /\ \/ /\ stageClosed
          /\ spc' = [spc EXCEPT ![w] = "dead"] /\ UNCHANGED asleep
       \/ ~stageClosed /\ Sleep(Stager(w)) /\ UNCHANGED spc
    /\ UNCHANGED <<sub, hostVars, queue, packVars, stageq, shand, stopVars,
                   flushVars, logVars>>

StagerDone(w) == /\ shand' = [shand EXCEPT ![w] = NoItem]
                 /\ spc' = [spc EXCEPT ![w] = "wait"]

CountDown(b) == [b EXCEPT !.remaining = @ - 1,
                          !.completed = @ \/ b.remaining <= 1]

StagerBarrier(w) ==
    /\ spc[w] = "item" /\ shand[w].kind = "barrier"
    /\ barrier' = [barrier EXCEPT ![shand[w].n] = CountDown(@)]
    /\ StagerDone(w)
    /\ Notify(OnCv)
    /\ UNCHANGED <<sub, hostVars, queue, packVars, stageq, stopVars, pending,
                   flush, flushLock, logVars>>

(* Spool::Stage acknowledged the pack.                                     *)
StageOk(w) ==
    /\ spc[w] = "item" /\ shand[w].kind = "pack"
    /\ persisted' = persisted \o shand[w].n
    /\ StagerDone(w)
    /\ UNCHANGED <<sub, hostVars, queue, packVars, stageq, stopVars, flushVars,
                   admitted, duplicate, oversized, refused, asleep>>

(* Mutant: the stager outlives its refused pack.                              *)
StageFailsOn(w) ==
    /\ conf.faults /\ spc[w] = "item" /\ shand[w].kind = "pack"
    /\ StagerDone(w)
    /\ FailWorker
    /\ UNCHANGED <<sub, hostVars, queue, packVars, stageq, logVars>>

(* Spool::Stage refused it: the stager throws and ends.                    *)
StageFails(w) ==
    /\ conf.faults /\ spc[w] = "item" /\ shand[w].kind = "pack"
    /\ spc' = [spc EXCEPT ![w] = "dead"]
    /\ shand' = [shand EXCEPT ![w] = NoItem]
    /\ FailWorker
    /\ UNCHANGED <<sub, hostVars, queue, packVars, stageq, logVars>>

---------------------------------------------------------------------------
(* Flush(timeout): requested, flush_mutex_, the barrier in flight, then a  *)
(* barrier of its own.                                                     *)
FlushAt(f, pc) == flush' = [flush EXCEPT ![f].pc = pc]
Return(f, outcome) == FlushAt(f, outcome) /\ flushLock' = "free"
Returned == {"idle", "ok", "error", "timeout"}

FlushBegin(f) ==
    /\ flush[f].pc \in Returned /\ flush[f].calls < conf.flushes
    /\ cpc = "open" /\ attached = (f /= "release")
    /\ flush' = [flush EXCEPT ![f].pc = IF latched THEN "error" ELSE "lock",
                              ![f].want = Len(admitted),
                              ![f].calls = @ + 1]
    /\ UNCHANGED <<sub, hostVars, queue, packVars, stageVars, stopVars, barrier,
                   pending, flushLock, logVars, asleep>>

FlushLock(f) ==
    /\ flush[f].pc = "lock" /\ flushLock = "free"
    /\ flushLock' = f
    /\ FlushAt(f, "look")
    /\ UNCHANGED <<sub, hostVars, queue, packVars, stageVars, stopVars, barrier,
                   pending, logVars, asleep>>

FlushLook(f) ==
    /\ flush[f].pc = "look"
    /\ \/ latched /\ Return(f, "error")
       \/ /\ ~latched /\ pending = 0
          /\ FlushAt(f, "make") /\ UNCHANGED flushLock
       \/ /\ ~latched /\ pending /= 0
          /\ flush' = [flush EXCEPT ![f].pc = "reuse", ![f].on = pending]
          /\ UNCHANGED flushLock
    /\ UNCHANGED <<sub, hostVars, queue, packVars, stageVars, stopVars, barrier,
                   pending, logVars, asleep>>

(* A new barrier, one copy to every queue.                                 *)
FlushMake(f) ==
    /\ flush[f].pc = "make"
    /\ \/ /\ closed
          /\ Return(f, IF latched THEN "error" ELSE "timeout")
          /\ pending' = 0 /\ UNCHANGED <<barrier, queue, asleep>>
       \/ /\ ~closed
          /\ LET b == Len(barrier) + 1 IN
             /\ barrier' = Append(barrier,
                   [target |-> flush[f].want, completed |-> FALSE,
                    error |-> FALSE, remaining |-> conf.workers])
             /\ pending' = b
             /\ queue' = [w \in Workers |-> Append(queue[w], BarrierItem(b))]
             /\ flush' = [flush EXCEPT ![f].pc = "own", ![f].on = b]
          /\ Notify(UNION {OnWorkerCv(w) : w \in Workers})
          /\ UNCHANGED flushLock
    /\ UNCHANGED <<sub, hostVars, packVars, stageVars, stopVars, logVars>>

Waiting(f) == flush[f].pc \in {"reuse", "own"}

FlushSleep(f) ==
    /\ Waiting(f) /\ ~barrier[flush[f].on].completed
    /\ Sleep(Flusher(f))
    /\ UNCHANGED <<sub, hostVars, queue, packVars, stageVars, stopVars,
                   flushVars, logVars>>

(* Mutant: a reused barrier is taken for this flush's own.                    *)
FlushDoneAny(f) ==
    /\ Waiting(f) /\ Awake(Flusher(f))
    /\ LET b == barrier[flush[f].on] IN
       /\ b.completed
       /\ Return(f, IF b.error THEN "error" ELSE "ok")
       /\ pending' = IF pending = flush[f].on THEN 0 ELSE pending
    /\ UNCHANGED <<sub, hostVars, queue, packVars, stageVars, stopVars, barrier,
                   logVars, asleep>>

(* A reused barrier that asked for less than this flush is followed by one *)
(* of its own.                                                             *)
FlushDone(f) ==
    /\ Waiting(f) /\ Awake(Flusher(f))
    /\ LET b == barrier[flush[f].on] IN
       /\ b.completed
       /\ \/ b.error /\ Return(f, "error") /\ UNCHANGED pending
          \/ /\ ~b.error
             /\ pending' = IF pending = flush[f].on THEN 0 ELSE pending
             /\ IF flush[f].pc = "own" \/ b.target >= flush[f].want
                THEN Return(f, "ok")
                ELSE FlushAt(f, "make") /\ UNCHANGED flushLock
    /\ UNCHANGED <<sub, hostVars, queue, packVars, stageVars, stopVars, barrier,
                   logVars, asleep>>

(* The deadline passes; a barrier of its own stays pending for the next.   *)
FlushTimeout(f) ==
    /\ conf.timed
    /\ \/ /\ flush[f].pc = "lock" /\ flushLock /= "free"
          /\ FlushAt(f, "timeout") /\ UNCHANGED flushLock
       \/ /\ Waiting(f) /\ ~barrier[flush[f].on].completed
          /\ Return(f, "timeout")
    /\ Notify({Flusher(f)})
    /\ UNCHANGED <<sub, hostVars, queue, packVars, stageVars, stopVars, barrier,
                   pending, logVars>>

---------------------------------------------------------------------------
(* The engine's stop releases the sink once its record worker has drained; *)
(* the release backstop may flush, and a flush that went through seals the  *)
(* sink.  Another engine may acquire it again.                              *)
EngineRelease ==
    /\ attached /\ sub.pc \in {"idle", "stopped"} /\ releases < conf.releases
    /\ flush["release"].pc \in Returned
    /\ attached' = FALSE /\ releases' = releases + 1 /\ sealed' = FALSE
    /\ flush' = [flush EXCEPT !["release"].pc = "idle",
                              !["release"].calls = 0]
    /\ UNCHANGED <<sub, cpc, queue, packVars, stageVars, stopVars, barrier,
                   pending, flushLock, logVars, asleep>>

ReleaseSealed ==
    /\ ~attached /\ flush["release"].pc = "ok" /\ ~sealed
    /\ sealed' = TRUE
    /\ UNCHANGED <<sub, attached, releases, cpc, queue, packVars, stageVars,
                   stopVars, flushVars, logVars, asleep>>

EngineAcquire ==
    /\ ~attached /\ cpc = "open" /\ releases < conf.releases
    /\ flush["release"].pc \in Returned
    /\ attached' = TRUE /\ sealed' = FALSE
    /\ UNCHANGED <<sub, releases, cpc, queue, packVars, stageVars, stopVars,
                   flushVars, logVars, asleep>>

(* PackSink::Close: everyone is woken, and packers are joined before the   *)
(* stage queues close.                                                     *)
Close ==
    /\ cpc = "open" /\ ~attached
    /\ \A f \in AllFlushers : flush[f].pc \in Returned
    /\ cpc' = "packers" /\ closed' = TRUE
    /\ Notify(Everyone)
    /\ UNCHANGED <<sub, attached, releases, sealed, queue, packVars, stageVars,
                   stageClosed, latched, flushVars, logVars>>

CloseStages ==
    /\ cpc = "packers" /\ \A w \in Workers : wpc[w] = "dead"
    /\ cpc' = "stagers" /\ stageClosed' = TRUE
    /\ Notify(Everyone)
    /\ UNCHANGED <<sub, attached, releases, sealed, queue, packVars, stageVars,
                   closed, latched, flushVars, logVars>>

CloseJoined ==
    /\ cpc = "stagers" /\ \A w \in Workers : spc[w] = "dead"
    /\ cpc' = "done"
    /\ UNCHANGED <<sub, attached, releases, sealed, queue, packVars, stageVars,
                   stopVars, flushVars, logVars, asleep>>

SubmitStep == SubmitStart \/ SubmitAdmit \/ SubmitRefused \/ SubmitWait
PackerStep(w) ==
    \/ PackerPop(w) \/ PackerIdle(w) \/ PackerSleep(w) \/ SealForStager(w)
    \/ PackerExit(w) \/ ForwardBarrier(w) \/ PackerAppend(w)
    \/ PackerFails(w)
StagerStep(w) ==
    \/ StagerPop(w) \/ StagerIdle(w) \/ StagerBarrier(w) \/ StageOk(w)
    \/ StageFails(w)
FlushStep(f) ==
    \/ FlushLock(f) \/ FlushLook(f) \/ FlushMake(f) \/ FlushSleep(f)
    \/ FlushDone(f)
CloseStep == CloseStages \/ CloseJoined

Fixed == UNCHANGED conf

SinkNext ==
    /\ Fixed
    /\ \/ SubmitStep
       \/ \E w \in Workers : LingerDue(w) \/ PackerStep(w) \/ StagerStep(w)
       \/ \E f \in AllFlushers : FlushBegin(f) \/ FlushStep(f) \/ FlushTimeout(f)
       \/ EngineRelease \/ ReleaseSealed \/ EngineAcquire \/ Close \/ CloseStep

SinkSpec == SinkInit /\ [][SinkNext]_svars

(* Threads that can run do run, Stage() returns, and time passes.          *)
FairSinkSpec ==
    /\ SinkSpec
    /\ WF_svars(SubmitStep /\ Fixed) /\ WF_svars(CloseStep /\ Fixed)
    /\ \A w \in AllPairs : /\ WF_svars(w \in Workers /\ LingerDue(w) /\ Fixed)
                           /\ WF_svars(w \in Workers /\ PackerStep(w) /\ Fixed)
                           /\ WF_svars(w \in Workers /\ StagerStep(w) /\ Fixed)
    /\ \A f \in AllFlushers : WF_svars(FlushStep(f) /\ Fixed)

---------------------------------------------------------------------------
Settled == Range(persisted) \cup duplicate \cup oversized

(* The records packer/stager pair w still holds.                           *)
RecordsOf(item) == CASE item.kind = "record" -> {item.n}
                     [] item.kind = "pack" -> Range(item.n)
                     [] OTHER -> {}
Held(w) == Range(builder[w])
           \cup UNION {RecordsOf(i) : i \in Range(queue[w]) \cup Range(stageq[w])
                                             \cup {hand[w], shand[w]}}

(* What a call reports is so.  A flush that returned true has made durable  *)
(* every record admitted before it was called, or counted its loss, also    *)
(* when it rode on the barrier an earlier flush had left behind (Flush).    *)
(* Once sealed_on_release() reads true nothing is left that could still     *)
(* write the spool, whose owner lock the engine then lets go of.  A sink    *)
(* that closed without a failure has stored or counted every record it      *)
(* admitted: stagers outlive the packers that feed them.                    *)
ReturnedIsDurable ==
    /\ \A f \in AllFlushers :
          flush[f].pc = "ok" => \A i \in 1..flush[f].want : admitted[i] \in Settled
    /\ sealed => \A w \in Workers : Held(w) = {}
    /\ cpc = "done" /\ ~latched => Range(admitted) \subseteq Settled

(* Records of one scope become durable in the order they were admitted,    *)
(* with none overtaking one still on its way, failures included             *)
(* (RouteWorker's "per-scope ordering").                                    *)
ScopeOrder ==
    \A i, j \in DOMAIN admitted :
        LET r == admitted[i] s == admitted[j] IN
        /\ i < j /\ Script[r].scope = Script[s].scope
        /\ s \in Range(persisted)
        => /\ r \in Settled
           /\ \A k, l \in DOMAIN persisted :
                 persisted[k] = r /\ persisted[l] = s => k < l

(* No call hangs, whatever fails meanwhile: a flush with no timeout         *)
(* returns, a submit blocked on a full queue is let in or refused, and the  *)
(* destructor joins its threads; and until the sink latches a failure every *)
(* admitted record is stored, without any flush, once the linger seals it.  *)
CallsReturn ==
    <>[](/\ \A f \in AllFlushers : flush[f].pc \in Returned
         /\ sub.pc # "admit" /\ cpc # "packers"
         /\ latched \/ Range(admitted) \subseteq Settled)
=============================================================================
