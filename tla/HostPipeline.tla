---------------------------- MODULE HostPipeline ----------------------------
(***************************************************************************)
(* HostCapturePipeline (storage/capture/pipeline.py) on a durable spool,   *)
(* with the reference record sink (record_adapter.py) as a caller: threads *)
(* that submit, threads that flush, one that closes, and the persistence   *)
(* worker with its open pack.                                              *)
(*                                                                         *)
(* Records are numbered as they are submitted; `Records` gives their       *)
(* capture, scope and payload length.  Waiting on the queue's condition is *)
(* a guard: a get notifies every waiter, and a put never finds the worker  *)
(* and a blocked submitter waiting together.                               *)
(***************************************************************************)
EXTENDS HostSpool

CONSTANTS
    Submitters, Flushers,    \* threads
    Records                  \* number -> [capture, scope, length]

\* PipelineConfig, whether callers give flush() a timeout, whether the calls go
\* through the record adapter; and the bounds: records, flushes, a close, and
\* whether an open pack may grow older than max_linger_ns; the threads there are.
PipelineFields == {"queueRecords", "queueBytes", "packBytes", "packRecords",
                   "policy", "timed", "flushTimed", "adapter", "records",
                   "flushes", "closes", "linger", "threads"}

ASSUME PipelineAssumption ==
    \A c \in Scenarios : PipelineFields \subseteq DOMAIN c

VARIABLES
    queue, closed,   \* BoundedRecordQueue: records and barriers in order
    open,            \* the assembler's pack: [recs, scope, expired]
    wk,              \* the worker: [pc, item, todo, last, pending]
    sub,             \* submitter -> [pc, rec, result]
    fl,              \* flusher -> [pc, target, barrier, wants, accepted]
    flushLock,       \* _flush_lock
    barriers,        \* every _FlushBarrier made: [target, done, error]
    pendingFlush,    \* _pending_flush, a barrier's number or 0
    error,           \* _error is set
    cnt,             \* [admitted, persisted, lost]: counters
    accepted,        \* the adapter's _accepted
    closer,          \* the thread in close()
    seen             \* [submitted, admitted, dropped, accepted]: record sets,
                     \* and the flushes begun

pipeVars == <<queue, closed, open, wk, sub, fl, flushLock, barriers, pendingFlush,
              error, cnt, accepted, closer, seen>>
vars == <<spoolVars, pipeVars>>

NoPack == [recs |-> <<>>, scope |-> 0, expired |-> FALSE]
Barrier(b) == [kind |-> "barrier", n |-> b]
Record(r) == [kind |-> "record", n |-> r]
NoItem == [kind |-> "none", n |-> 0]

Alive == life = "up" /\ count.crashes = 0
Worker == "worker"

Init ==
    /\ SpoolInit
    /\ queue = <<>> /\ closed = FALSE /\ open = NoPack
    /\ wk = [pc |-> "get", item |-> NoItem, todo |-> <<>>, last |-> FALSE, pending |-> 0]
    /\ sub = [t \in Submitters |-> [pc |-> "idle", rec |-> 0, result |-> "none"]]
    /\ fl = [f \in Flushers |-> [pc |-> "idle", target |-> 0, barrier |-> 0,
                                 wants |-> {}, accepted |-> 0]]
    /\ flushLock = "free" /\ barriers = <<>> /\ pendingFlush = 0
    /\ error = FALSE /\ accepted = 0 /\ closer = "idle"
    /\ cnt = [admitted |-> 0, persisted |-> 0, lost |-> 0]
    /\ seen = [submitted |-> 0, admitted |-> {}, dropped |-> {}, accepted |-> {}, flushes |-> 0]

-----------------------------------------------------------------------------
(* submit(): the latched error and the pack limit, then the queue, then    *)
(* the counters, each under its own lock.                                  *)

QueuedRecords == SelectSeq(queue, LAMBDA i : i.kind = "record")
QueuedBytes == FoldFunctionOnSet(LAMBDA i, n : n + Records[i.n].length, 0, QueuedRecords, DOMAIN QueuedRecords)

\* BoundedRecordQueue._fits.
QueueFits(r) ==
    /\ Len(QueuedRecords) < conf.queueRecords
    /\ QueuedBytes + Records[r].length <= conf.queueBytes

Submit1(t) ==
    LET r == seen.submitted + 1 IN
    /\ sub[t].pc = "idle" /\ r <= conf.records
    /\ ~(conf.adapter /\ closer # "idle")       \* detached
    /\ seen' = [seen EXCEPT !.submitted = r]
    /\ IF error
       THEN sub' = [sub EXCEPT ![t] = [pc |-> "idle", rec |-> r, result |-> "raised"]]
            /\ UNCHANGED cnt
       ELSE IF Records[r].length > conf.packBytes
       THEN /\ sub' = [sub EXCEPT ![t] = [pc |-> "idle", rec |-> r, result |-> "too_large"]]
            /\ cnt' = [cnt EXCEPT !.lost = @ + 1]
       ELSE sub' = [sub EXCEPT ![t] = [pc |-> "put", rec |-> r, result |-> "none"]]
            /\ UNCHANGED cnt
    /\ UNCHANGED <<spoolVars, queue, closed, open, wk, fl, flushLock, barriers,
                   pendingFlush, error, accepted, closer>>

\* BoundedRecordQueue.put, which waits when the policy is to block.
Put1(t) ==
    LET r == sub[t].rec
        small == Records[r].length <= conf.queueBytes
        ends(how) == sub' = [sub EXCEPT ![t].pc = "count", ![t].result = how] IN
    /\ sub[t].pc = "put"
    /\ \/ /\ ~small /\ ends("too_large") /\ UNCHANGED queue
       \/ /\ small /\ closed /\ ends("closed") /\ UNCHANGED queue
       \/ /\ small /\ ~closed /\ QueueFits(r) /\ ends("accepted")
          /\ queue' = Append(queue, Record(r))
       \/ /\ small /\ ~closed /\ ~QueueFits(r) /\ conf.policy = "drop"
          /\ ends("dropped") /\ UNCHANGED queue
       \/ /\ small /\ ~closed /\ ~QueueFits(r) /\ conf.policy = "block" /\ conf.timed
          /\ ends("timed_out") /\ UNCHANGED queue
    /\ UNCHANGED <<spoolVars, closed, open, wk, fl, flushLock, barriers, pendingFlush,
                   error, cnt, accepted, closer, seen>>

Count1(t) ==
    LET ok == sub[t].result = "accepted" IN
    /\ sub[t].pc = "count"
    /\ cnt' = IF ok THEN [cnt EXCEPT !.admitted = @ + 1] ELSE [cnt EXCEPT !.lost = @ + 1]
    /\ seen' = IF ok THEN [seen EXCEPT !.admitted = @ \cup {sub[t].rec}] ELSE seen
    /\ sub' = [sub EXCEPT ![t].pc = IF ok /\ conf.adapter THEN "accept" ELSE "idle"]
    /\ UNCHANGED <<spoolVars, queue, closed, open, wk, fl, flushLock, barriers,
                   pendingFlush, error, accepted, closer>>

\* _submit_capture counts what the pipeline accepted.
Accept1(t) ==
    /\ sub[t].pc = "accept"
    /\ accepted' = accepted + 1
    /\ seen' = [seen EXCEPT !.accepted = @ \cup {sub[t].rec}]
    /\ sub' = [sub EXCEPT ![t].pc = "idle"]
    /\ UNCHANGED <<spoolVars, queue, closed, open, wk, fl, flushLock, barriers,
                   pendingFlush, error, cnt, closer>>

-----------------------------------------------------------------------------
(* PackAssembler.                                                          *)

RefusalOf(recs, r) ==
    Refusal(recs, Records[r].capture, Records[r].length, conf.packRecords, conf.packBytes)
With(recs, r) == Added(recs, Records[r].capture, Records[r].length)

\* _writer_with and _adopt: a pack of its own for the record.
Alone(r) == [recs |-> With(<<>>, r), scope |-> Records[r].scope, expired |-> FALSE]

\* append(): the packs it emits, the pack it leaves open, and why it dropped
\* the record, if it did.  An expired pack is sealed before the record is
\* looked at, and what was emitted is lost with the exception that drops it.
AssembleOn(pack, emitted, r) ==
    LET same == pack.recs # <<>> /\ pack.scope = Records[r].scope
        why == IF same THEN RefusalOf(pack.recs, r) ELSE "other"
        before == IF pack.recs = <<>> THEN emitted ELSE Append(emitted, pack.recs)
        kept(p, e) == IF Len(p.recs) >= conf.packRecords
                      THEN [emits |-> Append(e, p.recs), open |-> NoPack, drop |-> "none"]
                      ELSE [emits |-> e, open |-> p, drop |-> "none"]
    IN  CASE why = "none" -> kept([pack EXCEPT !.recs = With(@, r)], emitted)
          [] why = "duplicate" -> [emits |-> <<>>, open |-> pack, drop |-> "duplicate"]
          [] why \in {"capacity", "other"} /\ RefusalOf(<<>>, r) # "none" ->
                [emits |-> <<>>, open |-> pack, drop |-> "oversized"]
          [] OTHER -> kept(Alone(r), before)

Assemble(r) ==
    IF open.expired THEN AssembleOn(NoPack, <<open.recs>>, r) ELSE AssembleOn(open, <<>>, r)

Linger ==
    /\ Alive /\ conf.linger /\ open.recs # <<>> /\ ~open.expired
    /\ open' = [open EXCEPT !.expired = TRUE]
    /\ UNCHANGED <<spoolVars, queue, closed, wk, sub, fl, flushLock, barriers,
                   pendingFlush, error, cnt, accepted, closer, seen>>

-----------------------------------------------------------------------------
(* The worker, _run: get an item, append it or flush, persist the packs.   *)

pipeRest == <<sub, fl, flushLock, pendingFlush, accepted, closer>>
WorkerAt(pc) == wk' = [wk EXCEPT !.pc = pc]

\* The packs to persist are sealed; `last` says that the worker ends then.
\* item stays the barrier that waits for them.
Emit(packs, item, last) ==
    /\ sealed' = sealed \o packs
    /\ wk' = [pc |-> "persist", item |-> item, last |-> last, pending |-> 0,
              todo |-> [i \in 1..Len(packs) |-> Len(sealed) + i]]

FlushOpen == IF open.recs = <<>> THEN <<>> ELSE <<open.recs>>

\* get() returns an item, or nothing once the queue is closed and empty or the
\* open pack has expired.
Get ==
    /\ Alive /\ wk.pc = "get"
    /\ \/ /\ queue # <<>>
          /\ wk' = [wk EXCEPT !.pc = "item", !.item = Head(queue)]
          /\ queue' = Tail(queue)
       \/ /\ queue = <<>> /\ (closed \/ open.expired)
          /\ WorkerAt("nothing") /\ UNCHANGED queue
    /\ UNCHANGED <<spoolVars, closed, open, barriers, error, cnt, seen, pipeRest>>

\* The last pack is persisted before the worker ends.
Shutdown == FlushOpen

\* Nothing came: the queue's state is read again, and a closed queue with no
\* record in it is the end.
Nothing ==
    /\ Alive /\ wk.pc = "nothing"
    /\ IF closed /\ QueuedRecords = <<>>
       THEN Emit(Shutdown, NoItem, TRUE) /\ open' = NoPack
       ELSE IF open.expired THEN Emit(FlushOpen, NoItem, FALSE) /\ open' = NoPack
       ELSE Emit(<<>>, NoItem, FALSE) /\ UNCHANGED open
    /\ UNCHANGED <<conf, disk, acct, lock, st, acked, up, work, store, refs, life, count,
                   queue, closed, barriers, error, cnt, seen, pipeRest>>

\* A record is appended; one that fits no pack, or repeats a capture of the
\* open pack, is counted and dropped.
Append1 ==
    LET r == wk.item.n
        out == Assemble(r) IN
    /\ Alive /\ wk.pc = "item" /\ wk.item.kind = "record"
    /\ open' = out.open
    /\ Emit(out.emits, NoItem, FALSE)
    /\ cnt' = IF out.drop = "none" THEN cnt ELSE [cnt EXCEPT !.lost = @ + 1]
    /\ seen' = IF out.drop = "none" THEN seen ELSE [seen EXCEPT !.dropped = @ \cup {r}]
    /\ UNCHANGED <<conf, disk, acct, lock, st, acked, up, work, store, refs, life, count,
                   queue, closed, barriers, error, pipeRest>>

BarrierReached ==
    /\ Alive /\ wk.pc = "item" /\ wk.item.kind = "barrier"
    /\ Emit(FlushOpen, wk.item, FALSE) /\ open' = NoPack
    /\ UNCHANGED <<conf, disk, acct, lock, st, acked, up, work, store, refs, life, count,
                   queue, closed, barriers, error, cnt, seen, pipeRest>>

\* _persist stages one pack after the other (DurablePackSink).
PersistBegin ==
    /\ Alive /\ wk.pc = "persist" /\ wk.todo # <<>>
    /\ StageEnter(Worker, Head(wk.todo))
    /\ WorkerAt("staging")
    /\ UNCHANGED <<count, queue, closed, open, barriers, error, cnt, seen, pipeRest>>

PersistEnd ==
    /\ Alive /\ wk.pc = "staging"
    /\ \/ /\ st[Worker].pc = "ok"
          /\ cnt' = [cnt EXCEPT !.persisted = @ + Len(sealed[Head(wk.todo)])]
          /\ wk' = [wk EXCEPT !.pc = "persist", !.todo = Tail(@)]
       \/ /\ st[Worker].pc \in {"full", "conflict", "io"}
          /\ WorkerAt("fail") /\ UNCHANGED cnt
    /\ UNCHANGED <<spoolVars, queue, closed, open, barriers, error, seen, pipeRest>>

Complete(b, failed) ==
    barriers' = [barriers EXCEPT ![b].done = TRUE, ![b].error = failed]

\* Everything persisted: a barrier is completed, and the worker goes on.
PersistDone ==
    /\ Alive /\ wk.pc = "persist" /\ wk.todo = <<>>
    /\ IF wk.item.kind = "barrier" THEN Complete(wk.item.n, FALSE) ELSE UNCHANGED barriers
    /\ wk' = [wk EXCEPT !.pc = IF @ = "persist" /\ wk.last THEN "end" ELSE "get", !.item = NoItem]
    /\ UNCHANGED <<spoolVars, queue, closed, open, error, cnt, seen, pipeRest>>

\* The failure handler: a barrier in hand first, then the error together with
\* the pending flush of that moment, then the queue, then that flush.
FailBarrier ==
    /\ Alive /\ wk.pc = "fail"
    /\ IF wk.item.kind = "barrier" THEN Complete(wk.item.n, TRUE) ELSE UNCHANGED barriers
    /\ WorkerAt("latch")
    /\ UNCHANGED <<spoolVars, queue, closed, open, error, cnt, seen, pipeRest>>

FailLatch ==
    /\ Alive /\ wk.pc = "latch"
    /\ error' = TRUE
    /\ cnt' = [cnt EXCEPT !.lost = @ + 1]
    /\ wk' = [wk EXCEPT !.pc = "close", !.pending = pendingFlush]
    /\ UNCHANGED <<spoolVars, queue, closed, open, barriers, seen, pipeRest>>

FailClose ==
    /\ Alive /\ wk.pc = "close"
    /\ closed' = TRUE
    /\ WorkerAt("pending")
    /\ UNCHANGED <<spoolVars, queue, open, barriers, error, cnt, seen, pipeRest>>

FailPending ==
    /\ Alive /\ wk.pc = "pending"
    /\ IF wk.pending # 0 /\ ~barriers[wk.pending].done
       THEN Complete(wk.pending, TRUE) ELSE UNCHANGED barriers
    /\ WorkerAt("end")
    /\ UNCHANGED <<spoolVars, queue, closed, open, error, cnt, seen, pipeRest>>

WorkerStep ==
    \/ Get \/ Nothing \/ Append1 \/ BarrierReached \/ PersistBegin \/ PersistEnd
    \/ PersistDone \/ FailBarrier \/ FailLatch \/ FailClose \/ FailPending
    \/ (StageLink(Worker) \/ StageSync(Worker)) /\ UNCHANGED pipeVars

-----------------------------------------------------------------------------
(* flush().                                                                *)

flushRest == <<queue, closed, open, wk, sub, error, cnt, accepted, closer>>
FlushAt(f, pc) == fl' = [fl EXCEPT ![f].pc = pc]

\* The adapter's target is read before anything else, the pipeline's under its
\* lock.  `wants` is what the caller had been told was admitted by then.
FlushCall(f) ==
    /\ Alive /\ fl[f].pc = "idle" /\ seen.flushes < conf.flushes
    /\ seen' = [seen EXCEPT !.flushes = @ + 1]
    /\ fl' = [fl EXCEPT ![f] =
                 [pc |-> IF conf.adapter THEN "target" ELSE "lock", target |-> cnt.admitted,
                  barrier |-> 0, accepted |-> accepted,
                  wants |-> IF conf.adapter THEN seen.accepted ELSE seen.admitted]]
    /\ UNCHANGED <<spoolVars, flushRest, flushLock, barriers, pendingFlush>>

FlushTarget(f) ==
    /\ Alive /\ fl[f].pc = "target"
    /\ fl' = [fl EXCEPT ![f].pc = "lock", ![f].target = cnt.admitted]
    /\ UNCHANGED <<spoolVars, flushRest, flushLock, barriers, pendingFlush, seen>>

FlushLock(f) ==
    /\ Alive /\ fl[f].pc = "lock" /\ flushLock = "free"
    /\ flushLock' = f
    /\ FlushAt(f, "check")
    /\ UNCHANGED <<spoolVars, flushRest, barriers, pendingFlush, seen>>

\* Every way out releases the flush lock.
FlushReturn(f, how) ==
    /\ FlushAt(f, IF how = "true" /\ conf.adapter THEN "validate" ELSE how)
    /\ flushLock' = IF flushLock = f THEN "free" ELSE flushLock

\* A timed-out barrier of an earlier call is waited for instead of a new one.
FlushCheck(f) ==
    /\ Alive /\ fl[f].pc = "check"
    /\ IF error THEN FlushReturn(f, "raised") /\ UNCHANGED <<pendingFlush, barriers>>
       ELSE IF pendingFlush # 0
       THEN /\ fl' = [fl EXCEPT ![f].pc = "reuse", ![f].barrier = pendingFlush]
            /\ UNCHANGED <<flushLock, pendingFlush, barriers>>
       ELSE FlushAt(f, "publish") /\ UNCHANGED <<flushLock, pendingFlush, barriers>>
    /\ UNCHANGED <<spoolVars, flushRest, seen>>

\* Whether an earlier barrier stands for this call.  The mutant takes any.
CoversAny(b, target) == TRUE

Covers(b, target) == b.target >= target

Cleared(b) == IF pendingFlush = b THEN 0 ELSE pendingFlush

FlushReuse(f) ==
    LET b == fl[f].barrier IN
    /\ Alive /\ fl[f].pc = "reuse" /\ barriers[b].done
    /\ IF barriers[b].error THEN FlushReturn(f, "raised") /\ UNCHANGED pendingFlush
       ELSE /\ pendingFlush' = Cleared(b)
            /\ IF Covers(barriers[b], fl[f].target) THEN FlushReturn(f, "true")
               ELSE FlushAt(f, "publish") /\ UNCHANGED flushLock
    /\ UNCHANGED <<spoolVars, flushRest, barriers, seen>>

\* The waiter is published before its queue item.
FlushPublish(f) ==
    /\ Alive /\ fl[f].pc = "publish"
    /\ barriers' = Append(barriers, [target |-> fl[f].target, done |-> FALSE, error |-> FALSE])
    /\ pendingFlush' = Len(barriers')
    /\ fl' = [fl EXCEPT ![f].pc = "enqueue", ![f].barrier = Len(barriers')]
    /\ UNCHANGED <<spoolVars, flushRest, flushLock, seen>>

FlushEnqueue(f) ==
    LET b == fl[f].barrier IN
    /\ Alive /\ fl[f].pc = "enqueue"
    /\ IF closed
       THEN /\ pendingFlush' = Cleared(b)
            /\ FlushReturn(f, IF error THEN "raised" ELSE "false")
            /\ UNCHANGED queue
       ELSE /\ queue' = Append(queue, Barrier(b))
            /\ FlushAt(f, "recheck") /\ UNCHANGED <<flushLock, pendingFlush>>
    /\ UNCHANGED <<spoolVars, closed, open, wk, sub, error, cnt, accepted, closer, barriers, seen>>

\* The error is read again: a failure handler that ran before the publication
\* will not complete this barrier.  The mutant does not look.
RechecksNothing == FALSE

Rechecks == error

FlushRecheck(f) ==
    LET b == fl[f].barrier IN
    /\ Alive /\ fl[f].pc = "recheck"
    /\ IF Rechecks THEN pendingFlush' = Cleared(b) /\ FlushReturn(f, "raised")
       ELSE FlushAt(f, "wait") /\ UNCHANGED <<flushLock, pendingFlush>>
    /\ UNCHANGED <<spoolVars, flushRest, barriers, seen>>

FlushWait(f) ==
    LET b == fl[f].barrier IN
    /\ Alive /\ fl[f].pc = "wait" /\ barriers[b].done
    /\ IF barriers[b].error THEN FlushReturn(f, "raised") /\ UNCHANGED pendingFlush
       ELSE pendingFlush' = Cleared(b) /\ FlushReturn(f, "true")
    /\ UNCHANGED <<spoolVars, flushRest, barriers, seen>>

FlushTimeout(f) ==
    /\ Alive /\ conf.flushTimed
    /\ fl[f].pc \in {"lock", "reuse", "wait"}
    /\ FlushReturn(f, "false")
    /\ UNCHANGED <<spoolVars, flushRest, barriers, pendingFlush, seen>>

\* _validate_snapshot: no latched failure, no loss counter moved, and exactly
\* the accepted records persisted.
Validates(target) == ~error /\ cnt.lost = 0 /\ cnt.persisted = target

FlushValidate(f) ==
    /\ Alive /\ fl[f].pc = "validate"
    /\ FlushAt(f, IF Validates(fl[f].accepted) THEN "true" ELSE "raised")
    /\ UNCHANGED <<spoolVars, flushRest, flushLock, barriers, pendingFlush, seen>>

FlushAgain(f) ==
    /\ Alive /\ fl[f].pc \in {"true", "false", "raised"} /\ seen.flushes < conf.flushes
    /\ FlushAt(f, "idle")
    /\ UNCHANGED <<spoolVars, flushRest, flushLock, barriers, pendingFlush, seen>>

FlushStep(f) ==
    \/ FlushTarget(f) \/ FlushLock(f) \/ FlushCheck(f) \/ FlushReuse(f) \/ FlushPublish(f)
    \/ FlushEnqueue(f) \/ FlushRecheck(f) \/ FlushWait(f) \/ FlushValidate(f)

-----------------------------------------------------------------------------
(* close(): closes the queue and joins the worker; the adapter's, which the *)
(* engine has detached first, validates the counters too.                  *)

CloseQueue ==
    /\ Alive /\ closer = "idle" /\ conf.closes
    /\ conf.adapter => \A t \in Submitters : sub[t].pc = "idle"
    /\ closer' = "join" /\ closed' = TRUE
    /\ UNCHANGED <<spoolVars, queue, open, wk, sub, fl, flushLock, barriers, pendingFlush,
                   error, cnt, accepted, seen>>

Join ==
    /\ Alive /\ closer = "join" /\ wk.pc = "end"
    /\ closer' = IF error \/ (conf.adapter /\ ~Validates(accepted)) THEN "raised" ELSE "closed"
    /\ UNCHANGED <<spoolVars, queue, closed, open, wk, sub, fl, flushLock, barriers,
                   pendingFlush, error, cnt, accepted, seen>>

SubmitStep(t) == Alive /\ (Put1(t) \/ Count1(t) \/ Accept1(t))

Next ==
    \/ \E t \in Submitters \cap conf.threads : (Alive /\ Submit1(t)) \/ SubmitStep(t)
    \/ \E f \in Flushers \cap conf.threads : FlushStep(f) \/ FlushCall(f) \/ FlushAgain(f) \/ FlushTimeout(f)
    \/ WorkerStep \/ Linger \/ CloseQueue \/ Join
    \/ (SpoolNext \/ Crash) /\ UNCHANGED pipeVars

\* Threads run: the worker, and every call that has begun.
Spec ==
    /\ Init /\ [][Next]_vars
    /\ WF_vars(WorkerStep) /\ WF_vars(Join)
    /\ \A t \in Submitters : WF_vars(SubmitStep(t))
    /\ \A f \in Flushers : WF_vars(FlushStep(f))

(***************************************************************************)
(* What the pipeline promises its callers.                                 *)
(***************************************************************************)

Persisted(r) == \E p \in acked : Records[r].capture \in CaptureIds(sealed[p])

\* What returned normally is persisted.  After a flush that returned True, every
\* record whose admission had been counted when it was called is in an
\* acknowledged pack or was dropped by name as oversized or duplicate; after a
\* close, every record the queue ever took (flush, put_barrier, the reuse of a
\* timed-out barrier, _run).  Through the record adapter no drop is excepted:
\* its own account of accepted and persisted records raises.
ReturnedMeansPersisted ==
    /\ \A f \in Flushers : fl[f].pc = "true" =>
          \A r \in fl[f].wants : Persisted(r) \/ (~conf.adapter /\ r \in seen.dropped)
    /\ closer = "closed" =>
          /\ \A r \in seen.admitted : r \in seen.dropped \/ Persisted(r)
          /\ conf.adapter => \A r \in seen.accepted : Persisted(r)

\* A record that fits no pack costs only itself: every other record the worker
\* has taken is in its hand, in the open pack or in a pack it has sealed
\* (append(), which _run takes to keep the buffered pack intact).
DropCostsOneRecord ==
    \A r \in seen.admitted \ seen.dropped :
        \/ Record(r) \in {queue[i] : i \in DOMAIN queue} \cup {wk.item}
        \/ \E pack \in {open.recs} \cup {sealed[p] : p \in DOMAIN sealed} :
              Records[r].capture \in CaptureIds(pack)

\* Who is inside a call.
InCall(x) ==
    \/ x \in Submitters /\ sub[x].pc # "idle"
    \/ x \in Flushers /\ fl[x].pc \notin {"idle", "true", "false", "raised"}
    \/ x = "closer" /\ closer = "join"

\* A flush without a timeout whose barrier is in the queue the worker has left:
\* its get() had timed out on an expired pack when the barrier came and the
\* queue was closed, and a closed queue without records is the end to it.
\* Nobody completes the barrier.  Later flushes wait behind the lock it keeps.
Deserted(f) ==
    /\ ~conf.flushTimed /\ conf.linger /\ wk.pc = "end" /\ ~error
    /\ fl[f].pc \in {"wait", "reuse"} /\ Barrier(fl[f].barrier) \in Range(queue)

Stuck(f) == Deserted(f) \/ (fl[f].pc = "lock" /\ \E g \in Flushers : flushLock = g /\ Deserted(g))

\* Every call ends, whatever fails and whoever closes meanwhile: each submit and
\* each close, and each flush without a timeout but the one the worker deserts
\* and those behind it.  A behaviour has finitely many calls, so in the end
\* nobody else is inside one (queue.close(), the failure handler, flush()'s
\* second look at the error, and _run's look at a closed queue).
HostCallsReturn ==
    <>[](~Alive \/ \A x \in Submitters \cup Flushers \cup {"closer"} :
                      InCall(x) => x \in Flushers /\ Stuck(x))
=============================================================================
