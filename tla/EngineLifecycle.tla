-------------------------- MODULE EngineLifecycle --------------------------
(***************************************************************************)
(* MonitoringEngine (engine.py) as the owner of a ring, a record sink, a   *)
(* storage service and a spool claim: the order in which it acquires them, *)
(* gives them back when a step fails, and lets go of them at close, when   *)
(* its ring is replaced, when it is dropped and when its process dies.     *)
(*                                                                         *)
(* One host thread per process drives the engine and the forward, so       *)
(* nothing is captured during an engine call; the ring's record worker,    *)
(* the sink's stagers and the service's loop run beside it.  The sink is   *)
(* known by the directory it stages into.                                  *)
(***************************************************************************)
EXTENDS SpoolAdoption

VARIABLES
    eng,        \* the engine of process p
    ring,       \* the ring active in process p: [kind, sink, queue, seen, null]
    devNull,    \* the device's null mode in process p
    sink,       \* the sink staging into directory d: [proc, st, buf, staging, latched]
    captured,   \* records captured so far, numbered
    lost,       \* records lost in memory by a crash, or with a sink's failure
    swept,      \* records whose stage in flight somebody else deleted
    flushed     \* records a returned flush_and_wait covered

engineVars == <<eng, ring, devNull, sink, captured, lost, swept, flushed>>
evars == <<conf, storageVars, faults, engineVars>>

NoEngine == [pc |-> "absent", lives |-> 0, config |-> FALSE, ring |-> FALSE,
             record |-> FALSE, storage |-> FALSE, claim |-> NoDir, sink |-> NoDir,
             sealed |-> TRUE, then |-> "none", want |-> {}, goal |-> {},
             flushes |-> 0, switches |-> 0]
NoRing == [kind |-> "none", sink |-> NoDir, queue |-> {}, seen |-> {}, null |-> FALSE]
NoSink == [proc |-> Nobody, st |-> "none", buf |-> {}, staging |-> 0, latched |-> FALSE]

Init ==
    /\ conf \in Scenarios
    /\ StorageInit
    /\ faults = [crashes |-> conf.crashes, stalls |-> conf.stalls,
                 failures |-> conf.failures, drops |-> conf.drops]
    /\ eng = [p \in Procs |-> NoEngine]
    /\ ring = [p \in Procs |-> NoRing]
    /\ devNull = [p \in Procs |-> FALSE]
    /\ sink = [d \in Dirs |-> NoSink]
    /\ captured = 0 /\ lost = {} /\ swept = {} /\ flushed = {}

At(p, pc) == eng[p].pc = pc
Fails == faults.failures > 0 /\ faults' = [faults EXCEPT !.failures = @ - 1]
Explicit == conf.writer # "engine"

\* A sink that may still write into its directory.
MayStage(d) == sink[d].st \in {"attached", "released"}

\* The record worker's last act on a stopping ring: what it holds goes to the
\* sink, which the engine's lease then lets go of.
Drains(ss, p) ==
    IF ring[p].kind = "record"
    THEN [ss EXCEPT ![ring[p].sink].buf = @ \cup ring[p].queue,
                    ![ring[p].sink].st = "released"]
    ELSE ss
-----------------------------------------------------------------------------
(* validate_capture_bounds, which an integration calls before it captures.  *)
ValidBounds ==
    /\ conf.queue >= conf.record
    /\ conf.pack >= conf.record + Framing
    /\ conf.pack <= conf.inFlight

\* __init__: no ring is built yet.
Construct(p) ==
    /\ eng[p].pc \in {"absent", "closed"} /\ eng[p].lives < conf.lives
    /\ eng' = [eng EXCEPT ![p] = [NoEngine EXCEPT !.pc = "idle", !.config = TRUE,
                                                  !.lives = eng[p].lives + 1]]
    /\ UNCHANGED <<conf, storageVars, faults, ring, devNull, sink, captured, lost, swept, flushed>>

\* The legacy ring of enable_ring_transport, activated for the process.
LegacyRing == [NoRing EXCEPT !.kind = "legacy"]

\* _ensure_ring_transport: a legacy entry point builds the legacy ring.
EnsureRing(p) ==
    /\ At(p, "idle") /\ eng[p].config /\ ~eng[p].ring /\ ~eng[p].record
    /\ eng[p].switches < conf.switches
    /\ eng' = [eng EXCEPT ![p].ring = TRUE, ![p].switches = @ + 1]
    /\ ring' = [ring EXCEPT ![p] = LegacyRing]
    /\ sink' = Drains(sink, p)
    /\ UNCHANGED <<conf, storageVars, faults, devNull, captured, lost, swept, flushed>>

\* set_capture_enabled: the transport's flag and the device's move together.
CaptureEnabled(p, on) ==
    /\ devNull' = [devNull EXCEPT ![p] = IF ring[p].null = ~on THEN @ ELSE ~on]
    /\ ring' = [ring EXCEPT ![p].null = ~on]

SetCapture(p) ==
    /\ At(p, "idle") /\ eng[p].ring /\ eng[p].switches < conf.switches
    /\ \E on \in BOOLEAN : CaptureEnabled(p, on)
    /\ eng' = [eng EXCEPT ![p].switches = @ + 1]
    /\ UNCHANGED <<conf, storageVars, faults, sink, captured, lost, swept, flushed>>
-----------------------------------------------------------------------------
(* create_record_runtime.                                                   *)

\* Its checks, then claim_spool_directory; an explicit sink needs no claim,
\* and the native one already owns spool_root.
BeginCreate(p) ==
    /\ At(p, "idle") /\ eng[p].config /\ ~eng[p].record /\ ValidBounds
    /\ IF Explicit
       THEN /\ CanOpenRoot(p) /\ sink[Root].proc \in {p, Nobody}
            /\ dirs' = IF conf.writer = "native" THEN [dirs EXCEPT ![Root].lock = p] ELSE dirs
            /\ eng' = [eng EXCEPT ![p].pc = "starting", ![p].sink = Root]
            /\ UNCHANGED claims
       ELSE /\ claims < conf.dirs /\ NotNested(claims + 1)
            /\ claims' = claims + 1
            /\ dirs' = Claimed(dirs, p, claims + 1)
            /\ eng' = [eng EXCEPT ![p].pc = "starting", ![p].claim = claims + 1]
    /\ UNCHANGED <<conf, lease, svc, bucket, catalog, faults, ring, devNull, sink, captured,
                   lost, swept, flushed>>

SpoolOf(p) == IF Explicit THEN Root ELSE eng[p].claim

\* _start_capture_storage: the service starts before the sink it drains opens
\* the spool.
StartStorage(p) ==
    /\ At(p, "starting")
    /\ StartsService(p, SpoolOf(p))
    /\ eng' = [eng EXCEPT ![p].pc = "attaching", ![p].storage = TRUE]
    /\ UNCHANGED <<conf, ring, devNull, sink, captured, lost, swept, flushed>>

\* The service refused to start: another publisher kept the lease, or the
\* catalog did not answer.  The claim is released.
StartRefused(p) ==
    /\ At(p, "starting")
    /\ \/ (~CanTake(p) \/ (Explicit /\ ~CanOpenRoot(p))) /\ UNCHANGED faults
       \/ Fails
    /\ dirs' = Released(dirs, eng[p].claim)
    /\ eng' = [eng EXCEPT ![p].pc = "idle", ![p].claim = NoDir, ![p].sink = NoDir]
    /\ UNCHANGED <<conf, claims, lease, svc, bucket, catalog, ring, devNull, sink, captured,
                   lost, swept, flushed>>

\* create_native_pack_sink in the claimed directory, or the explicit sink;
\* _acquire_engine.
AttachSink(p) ==
    /\ At(p, "attaching")
    /\ sink' = [sink EXCEPT ![SpoolOf(p)] = [@ EXCEPT !.proc = p, !.st = "attached"]]
    /\ eng' = [eng EXCEPT ![p].pc = "switching", ![p].sink = SpoolOf(p)]
    /\ UNCHANGED <<conf, storageVars, faults, ring, devNull, captured, lost, swept, flushed>>

\* The legacy ring goes: null mode back to its default, stop, deactivate.
SwitchRing(p) ==
    /\ At(p, "switching")
    /\ devNull' = [devNull EXCEPT ![p] = IF eng[p].ring /\ ring[p].null THEN FALSE ELSE @]
    /\ ring' = [ring EXCEPT ![p] = NoRing]
    /\ sink' = Drains(sink, p)
    /\ eng' = [eng EXCEPT ![p].pc = "creating", ![p].ring = FALSE]
    /\ UNCHANGED <<conf, storageVars, faults, captured, lost, swept, flushed>>

CreateRing(p) ==
    /\ At(p, "creating")
    /\ ring' = [ring EXCEPT ![p] = [NoRing EXCEPT !.kind = "record", !.sink = eng[p].sink]]
    /\ eng' = [eng EXCEPT ![p].pc = "idle", ![p].ring = TRUE, ![p].record = TRUE]
    /\ UNCHANGED <<conf, storageVars, faults, devNull, sink, captured, lost, swept, flushed>>

\* Mutant: a rollback that forgets the claim.
CreateFailsKeepsClaim(p) ==
    /\ \E pc \in {"attaching", "switching", "creating"} : At(p, pc)
    /\ Fails
    /\ sink' = IF At(p, "attaching") THEN sink
               ELSE [sink EXCEPT ![eng[p].sink].st = "sealed"]
    /\ StopsService(p, dirs)
    /\ eng' = [eng EXCEPT ![p] = [@ EXCEPT !.pc = "idle", !.storage = FALSE, !.claim = NoDir,
                                           !.sink = NoDir,
                                           !.config = @ /\ ~At(p, "creating")]]
    /\ UNCHANGED <<conf, claims, bucket, catalog, ring, devNull, captured, lost, swept, flushed>>

\* The rollback of _attach_record_runtime and create_record_runtime: the ring
\* that failed is gone, the sink with it, the service stops and the claim is
\* released.  Once switched, the engine builds no ring any more.
CreateFails(p) ==
    /\ \E pc \in {"attaching", "switching", "creating"} : At(p, pc)
    /\ Fails
    /\ sink' = IF At(p, "attaching") THEN sink
               ELSE [sink EXCEPT ![eng[p].sink].st = "sealed"]
    /\ StopsService(p, Released(dirs, eng[p].claim))
    /\ eng' = [eng EXCEPT ![p] = [@ EXCEPT !.pc = "idle", !.storage = FALSE, !.claim = NoDir,
                                           !.sink = NoDir,
                                           !.config = @ /\ ~At(p, "creating")]]
    /\ UNCHANGED <<conf, claims, bucket, catalog, ring, devNull, captured, lost, swept, flushed>>
-----------------------------------------------------------------------------
(* Capturing: the forward, the record worker and the stagers.               *)

\* Every producer reads the device's null mode.
Capture(p) ==
    /\ eng[p].pc \in {"idle", "absent"} /\ ring[p].kind = "record" /\ ~devNull[p]
    /\ captured < conf.records
    /\ captured' = captured + 1
    /\ ring' = [ring EXCEPT ![p].queue = @ \cup {captured + 1}, ![p].seen = @ \cup {captured + 1}]
    /\ UNCHANGED <<conf, storageVars, faults, eng, devNull, sink, lost, swept, flushed>>

\* The sink admits a record, or refuses one that fits no queue: a failure.
AdmitRecord(p) ==
    /\ ring[p].kind = "record"
    /\ \E r \in ring[p].queue :
         /\ ring' = [ring EXCEPT ![p].queue = @ \ {r}]
         /\ IF conf.record <= conf.queue /\ ~sink[ring[p].sink].latched
            THEN sink' = [sink EXCEPT ![ring[p].sink].buf = @ \cup {r}] /\ UNCHANGED lost
            ELSE sink' = [sink EXCEPT ![ring[p].sink].latched = TRUE] /\ lost' = lost \cup {r}
    /\ UNCHANGED <<conf, storageVars, faults, eng, devNull, captured, swept, flushed>>

\* A sink that failed discards what it holds; its flushes raise.
Latched(s) == [s EXCEPT !.latched = TRUE, !.buf = {}, !.staging = 0]

\* A stage opens its file, making the directory again if it is gone.
BeginStage(d) ==
    /\ MayStage(d) /\ sink[d].staging = 0 /\ conf.record + Framing <= conf.pack
    /\ \E r \in sink[d].buf :
         /\ dirs' = [dirs EXCEPT ![d].there = TRUE, ![d].open = @ \cup {r}]
         /\ sink' = [sink EXCEPT ![d].staging = r]
    /\ UNCHANGED <<conf, claims, lease, svc, bucket, catalog, faults, eng, ring, devNull,
                   captured, lost, swept, flushed>>

\* The file becomes the pack by a link, which fails if somebody swept it
\* meanwhile.
EndStage(d) ==
    /\ sink[d].staging # 0
    /\ LET r == sink[d].staging IN
       IF r \in dirs[d].open
       THEN /\ dirs' = [dirs EXCEPT ![d].open = @ \ {r}, ![d].packs = @ \cup {r}]
            /\ sink' = [sink EXCEPT ![d].staging = 0, ![d].buf = @ \ {r}]
            /\ UNCHANGED <<lost, swept>>
       ELSE /\ sink' = [sink EXCEPT ![d] = Latched(@)]
            /\ swept' = swept \cup {r}
            /\ lost' = lost \cup (sink[d].buf \ {r})
            /\ UNCHANGED dirs
    /\ UNCHANGED <<conf, claims, lease, svc, bucket, catalog, faults, eng, ring, devNull,
                   captured, flushed>>

\* The disk refuses a stage.
StageFails(d) ==
    /\ sink[d].staging # 0 /\ Fails
    /\ sink' = [sink EXCEPT ![d] = Latched(@)]
    /\ lost' = lost \cup sink[d].buf
    /\ UNCHANGED <<conf, storageVars, eng, ring, devNull, captured, swept, flushed>>
-----------------------------------------------------------------------------
(* flush_and_wait: the ring and the sink, then the service.                 *)

SinkDrained(p) ==
    ring[p].queue = {} /\ sink[ring[p].sink].buf = {} /\ ~sink[ring[p].sink].latched

BeginFlush(p) ==
    /\ At(p, "idle") /\ eng[p].record /\ eng[p].flushes < conf.flushes
    /\ eng' = [eng EXCEPT ![p].pc = "flushing", ![p].want = ring[p].seen, ![p].flushes = @ + 1]
    /\ UNCHANGED <<conf, storageVars, faults, ring, devNull, sink, captured, lost, swept, flushed>>

FlushSink(p) ==
    /\ At(p, "flushing") /\ SinkDrained(p)
    /\ eng' = [eng EXCEPT ![p].pc = "draining",
                          ![p].goal = dirs[SpoolOf(p)].packs \cup svc[p].owed]
    /\ UNCHANGED <<conf, storageVars, faults, ring, devNull, sink, captured, lost, swept, flushed>>

\* Mutant: the flush waits for the uploads only.
FlushUnindexed(p) ==
    /\ At(p, "draining") /\ Cycles(p) /\ eng[p].goal \cap dirs[SpoolOf(p)].packs = {}
    /\ flushed' = flushed \cup eng[p].want
    /\ eng' = [eng EXCEPT ![p] = [@ EXCEPT !.pc = "idle", !.want = {}, !.goal = {}]]
    /\ UNCHANGED <<conf, storageVars, faults, ring, devNull, sink, captured, lost, swept>>

\* The service's flush: what was staged or owed when it began is indexed.
FlushReturns(p) ==
    /\ At(p, "draining") /\ Cycles(p)
    /\ eng[p].goal \cap (dirs[SpoolOf(p)].packs \cup svc[p].owed) = {}
    /\ flushed' = flushed \cup eng[p].want
    /\ eng' = [eng EXCEPT ![p] = [@ EXCEPT !.pc = "idle", !.want = {}, !.goal = {}]]
    /\ UNCHANGED <<conf, storageVars, faults, ring, devNull, sink, captured, lost, swept>>

\* The deadline, the sink's failure, or the service's.
FlushRaises(p) ==
    /\ At(p, "flushing") \/ At(p, "draining")
    /\ eng' = [eng EXCEPT ![p] = [@ EXCEPT !.pc = "idle", !.want = {}, !.goal = {}]]
    /\ UNCHANGED <<conf, storageVars, faults, ring, devNull, sink, captured, lost, swept, flushed>>
-----------------------------------------------------------------------------
(* close, and enable_ring_transport over a ring that is already there.      *)

\* Null mode goes back to its default, for whoever is next on the device.
BeginTeardown(p) ==
    /\ At(p, "idle") /\ eng[p].ring
    /\ \/ /\ eng' = [eng EXCEPT ![p] = [@ EXCEPT !.then = "close",
                        !.pc = IF eng[p].record THEN "sealing" ELSE "stopping"]]
       \/ /\ eng[p].switches < conf.switches
          /\ eng' = [eng EXCEPT ![p] = [@ EXCEPT !.then = "replace", !.switches = @ + 1,
                        !.pc = IF eng[p].record THEN "sealing" ELSE "stopping"]]
    /\ CaptureEnabled(p, TRUE)
    /\ UNCHANGED <<conf, storageVars, faults, sink, captured, lost, swept, flushed>>

\* close() of an engine that never built a ring.
CloseIdle(p) ==
    /\ At(p, "idle") /\ ~eng[p].ring
    /\ eng' = [eng EXCEPT ![p].pc = "closed", ![p].config = FALSE]
    /\ UNCHANGED <<conf, storageVars, faults, ring, devNull, sink, captured, lost, swept, flushed>>

\* _seal_capture_sink, within the deadline or not.
SealSink(p) ==
    /\ At(p, "sealing")
    /\ \E ok \in BOOLEAN :
         /\ ok => SinkDrained(p)
         /\ eng' = [eng EXCEPT ![p].pc = "stopping", ![p].sealed = ok]
    /\ UNCHANGED <<conf, storageVars, faults, ring, devNull, sink, captured, lost, swept, flushed>>

\* RingEngine.stop: a record ring drains into its sink and releases it.
StopRing(p) ==
    /\ At(p, "stopping")
    /\ sink' = Drains(sink, p)
    /\ ring' = [ring EXCEPT ![p] = NoRing]
    /\ eng' = [eng EXCEPT ![p].pc = IF eng[p].record THEN "releasing" ELSE "lettingGo"]
    /\ UNCHANGED <<conf, storageVars, faults, devNull, captured, lost, swept, flushed>>

\* A record ring that did not stop still uses its sink: everything is kept,
\* for the caller to try again.
StopFails(p) ==
    /\ At(p, "stopping") /\ eng[p].record /\ Fails
    /\ eng' = [eng EXCEPT ![p].pc = "idle", ![p].then = "none"]
    /\ UNCHANGED <<conf, storageVars, ring, devNull, sink, captured, lost, swept, flushed>>

\* _sink_sealed_after_release: the native sink's release backstop flushes it
\* and says whether that went through; a sink that does not say is judged by
\* the flush before the stop.
SinkReleased(p) ==
    LET d == eng[p].sink IN
    /\ At(p, "releasing")
    /\ \E through \in BOOLEAN :
         /\ through => sink[d].buf = {} /\ ~sink[d].latched
         /\ sink' = [sink EXCEPT ![d].st = IF through THEN "sealed" ELSE @]
         /\ eng' = [eng EXCEPT ![p] = [@ EXCEPT !.pc = "retiring", !.ring = FALSE,
                        !.record = FALSE, !.sink = NoDir,
                        !.sealed = IF conf.writer = "reference" THEN @ ELSE through]]
    /\ UNCHANGED <<conf, storageVars, faults, ring, devNull, captured, lost, swept, flushed>>

\* _retire_capture_storage: what drains by the deadline drains.
RetireStorage(p) ==
    /\ At(p, "retiring")
    /\ eng' = [eng EXCEPT ![p].pc = "halting"]
    /\ UNCHANGED <<conf, storageVars, faults, ring, devNull, sink, captured, lost, swept, flushed>>

StopStorage(p) ==
    /\ At(p, "halting")
    /\ StopsService(p, dirs)
    /\ eng' = [eng EXCEPT ![p].pc = "lettingGo", ![p].storage = FALSE]
    /\ UNCHANGED <<conf, claims, bucket, catalog, faults, ring, devNull, sink, captured, lost,
                   swept, flushed>>

\* Mutant: close lets go of the directory whatever the sink still does.
ClaimAlwaysReleased(p) == Released(dirs, eng[p].claim)

\* _release_spool_claim once the sink can stage no more, _keep_spool_claim_held
\* otherwise.
ClaimAfter(p) == IF eng[p].sealed THEN Released(dirs, eng[p].claim) ELSE dirs

LetGo(p) ==
    /\ At(p, "lettingGo")
    /\ dirs' = ClaimAfter(p)
    /\ \/ /\ eng[p].then = "close"
          /\ eng' = [eng EXCEPT ![p] = [NoEngine EXCEPT !.pc = "closed", !.lives = eng[p].lives]]
          /\ UNCHANGED ring
       \/ /\ eng[p].then = "replace"
          /\ eng' = [eng EXCEPT ![p] = [@ EXCEPT !.pc = "idle", !.claim = NoDir, !.ring = TRUE,
                                                 !.then = "none", !.sealed = TRUE]]
          /\ ring' = [ring EXCEPT ![p] = LegacyRing]
    /\ UNCHANGED <<conf, claims, lease, svc, bucket, catalog, faults, devNull, sink, captured,
                   lost, swept, flushed>>
-----------------------------------------------------------------------------
(* An engine dropped without close, and the death of a process.             *)

\* The service's destructor stops it.  The ring and the sink capture on, in a
\* directory _HELD_SPOOL_CLAIMS keeps locked.  An engine is dropped with
\* capture enabled.
DropEngine(p) ==
    /\ At(p, "idle") /\ faults.drops > 0 /\ ~ring[p].null
    /\ faults' = [faults EXCEPT !.drops = @ - 1]
    /\ StopsService(p, dirs)
    /\ eng' = [eng EXCEPT ![p] = [NoEngine EXCEPT !.lives = eng[p].lives]]
    /\ UNCHANGED <<conf, claims, bucket, catalog, ring, devNull, sink, captured, lost, swept,
                   flushed>>

\* The kernel frees the locks; the lease row stays until it runs out.
Crash(p) ==
    /\ faults.crashes > 0 /\ eng[p].lives > 0
    /\ faults' = [faults EXCEPT !.crashes = @ - 1]
    /\ eng' = [eng EXCEPT ![p] = [NoEngine EXCEPT !.lives = eng[p].lives]]
    /\ lost' = lost \cup ring[p].queue \cup UNION {sink[d].buf : d \in {e \in Dirs : sink[e].proc = p}}
    /\ sink' = [d \in Dirs |-> IF sink[d].proc = p THEN NoSink ELSE sink[d]]
    /\ ring' = [ring EXCEPT ![p] = NoRing]
    /\ devNull' = [devNull EXCEPT ![p] = FALSE]
    /\ dirs' = [d \in Dirs |-> IF dirs[d].lock = p THEN [dirs[d] EXCEPT !.lock = Nobody] ELSE dirs[d]]
    /\ svc' = [svc EXCEPT ![p] = NoService]
    /\ lease' = IF lease.holder = p THEN [lease EXCEPT !.holder = Dead] ELSE lease
    /\ UNCHANGED <<conf, claims, bucket, catalog, captured, swept, flushed>>
-----------------------------------------------------------------------------
Service(p) == ServiceStep(p) /\ UNCHANGED <<conf, engineVars>>

Lapse == ExpireLease /\ UNCHANGED <<conf, engineVars>>

\* What an engine call in progress does next.
Progress(p) ==
    \/ StartStorage(p) \/ StartRefused(p) \/ AttachSink(p) \/ SwitchRing(p) \/ CreateRing(p)
    \/ FlushSink(p) \/ FlushReturns(p) \/ FlushRaises(p)
    \/ SealSink(p) \/ StopRing(p) \/ SinkReleased(p) \/ RetireStorage(p) \/ StopStorage(p)
    \/ LetGo(p)

Calls(p) ==
    \/ Construct(p) \/ EnsureRing(p) \/ SetCapture(p) \/ BeginCreate(p) \/ BeginFlush(p)
    \/ BeginTeardown(p) \/ CloseIdle(p)

Faults(p) == CreateFails(p) \/ StopFails(p) \/ DropEngine(p) \/ Crash(p)

Stages(d) == BeginStage(d) \/ EndStage(d)

Next ==
    \/ Lapse
    \/ \E p \in Procs : \/ Calls(p) \/ Progress(p) \/ Faults(p)
                        \/ Capture(p) \/ AdmitRecord(p) \/ Service(p)
    \/ \E d \in Dirs : Stages(d) \/ StageFails(d)

\* Calls return, workers and loops run, and a dead row runs out.
Fairness ==
    /\ WF_evars(Lapse /\ lease.holder = Dead)
    /\ \A p \in Procs :
         /\ WF_evars(Progress(p)) /\ WF_evars(AdmitRecord(p))
         /\ WF_evars(Service(p) /\ (KeepLease(p) \/ UploadOwn(p)))
         /\ WF_evars(Service(p) /\ IndexOwed(p)) /\ WF_evars(Service(p) /\ Adopts(p))
    /\ \A d \in Dirs : WF_evars(Stages(d))

EngineSpec == Init /\ [][Next]_evars /\ Fairness
-----------------------------------------------------------------------------
\* A sink that may still stage -- attached, released without its backstop
\* getting through, or left behind by a dropped engine -- has its directory,
\* under its own process's lock and in nobody's adoption: claim_spool_directory
\* takes it before the sink opens, and _retire_capture_storage lets go only
\* after _sink_sealed_after_release.
StagersOwnTheirDirectory ==
    \A d \in RankDirs :
        MayStage(d) => /\ dirs[d].there /\ dirs[d].lock = sink[d].proc
                       /\ \A p \in Procs : svc[p].adopting # d

\* A process holds a rank directory only while its engine claims it, its
\* service adopts it or a sink may still stage into it, and the lease only
\* while its service lives: a create_record_runtime that failed at any step has
\* given back what it had taken.  And the device's null mode, which outlives a
\* ring, is the one of the ring the engine has now.
NothingLeaks ==
    \A p \in Procs :
        /\ \A d \in RankDirs : dirs[d].lock = p =>
              eng[p].claim = d \/ svc[p].adopting = d \/ MayStage(d)
        /\ Holds(p) => svc[p].st # "none"
        /\ svc[p].st # "none" => eng[p].storage
        /\ eng[p].ring => ring[p].null = devNull[p]

\* No record is lost but with a process that dies holding it in memory or a
\* disk that refuses it: across stops, adoptions and removals of directories
\* each one is in the ring, in the sink, in a spool, in the store or indexed.
CapturedIsKept ==
    \A r \in 1..captured :
        \/ r \in lost \cup bucket \cup catalog
        \/ \E p \in Procs : r \in ring[p].queue
        \/ \E d \in Dirs : r \in sink[d].buf \/ (dirs[d].there /\ r \in dirs[d].packs)

\* flush_and_wait returns only once every record captured before it is in the
\* catalog.
FlushCatalogs == flushed \subseteq catalog

Abandoned(d) == dirs[d].there /\ ~Locked(d) /\ dirs[d].packs # {}

\* Liveness: what a service's own sink staged, and what a process that died or
\* closed left in a directory the service can have seen when it last looked,
\* reaches the catalog while the service runs -- a directory whose owner was
\* alive at the look and died later included, by adoption_recheck_interval_ns.
SpoolsDrain ==
    <>[](\A p \in Procs : Cycles(p) =>
            /\ dirs[svc[p].dir].packs = {} /\ svc[p].owed = {}
            /\ svc[p].adopts => \A d \in 1..svc[p].looked : ~Abandoned(d))
=============================================================================
