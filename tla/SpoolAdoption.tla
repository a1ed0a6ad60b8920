--------------------------- MODULE SpoolAdoption ---------------------------
(***************************************************************************)
(* The capture processes of one node, their spool directories, and the     *)
(* storage service that drains them into the catalog                       *)
(* (storage/native_capture.py over native/csrc/catalog/storage_service.cpp *)
(* and native/csrc/store/spool.cpp).                                       *)
(*                                                                         *)
(* Every claim makes a fresh directory, numbered here, whose owner lock is *)
(* an flock: it belongs to the claim that took it, refuses every other     *)
(* take, its own process's included, and goes when the process does.  A    *)
(* service drains its own directory, and adopts its siblings whose lock is *)
(* free.  Directory Root is spool_root itself, where an explicit sink      *)
(* stages.  A pack is the record in it.                                    *)
(***************************************************************************)
EXTENDS Integers, FiniteSets

CONSTANTS
    Procs,        \* the capture processes of the node
    Framing,      \* PACK_FRAMING_RESERVE_BYTES
    Scenarios     \* the configurations and bounds of a behaviour

(* A configuration: whose sink it is ("engine": the default writer, or the *)
(* user's "native" or "reference" sink), the byte bounds of sink and       *)
(* service, and what is done: engines per process, records and directories *)
(* in all, flushes and switches per engine, and the faults that may occur. *)
Fields == {"writer", "record", "queue", "pack", "inFlight", "lives", "records",
           "dirs", "flushes", "switches", "crashes", "stalls", "failures",
           "drops"}

ASSUME EngineAssumption ==
    /\ Framing \in Nat \ {0}
    /\ \A c \in Scenarios : DOMAIN c = Fields /\ c.dirs \in Nat /\ c.record > 0

VARIABLES
    conf,       \* the configuration
    dirs,       \* the spool directories: [there, lock, packs, open]
    claims,     \* directories claimed so far
    lease,      \* the catalog's publisher lease: [holder, live]
    svc,        \* the storage service of process p
    bucket,     \* packs in the object store
    catalog,    \* packs the catalog indexes
    faults      \* faults left: [crashes, stalls, failures, drops]

storageVars == <<dirs, claims, lease, svc, bucket, catalog>>

Nobody == "nobody"
Dead == "dead"          \* holder of the lease row a dead process left
NoDir == -1
Root == 0
MaxDir == CHOOSE n \in {c.dirs : c \in Scenarios} : \A c \in Scenarios : c.dirs <= n
Dirs == 0..MaxDir
RankDirs == Dirs \ {Root}

NoFiles == [there |-> FALSE, lock |-> Nobody, packs |-> {}, open |-> {}]
NoService == [st |-> "none", dir |-> NoDir, took |-> FALSE, adopts |-> FALSE,
              owed |-> {}, scan |-> FALSE, queue |-> {}, adopting |-> NoDir,
              liveSiblings |-> FALSE, looked |-> 0]

StorageInit ==
    /\ dirs = [d \in Dirs |-> IF d = Root THEN [NoFiles EXCEPT !.there = TRUE] ELSE NoFiles]
    /\ claims = 0
    /\ lease = [holder |-> Nobody, live |-> FALSE]
    /\ svc = [p \in Procs |-> NoService]
    /\ bucket = {} /\ catalog = {}
-----------------------------------------------------------------------------
(* Owner locks.                                                             *)

Locked(d) == dirs[d].lock # Nobody

\* CheckNotNested: no directory is taken inside, or around, a held one.
NotNested(d) == IF d = Root THEN \A e \in RankDirs : ~Locked(e) ELSE ~Locked(Root)

CanLock(d) == ~Locked(d) /\ NotNested(d)

\* SpoolOwnerLock on a fresh rank directory, created with its lock held.
Claimed(ds, p, d) == [ds EXCEPT ![d] = [NoFiles EXCEPT !.there = TRUE, !.lock = p]]

Unlocked(ds, d) == IF d = NoDir THEN ds ELSE [ds EXCEPT ![d].lock = Nobody]

\* Mutant: the directory goes with whatever is in it.
ReleasedWithPacks(ds, d) == IF d = NoDir THEN ds ELSE [ds EXCEPT ![d] = NoFiles]

\* SpoolClaim.release: the directory goes with its lock if nothing is left in
\* it, and stays for an adopter otherwise.
Released(ds, d) ==
    IF d = NoDir THEN ds
    ELSE IF ds[d].packs = {} /\ ds[d].open = {} THEN [ds EXCEPT ![d] = NoFiles]
    ELSE Unlocked(ds, d)
-----------------------------------------------------------------------------
(* The publisher lease, as the service sees it.                             *)

Holds(p) == lease.holder = p /\ lease.live

\* reject_live: a service claims under a fresh lease_id, so a live row refuses it
\* whoever wrote it.
CanTake(p) == lease.holder = Nobody \/ ~lease.live

\* A row nobody renews runs out: its holder died, or stalled past the TTL.
ExpireLease ==
    /\ lease.live /\ lease.holder # Nobody
    /\ \/ lease.holder = Dead /\ UNCHANGED faults
       \/ /\ lease.holder \in Procs /\ faults.stalls > 0
          /\ faults' = [faults EXCEPT !.stalls = @ - 1]
    /\ lease' = [lease EXCEPT !.live = FALSE]
    /\ UNCHANGED <<dirs, claims, svc, bucket, catalog>>
-----------------------------------------------------------------------------
(* The service.                                                             *)

\* spool_owner_lock_beside and Spool::Open: the explicit sink's directory is
\* shared with the sink of this process that holds it, or taken.
CanOpenRoot(p) == dirs[Root].lock = p \/ CanLock(Root)

\* NativeCaptureStorage.start for process p on directory d: the lease, the
\* sweep of a directory this process alone writes, the reconcile of what is in
\* the bucket and not in the catalog.  The reconcile's failure fails nothing.
StartsService(p, d) ==
    /\ CanTake(p) /\ (d = Root => CanOpenRoot(p))
    /\ lease' = [holder |-> p, live |-> TRUE]
    /\ svc' = [svc EXCEPT ![p] = [NoService EXCEPT !.st = "running", !.dir = d,
                                     !.took = d = Root /\ dirs[Root].lock # p,
                                     !.adopts = d # Root, !.scan = d # Root,
                                     !.looked = claims]]
    /\ dirs' = IF d = Root THEN [dirs EXCEPT ![Root].lock = p]
               ELSE [dirs EXCEPT ![d].open = {}]
    /\ \/ catalog' = catalog \cup bucket /\ UNCHANGED faults
       \/ /\ faults.failures > 0 /\ bucket # catalog
          /\ faults' = [faults EXCEPT !.failures = @ - 1] /\ UNCHANGED catalog
    /\ UNCHANGED <<claims, bucket>>

\* NativeCaptureStorage.stop: lets go of a half-adopted sibling and of the
\* lease; what it uploaded and did not index stays in the bucket.
StopsService(p, ds) ==
    /\ svc' = [svc EXCEPT ![p] = NoService]
    /\ lease' = IF Holds(p) THEN [holder |-> Nobody, live |-> FALSE] ELSE lease
    /\ dirs' = LET let == Unlocked(ds, svc[p].adopting)
               IN IF svc[p].took THEN Unlocked(let, Root) ELSE let

Cycles(p) == svc[p].st = "running" /\ Holds(p)

\* ensure_publisher_lease: a lapsed lease is taken again, and a rival that
\* keeps it ends the service's cycles; a half-adopted sibling is let go of.
KeepLease(p) ==
    /\ svc[p].st = "running" /\ ~Holds(p)
    /\ \/ /\ CanTake(p)
          /\ lease' = [holder |-> p, live |-> TRUE]
          /\ UNCHANGED <<svc, dirs>>
       \/ /\ ~CanTake(p)
          /\ svc' = [svc EXCEPT ![p].st = "failed", ![p].scan = FALSE, ![p].queue = {},
                                ![p].adopting = NoDir]
          /\ dirs' = Unlocked(dirs, svc[p].adopting)
          /\ UNCHANGED lease
    /\ UNCHANGED <<claims, bucket, catalog, faults>>

Uploadable(d) == dirs[d].packs # {} /\ conf.record + Framing <= conf.inFlight

\* upload_chunk: a pack of directory d goes to the bucket and leaves the spool,
\* and the index is owed it.
Uploads(p, d) ==
    /\ Uploadable(d) /\ svc[p].owed = {}
    /\ \E r \in dirs[d].packs :
         /\ dirs' = [dirs EXCEPT ![d].packs = @ \ {r}]
         /\ bucket' = bucket \cup {r}
         /\ svc' = [svc EXCEPT ![p].owed = {r}]
    /\ UNCHANGED <<claims, lease, catalog, faults>>

UploadOwn(p) == Cycles(p) /\ Uploads(p, svc[p].dir)

\* index_or_owe.
IndexOwed(p) ==
    /\ Cycles(p) /\ svc[p].owed # {}
    /\ catalog' = catalog \cup svc[p].owed
    /\ svc' = [svc EXCEPT ![p].owed = {}]
    /\ UNCHANGED <<dirs, claims, lease, bucket, faults>>

\* The loop adopts with its own packs uploaded and nothing owed.
MayAdopt(p) ==
    Cycles(p) /\ svc[p].adopts /\ svc[p].owed = {} /\ dirs[svc[p].dir].packs = {}

Siblings(p) == {d \in RankDirs : dirs[d].there /\ d # svc[p].dir}

\* Mutant: siblings are looked at once, at start.
ScanOnce(p) ==
    /\ MayAdopt(p) /\ svc[p].adopting = NoDir /\ svc[p].queue = {} /\ svc[p].scan
    /\ svc' = [svc EXCEPT ![p].scan = FALSE, ![p].looked = claims,
                          ![p].queue = {d \in Siblings(p) : ~Locked(d)}]
    /\ UNCHANGED <<dirs, claims, lease, bucket, catalog, faults>>

\* scan_siblings, owed at start and, while the last look met a live sibling,
\* again every adoption_recheck_interval_ns.  `looked' is what a look can have
\* seen: the directories claimed by then.
ScanSiblings(p) ==
    /\ MayAdopt(p) /\ svc[p].adopting = NoDir /\ svc[p].queue = {}
    /\ svc[p].scan \/ svc[p].liveSiblings
    /\ svc' = [svc EXCEPT ![p].scan = FALSE,
                          ![p].queue = {d \in Siblings(p) : ~Locked(d)},
                          ![p].liveSiblings = \E d \in Siblings(p) : Locked(d),
                          ![p].looked = claims]
    /\ UNCHANGED <<dirs, claims, lease, bucket, catalog, faults>>

\* begin_adoption: a sibling taken or removed since the look is left alone;
\* one taken is swept of the stage its owner died in.
BeginAdoption(p) ==
    /\ MayAdopt(p) /\ svc[p].adopting = NoDir
    /\ \E d \in svc[p].queue :
         /\ svc' = [svc EXCEPT ![p].queue = @ \ {d},
                               ![p].adopting = IF dirs[d].there /\ ~Locked(d) THEN d ELSE NoDir,
                               ![p].liveSiblings = @ \/ Locked(d)]
         /\ dirs' = IF dirs[d].there /\ ~Locked(d)
                    THEN [dirs EXCEPT ![d].lock = p, ![d].open = {}] ELSE dirs
    /\ UNCHANGED <<claims, lease, bucket, catalog, faults>>

\* upload_adopted_round.
AdoptPack(p) == MayAdopt(p) /\ svc[p].adopting # NoDir /\ Uploads(p, svc[p].adopting)

\* finish_adoption.
FinishAdoption(p) ==
    /\ MayAdopt(p) /\ svc[p].adopting # NoDir /\ dirs[svc[p].adopting].packs = {}
    /\ dirs' = Released(dirs, svc[p].adopting)
    /\ svc' = [svc EXCEPT ![p].adopting = NoDir]
    /\ UNCHANGED <<claims, lease, bucket, catalog, faults>>

Adopts(p) == ScanSiblings(p) \/ BeginAdoption(p) \/ AdoptPack(p) \/ FinishAdoption(p)

ServiceStep(p) == KeepLease(p) \/ UploadOwn(p) \/ IndexOwed(p) \/ Adopts(p)
=============================================================================
