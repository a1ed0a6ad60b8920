------------------------------ MODULE HostSpool ------------------------------
(***************************************************************************)
(* The durable spool and the uploader of the Python capture storage        *)
(* (storage/capture/spool.py) over a filesystem store (filesystem.py) or   *)
(* an S3 store (s3.py).                                                    *)
(*                                                                         *)
(* stage() holds the spool's lock for its whole body, recover() only at    *)
(* the ends of a pass, and uploads none at all.  A pack is its number in   *)
(* `sealed`; a file's name and a directory's entries are durable once the  *)
(* directory chain has been synced, and a crash keeps any subset of what   *)
(* was not.  A crash between an unlink and its sync leaves the same disk    *)
(* as one before the unlink, so a removal is one step.                     *)
(***************************************************************************)
EXTENDS PackFormat, FiniteSets, FiniteSetsExt

CONSTANTS
    Stagers,        \* threads that call stage(): the pipeline's worker among them
    Uploaders,      \* worker threads of ParallelSpoolUploader
    PassLimit,      \* _RECOVER_ATTEMPTS
    MaxAttempts,    \* ParallelUploadConfig.max_attempts
    Scenarios       \* deployments and bounds of a behaviour

\* max_bytes, max_in_flight_bytes and the kind of store; packs given to direct
\* callers of stage(), those among them that share one pack id; bounds.
SpoolFields == {"maxBytes", "inFlight", "store", "preset", "twins", "calls",
                "batches", "crashes", "faults"}

ASSUME HostSpoolAssumption ==
    /\ PassLimit \in Nat \ {0} /\ MaxAttempts \in Nat \ {0}
    /\ \A c \in Scenarios : SpoolFields \subseteq DOMAIN c

VARIABLES
    conf,     \* the scenario
    sealed,   \* the packs sealed so far, each as its footer lists it
    disk,     \* [ready, dirty, temps, rotten, quarantined]: sets of packs
    acct,     \* [ready, stale, gen]: _accounted_ready, the bytes of stale
              \* temporary files counted at construction, _mutation_generation
    lock,     \* who holds the spool's lock
    st,       \* each stager inside stage(): [pc, pack]
    acked,    \* packs some stage() returned for, as long as the disk keeps their
              \* bytes
    up,       \* upload_pending(): [pc, pass, gen, paths, entries, pending]
    work,     \* each thread inside SpoolUploader.upload(): [pc, pack, attempt]
    store,    \* [right, wrong, dirty]: objects by content, those not yet synced
    refs,     \* packs a PackRef was returned for
    life,     \* "up" or "down"
    count     \* [calls, batches, crashes, faults]

spoolVars == <<conf, sealed, disk, acct, lock, st, acked, up, work, store, refs,
               life, count>>

Size(p) == ObjectBytes(sealed[p])
Bytes(ps) == MapThenSumSet(Size, ps)
AccountedBytes == Bytes(acct.ready) + acct.stale
PackId(p) == IF p \in conf.twins THEN 0 ELSE p

NoUpload == [pc |-> "idle", pass |-> 0, gen |-> 0, paths |-> {}, entries |-> {},
             pending |-> {}]
NoWork == [pc |-> "idle", pack |-> 0, attempt |-> 0]

SpoolInit ==
    /\ conf \in Scenarios
    /\ sealed = conf.preset
    /\ disk = [ready |-> {}, dirty |-> {}, temps |-> {}, rotten |-> {}, quarantined |-> {}]
    /\ acct = [ready |-> {}, stale |-> 0, gen |-> 0]
    /\ lock = "free"
    /\ st = [s \in Stagers |-> [pc |-> "idle", pack |-> 0]]
    /\ acked = {}
    /\ up = NoUpload
    /\ work = [w \in Uploaders \cup Stagers |-> NoWork]
    /\ store = [right |-> {}, wrong |-> {}, dirty |-> {}]
    /\ refs = {}
    /\ life = "up"
    /\ count = [calls |-> 0, batches |-> 0, crashes |-> 0, faults |-> 0]

Fault == count.faults < conf.faults /\ count' = [count EXCEPT !.faults = @ + 1]

-----------------------------------------------------------------------------
(* Accounting: a path counts once, and every change moves the generation.  *)

Account(p) ==
    acct' = IF p \in acct.ready THEN acct
            ELSE [acct EXCEPT !.ready = @ \cup {p}, !.gen = @ + 1]

Unaccount(p) ==
    acct' = IF p \notin acct.ready THEN acct
            ELSE [acct EXCEPT !.ready = @ \ {p}, !.gen = @ + 1]

Fits(p) == AccountedBytes + Size(p) <= conf.maxBytes

\* _entry and _existing re-hash a ready file; the stores hash what they copy.
EntryValid(p) == p \notin disk.rotten
CopyVerifies(p) == p \in disk.ready \ disk.rotten

(* stage() in three steps under the lock: the checks and the temporary     *)
(* file; the link, counted at once; the sync of the directory chain.       *)

Leave(s, how) ==
    /\ lock' = "free"
    /\ st' = [st EXCEPT ![s].pc = how]

StageEnter(s, p) ==
    /\ life = "up" /\ lock = "free"
    /\ \/ /\ p \in disk.ready /\ EntryValid(p)
          /\ Account(p)
          /\ lock' = s /\ st' = [st EXCEPT ![s] = [pc |-> "sync", pack |-> p]]
          /\ UNCHANGED disk
       \/ /\ p \in disk.ready /\ ~EntryValid(p)
          /\ st' = [st EXCEPT ![s] = [pc |-> "conflict", pack |-> p]]
          /\ UNCHANGED <<acct, lock, disk>>
       \/ /\ p \notin disk.ready /\ \E q \in disk.ready : PackId(q) = PackId(p)
          /\ st' = [st EXCEPT ![s] = [pc |-> "conflict", pack |-> p]]
          /\ UNCHANGED <<acct, lock, disk>>
       \/ /\ p \notin disk.ready /\ \A q \in disk.ready : PackId(q) # PackId(p)
          /\ ~Fits(p)
          /\ st' = [st EXCEPT ![s] = [pc |-> "full", pack |-> p]]
          /\ UNCHANGED <<acct, lock, disk>>
       \/ /\ p \notin disk.ready /\ \A q \in disk.ready : PackId(q) # PackId(p)
          /\ Fits(p)
          /\ lock' = s /\ st' = [st EXCEPT ![s] = [pc |-> "link", pack |-> p]]
          /\ disk' = [disk EXCEPT !.temps = @ \cup {p}]
          /\ UNCHANGED acct
    /\ UNCHANGED <<conf, sealed, acked, up, work, store, refs, life>>

StageLink(s) ==
    LET p == st[s].pack IN
    /\ st[s].pc = "link"
    /\ disk' = [disk EXCEPT !.ready = @ \cup {p}, !.dirty = @ \cup {p},
                            !.temps = @ \ {p}, !.rotten = @ \ {p}]
    /\ Account(p)
    /\ st' = [st EXCEPT ![s].pc = "sync"]
    /\ UNCHANGED <<conf, sealed, lock, acked, up, work, store, refs, life, count>>

StageSync(s) ==
    LET p == st[s].pack IN
    /\ st[s].pc = "sync"
    /\ disk' = [disk EXCEPT !.dirty = @ \ {p}]
    /\ acked' = acked \cup ({p} \ disk.rotten)
    /\ Leave(s, "ok")
    /\ UNCHANGED <<conf, sealed, acct, up, work, store, refs, life, count>>

\* A write that fails leaves nothing; a sync that fails leaves the linked and
\* counted file.
StageFails(s) ==
    /\ st[s].pc \in {"link", "sync"}
    /\ Fault
    /\ disk' = [disk EXCEPT !.temps = @ \ {st[s].pack}]
    /\ Leave(s, "io")
    /\ UNCHANGED <<conf, sealed, acct, acked, up, work, store, refs, life>>

\* A direct caller of stage(), which may stage a pack again.
Caller(s) ==
    /\ st[s].pc \in {"idle", "ok", "full", "conflict", "io"} /\ work[s].pc = "idle"
    /\ count.calls < conf.calls
    /\ count' = [count EXCEPT !.calls = @ + 1]
    /\ \E p \in DOMAIN conf.preset : StageEnter(s, p)

-----------------------------------------------------------------------------
(* recover(): optimistic passes, then one that keeps the lock.             *)

Locked == up.pass = PassLimit
MayLock == lock = "free" \/ lock = "recover"

UploadPending ==
    /\ life = "up" /\ up.pc = "idle" /\ count.batches < conf.batches
    /\ count' = [count EXCEPT !.batches = @ + 1]
    /\ up' = [NoUpload EXCEPT !.pc = "begin"]
    /\ UNCHANGED <<conf, sealed, disk, acct, lock, st, acked, work, store, refs, life>>

\* _begin_recovery_locked sweeps every temporary file and lists the rest.
RecoverBegin ==
    /\ up.pc = "begin" /\ lock = "free"
    /\ disk' = [disk EXCEPT !.temps = {}]
    /\ up' = [up EXCEPT !.pc = "validate", !.gen = acct.gen, !.paths = disk.ready,
                        !.entries = {}]
    /\ lock' = IF Locked THEN "recover" ELSE lock
    /\ UNCHANGED <<conf, sealed, acct, st, acked, work, store, refs, life, count>>

\* _quarantine moves the file aside and always moves the generation.
Quarantine(p) ==
    /\ disk' = [disk EXCEPT !.ready = @ \ {p}, !.dirty = @ \ {p},
                            !.quarantined = @ \cup {p}]
    /\ acct' = [acct EXCEPT !.ready = @ \ {p}, !.gen = @ + 1]

\* _validate_ready, one file a step: a vanished one is skipped, a rotten one
\* quarantined.
Validate(p) ==
    /\ up.pc = "validate" /\ p \in up.paths
    /\ \/ /\ p \notin disk.ready
          /\ up' = [up EXCEPT !.paths = @ \ {p}]
          /\ UNCHANGED <<disk, acct>>
       \/ /\ p \in disk.ready /\ EntryValid(p)
          /\ up' = [up EXCEPT !.paths = @ \ {p}, !.entries = @ \cup {p}]
          /\ UNCHANGED <<disk, acct>>
       \/ /\ p \in disk.ready /\ ~EntryValid(p) /\ MayLock
          /\ up' = [up EXCEPT !.paths = @ \ {p}]
          /\ Quarantine(p)
    /\ UNCHANGED <<conf, sealed, lock, st, acked, work, store, refs, life, count>>

\* The pass counts only if nothing moved meanwhile; a mutant lets it count
\* always.
CommitsAlways == TRUE

Commits == Locked \/ acct.gen = up.gen

RecoverCommit ==
    /\ up.pc = "validate" /\ up.paths = {} /\ MayLock
    /\ IF Commits
       THEN /\ acct' = [acct EXCEPT !.ready = up.entries, !.stale = 0, !.gen = @ + 1]
            /\ up' = [up EXCEPT !.pc = IF \E p \in up.entries : Size(p) > conf.inFlight
                                       THEN "idle" ELSE "upload",
                                !.pending = up.entries]
       ELSE /\ up' = [up EXCEPT !.pc = "begin", !.pass = @ + 1]
            /\ acct' = acct
    /\ lock' = "free"
    /\ UNCHANGED <<conf, sealed, disk, st, acked, work, store, refs, life, count>>

-----------------------------------------------------------------------------
(* ParallelSpoolUploader: bounded threads and bounded bytes in flight.     *)

Busy == {w \in Uploaders : work[w].pc # "idle"}
InFlight == Bytes({work[w].pack : w \in Busy})
Selectable == {p \in up.pending : InFlight + Size(p) <= conf.inFlight}

Submit(w) ==
    /\ life = "up" /\ up.pc = "upload" /\ work[w].pc = "idle"
    /\ Selectable # {}
    /\ work' = [work EXCEPT ![w] = [pc |-> "put", pack |-> Min(Selectable), attempt |-> 1]]
    /\ up' = [up EXCEPT !.pending = @ \ {Min(Selectable)}]
    /\ UNCHANGED <<conf, sealed, disk, acct, lock, st, acked, store, refs, life, count>>

\* SpoolUploader.upload(staged) with what stage() returned: a second uploader,
\* beside the batch, that tries once.  Only on a filesystem store, where the
\* link decides between two uploaders of a pack; S3's HEAD and upload are one
\* step here.
UploadDirect(s) ==
    /\ life = "up" /\ conf.store = "filesystem"
    /\ st[s].pc = "ok" /\ work[s].pc = "idle" /\ count.calls < conf.calls
    /\ count' = [count EXCEPT !.calls = @ + 1]
    /\ work' = [work EXCEPT ![s] = [pc |-> "put", pack |-> st[s].pack, attempt |-> MaxAttempts]]
    /\ UNCHANGED <<conf, sealed, disk, acct, lock, st, acked, up, store, refs, life>>

BatchDone ==
    /\ up.pc = "upload" /\ up.pending = {} /\ Busy = {}
    /\ up' = NoUpload
    /\ UNCHANGED <<conf, sealed, disk, acct, lock, st, acked, work, store, refs, life, count>>

\* An object is at the pack's key, and it has the pack's bytes.  The mutant
\* takes whatever is at the key for the pack.
Stored(p) == \E q \in store.right \cup store.wrong : PackId(q) = PackId(p)

Existing(p) == p \in store.right

At(w, pc) == work' = [work EXCEPT ![w].pc = pc]
Finish(w) == work' = [work EXCEPT ![w] = NoWork]

\* FilesystemPackStore.put: an object that is there must have the bytes, and
\* its directory chain is synced either way before the reference is returned.
\* The bytes are hashed while they are copied.  The mutant trusts a name that
\* is there to be durable.
FoundTrusted == "remove"

Found == "sync"

PutFilesystem(w) ==
    LET p == work[w].pack IN
    /\ conf.store = "filesystem"
    /\ \/ /\ Existing(p) /\ At(w, Found) /\ UNCHANGED store
       \/ /\ Stored(p) /\ ~Existing(p) /\ Finish(w) /\ UNCHANGED store
       \/ /\ ~Stored(p) /\ ~CopyVerifies(p) /\ Finish(w) /\ UNCHANGED store
       \/ /\ ~Stored(p) /\ CopyVerifies(p)
          /\ store' = [store EXCEPT !.right = @ \cup {p}, !.dirty = @ \cup {p}]
          /\ At(w, "sync")

\* S3PackStore.put: HEAD, then the content of what is there, else an upload
\* that is hashed on the way and deleted again when it was not the pack.
PutS3(w) ==
    LET p == work[w].pack IN
    /\ conf.store = "s3"
    /\ \/ /\ Existing(p) /\ At(w, "remove") /\ UNCHANGED store
       \/ /\ Stored(p) /\ ~Existing(p) /\ Finish(w) /\ UNCHANGED store
       \/ /\ ~Stored(p) /\ ~CopyVerifies(p)
          /\ store' = [store EXCEPT !.wrong = @ \cup {p}]
          /\ At(w, "delete")
       \/ /\ ~Stored(p) /\ CopyVerifies(p)
          /\ store' = [store EXCEPT !.right = @ \cup {p}]
          /\ At(w, "remove")

Put(w) ==
    /\ life = "up" /\ work[w].pc = "put"
    /\ PutFilesystem(w) \/ PutS3(w)
    /\ UNCHANGED <<conf, sealed, disk, acct, lock, st, acked, up, refs, life, count>>

SyncStore(w) ==
    /\ work[w].pc = "sync"
    /\ store' = [store EXCEPT !.dirty = @ \ {work[w].pack}]
    /\ At(w, "remove")
    /\ UNCHANGED <<conf, sealed, disk, acct, lock, st, acked, up, refs, life, count>>

\* _delete_uploaded is best effort.
DeleteUploaded(w) ==
    /\ work[w].pc = "delete"
    /\ \/ store' = [store EXCEPT !.wrong = @ \ {work[w].pack}] /\ UNCHANGED count
       \/ Fault /\ UNCHANGED store
    /\ Finish(w)
    /\ UNCHANGED <<conf, sealed, disk, acct, lock, st, acked, up, refs, life>>

\* remove(), then the reference is returned.
Remove(w) ==
    LET p == work[w].pack IN
    /\ work[w].pc = "remove" /\ lock = "free"
    /\ disk' = [disk EXCEPT !.ready = @ \ {p}, !.dirty = @ \ {p}]
    /\ Unaccount(p)
    /\ refs' = refs \cup {p}
    /\ Finish(w)
    /\ UNCHANGED <<conf, sealed, lock, st, acked, up, store, life, count>>

\* A failed or unheard request: retried from the start while it is retryable
\* and attempts are left, else the pack stays staged for a later batch.
UploadFails(w) ==
    /\ work[w].pc \in {"put", "sync", "remove"}
    /\ Fault
    /\ \/ work' = [work EXCEPT ![w] = IF @.attempt = MaxAttempts THEN NoWork
                                       ELSE [@ EXCEPT !.pc = "put", !.attempt = @ + 1]]
       \/ Finish(w)      \* not retryable
    /\ UNCHANGED <<conf, sealed, disk, acct, lock, st, acked, up, store, refs, life>>

-----------------------------------------------------------------------------
(* Faults, and the process coming back.                                    *)

Rot(p) ==
    /\ life = "up" /\ p \in disk.ready \ (disk.rotten \cup disk.dirty) /\ Fault
    /\ disk' = [disk EXCEPT !.rotten = @ \cup {p}]
    /\ acked' = acked \ {p}
    /\ UNCHANGED <<conf, sealed, acct, lock, st, up, work, store, refs, life>>

Crash ==
    /\ life = "up" /\ count.crashes < conf.crashes
    /\ count' = [count EXCEPT !.crashes = @ + 1]
    /\ life' = "down"
    /\ \E lost \in SUBSET disk.dirty :
          disk' = [disk EXCEPT !.ready = @ \ lost, !.dirty = {}]
    /\ \E lost \in SUBSET store.dirty :
          store' = [store EXCEPT !.right = @ \ lost, !.dirty = {}]
    /\ lock' = "free"
    /\ st' = [s \in Stagers |-> [pc |-> "idle", pack |-> 0]]
    /\ up' = NoUpload
    /\ work' = [w \in Uploaders \cup Stagers |-> NoWork]
    /\ UNCHANGED <<conf, sealed, acct, acked, refs>>

\* DurablePackSpool.__init__ counts what it finds, stale temporaries too.
Restart ==
    /\ life = "down" /\ life' = "up"
    /\ acct' = [ready |-> disk.ready, stale |-> Bytes(disk.temps), gen |-> 0]
    /\ UNCHANGED <<conf, sealed, disk, lock, st, acked, up, work, store, refs, count>>

SpoolNext ==
    \/ \E s \in Stagers : StageLink(s) \/ StageSync(s) \/ StageFails(s)
    \/ \E s \in Stagers \ {"worker"} : Caller(s) \/ UploadDirect(s)
    \/ UploadPending \/ RecoverBegin \/ RecoverCommit \/ BatchDone
    \/ \E p \in up.paths : Validate(p)
    \/ \E w \in Uploaders : Submit(w)
    \/ \E w \in Uploaders \cup Stagers :
          Put(w) \/ SyncStore(w) \/ DeleteUploaded(w) \/ Remove(w) \/ UploadFails(w)
    \/ \E p \in disk.ready : Rot(p)
    \/ Restart

(***************************************************************************)
(* What the spool promises.                                                *)
(***************************************************************************)

\* A pack stage() has acknowledged is never lost: whatever crashes, retries,
\* recoveries and uploads follow, its bytes are in the spool or in the store,
\* unless the disk itself changed them; and an upload that returned a reference
\* left the right object at the key (stage, recover, upload and remove).
PersistedKept ==
    acked \subseteq disk.ready \cup store.right /\ refs \subseteq store.right

\* Whenever nobody is inside the spool's lock, its account is exactly the
\* ready files of the directory, and those stay within max_bytes, although
\* recover() computes it without the lock while packs are staged and removed.
SpoolAccounted ==
    (life = "up" /\ lock = "free") =>
        /\ acct.ready = disk.ready
        /\ Bytes(disk.ready) <= conf.maxBytes
=============================================================================
