--------------------------- MODULE CatalogPublish ---------------------------
(***************************************************************************)
(* Publishing snapshots to the capture catalog under the lease of           *)
(* PublisherLease: CatalogIndexer.index and _publish (catalog.py), the       *)
(* version allocator, publish_snapshot and the garbage collector of          *)
(* ClickHouseCatalogWriter (clickhouse_catalog.py).  A snapshot admits the   *)
(* manifest rows whose (version, publish_id) stands in the watermark table.  *)
(***************************************************************************)
EXTENDS PublisherLease

CONSTANTS
    Packs,
    AllocationAttempts,  \* allocation_attempts
    MaxPublishAttempts   \* max_publish_attempts

(* Further bounds: the writers, the uploaded packs, calls of index() and     *)
(* runs of the garbage collector.                                           *)
ASSUME PublishAssumption ==
    /\ AllocationAttempts \in Nat \ {0} /\ MaxPublishAttempts \in Nat \ {0}
    /\ \A c \in Scenarios : /\ DOMAIN c = LeaseFields \cup {"writers", "packs", "passes", "gcs"}
                            /\ c.writers \subseteq Writers /\ c.packs \subseteq Packs
                            /\ {c.passes, c.gcs} \subseteq Nat

VARIABLES
    claims,     \* capture_version_claims: set of [version, uid]
    manifest,   \* snapshot_manifest: set of [version, pub, pack]
    watermark,  \* index_watermark: set of [version, pub]
    described,  \* packs whose descriptors are in capture_raw
    inventory,  \* packs in pack_inventory
    job,        \* writer -> the index() under way
    known,      \* writer -> _published_version of its indexer, or Unread
    serial,     \* uuids drawn for version claims and publishes
    passes, gcs,
    gc          \* the garbage collector, run by a writer of its own

tables == <<claims, manifest, watermark, described, inventory>>
vars == <<conf, now, leaseVars, flight, countVars, tables, job, known, serial,
          passes, gcs, gc>>
leaseSide == <<now, leaseVars, flight, countVars>>
notWriter == <<conf, now, rows, used, claim, next, passes, gcs, gc>>

Unread == -1
NoJob == [packs |-> {}, todo |-> {}, chunk |-> {}, version |-> 0, uid |-> 0, tries |-> 0, published |-> 0]

MaxVersion(table) == Max({0} \cup {r.version : r \in table})
PublishedHead == MaxVersion(watermark)

Init ==
    /\ LeaseInit
    /\ claims = {} /\ manifest = {} /\ watermark = {} /\ described = {} /\ inventory = {}
    /\ job = [w \in Writers |-> NoJob] /\ known = [w \in Writers |-> Unread]
    /\ serial = 0 /\ passes = 0 /\ gcs = 0
    /\ gc = [pc |-> "idle", published |-> 0, term |-> 0, orphans |-> {}, at |-> 0]

(* The end of a pass, also of one its lease or a statement cut short.       *)
EndPass(w) == Goes(w, "ready") /\ job' = [job EXCEPT ![w] = NoJob]
OnlyLease ==
    /\ job' = [w \in Writers |-> IF pc'[w] \in {"idle", "ready"} THEN NoJob ELSE job[w]]
    /\ UNCHANGED <<tables, known, serial, passes, gcs, gc>>

---------------------------------------------------------------------------
(* index() up to its allocation: the packs the inventory does not list are  *)
(* left, their footers are read (one that fails is only reported), and a    *)
(* writer without a lease is refused.                                       *)
Commit(w) ==
    /\ pc[w] = "ready" /\ Holds(w) /\ passes < conf.passes
    /\ \E ps \in SUBSET (conf.packs \ inventory) :
         /\ ps # {}
         /\ job' = [job EXCEPT ![w] = [NoJob EXCEPT !.packs = ps]]
    /\ passes' = passes + 1 /\ Goes(w, "allocate")
    /\ UNCHANGED <<conf, now, rows, used, held, claim, next, until, flight, countVars,
                   tables, known, serial, gcs, gc>>

(* _allocate_version_serialised: above every claim and the published head,  *)
(* with a random skip after a collision.                                    *)
AllocateRead(w) ==
    /\ pc[w] = "allocate"
    /\ \E spread \in IF job[w].tries = 0 THEN {0} ELSE {0, 1} :
         job' = [job EXCEPT ![w].version = Max({MaxVersion(claims), PublishedHead}) + 1 + spread,
                            ![w].uid = serial + 1]
    /\ serial' = serial + 1 /\ Goes(w, "insert")
    /\ UNCHANGED <<notWriter, held, until, flight, countVars, tables, known>>
AllocateInsert(w) ==
    /\ pc[w] = "insert"
    /\ claims' = claims \cup {[version |-> job[w].version, uid |-> job[w].uid]}
    /\ Goes(w, "owner")
    /\ UNCHANGED <<notWriter, held, until, flight, countVars, manifest, watermark, described,
                   inventory, job, known, serial>>

(* The read-back, _allocate_version's check against the published head the  *)
(* indexer remembers, and the descriptors written at the new version.       *)
Owners(v) == {c.uid : c \in {x \in claims : x.version = v}}
AllocateReadBack(w) ==
    /\ pc[w] = "owner"
    /\ LET head == IF known[w] = Unread THEN PublishedHead ELSE known[w]
       IN IF Owners(job[w].version) # {job[w].uid}
          THEN /\ IF job[w].tries + 1 < AllocationAttempts
                  THEN Goes(w, "allocate") /\ job' = [job EXCEPT ![w].tries = @ + 1]
                  ELSE EndPass(w)
               /\ UNCHANGED <<known, described>>
          ELSE /\ known' = [known EXCEPT ![w] = head]
               /\ IF job[w].version > head
                  THEN /\ job' = [job EXCEPT ![w].tries = 0, ![w].todo = job[w].packs]
                       /\ described' = described \cup job[w].packs
                       /\ Goes(w, "renew")
                  ELSE EndPass(w) /\ UNCHANGED described
    /\ UNCHANGED <<notWriter, held, until, flight, countVars, claims, manifest, watermark,
                   inventory, serial>>

(* Every fenced statement has a renewal before it: first the chunks of the  *)
(* manifest, one pack each, then the watermark.                             *)
RenewForPublish(w) ==
    /\ pc[w] = "renew"
    /\ Renew(w, IF job[w].todo # {} THEN "manifest" ELSE "watermark")
    /\ OnlyLease

Fenced(kind, w, packs) ==
    Statement(kind, w, 0, held[w].id, job[w].version, job[w].uid, packs)
ManifestSend(w) ==
    /\ pc[w] = "manifest"
    /\ \E p \in job[w].todo :
         /\ job' = [job EXCEPT ![w].todo = @ \ {p}, ![w].chunk = {p}]
         /\ Sends(w, Fenced("manifest", w, {p}))
    /\ UNCHANGED <<notWriter, held, until, countVars, tables, known, serial>>
WatermarkSend(w) ==
    /\ pc[w] = "watermark"
    /\ Sends(w, Fenced("watermark", w, {}))
    /\ UNCHANGED <<notWriter, held, until, countVars, tables, job, known, serial>>

(* The server starts a fenced statement: its WHERE holds, or it inserts     *)
(* nothing.                                                                 *)
(* Mutant: the watermark is written whatever is published already.          *)
BarrierOpen(s) == TRUE
Barrier(s) == s.kind = "watermark" => PublishedHead < s.version
Start(s) ==
    /\ s.kind \in {"manifest", "watermark"} /\ s.ends = 0
    /\ \E t \in Clock :
         IF Barrier(s) /\ Fence(s.id, t)
         THEN /\ flight' = (flight \ {s}) \cup {[s EXCEPT !.ends = now + PublishTimeout]}
              /\ UNCHANGED pc
         ELSE Finish(s) /\ Answers(s, IF s.kind = "manifest" THEN "count" ELSE "published")
    /\ UNCHANGED <<notWriter, held, until, countVars, tables, job, known, serial>>
ManifestLands(s) ==
    /\ s.kind = "manifest" /\ s.ends # 0
    /\ manifest' = manifest \cup {[version |-> s.version, pub |-> s.pub, pack |-> p] : p \in s.packs}
    /\ Finish(s) /\ Answers(s, "count")
    /\ UNCHANGED <<notWriter, held, until, countVars, claims, watermark, described, inventory,
                   job, known, serial>>
WatermarkLands(s) ==
    /\ s.kind = "watermark" /\ s.ends # 0
    /\ watermark' = watermark \cup {[version |-> s.version, pub |-> s.pub]}
    /\ Finish(s) /\ Answers(s, "published")
    /\ UNCHANGED <<notWriter, held, until, countVars, claims, manifest, described, inventory,
                   job, known, serial>>

(* SnapshotPublishRaceError: the remembered head is dropped and a version   *)
(* allocated again, as often as max_publish_attempts allows.  A lease that  *)
(* is no longer the head's is given up and ends the pass (reject_if_gone).  *)
Members(w) == {m.pack : m \in {x \in manifest : /\ x.version = job[w].version
                                                /\ x.pub = job[w].uid}}
Race(w) ==
    IF job[w].published + 1 < MaxPublishAttempts
    THEN /\ known' = [known EXCEPT ![w] = Unread]
         /\ job' = [job EXCEPT ![w].published = @ + 1]
         /\ Goes(w, "allocate")
    ELSE EndPass(w) /\ UNCHANGED known
Refused(w) ==
    IF Leads(held[w].id)
    THEN Race(w) /\ UNCHANGED held
    ELSE /\ held' = [held EXCEPT ![w] = NoLease] /\ Goes(w, "idle")
         /\ job' = [job EXCEPT ![w] = NoJob] /\ UNCHANGED known

(* _manifest_chunk_published: the read-back of one chunk.                   *)
CountChunk(w) ==
    /\ pc[w] = "count"
    /\ IF job[w].chunk \subseteq Members(w)
       THEN Goes(w, "renew") /\ UNCHANGED <<known, job, held>>
       ELSE Refused(w)
    /\ UNCHANGED <<notWriter, until, flight, countVars, tables, serial>>

(* Ownership of the watermark row and the membership behind it              *)
(* (_manifest_is_whole); only then commit_packs, also when another publish  *)
(* shares the version (SnapshotPublishConflictError).                       *)
(* Mutant: the inventory is written whatever became of the publish.         *)
PublishedAlways(w) ==
    /\ pc[w] = "published"
    /\ Sends(w, Fenced("inventory", w, job[w].packs))
    /\ UNCHANGED <<known, job, notWriter, held, until, countVars, tables, serial>>
Published(w) ==
    /\ pc[w] = "published"
    /\ LET pubs == {r.pub : r \in {x \in watermark : x.version = job[w].version}} IN
       IF job[w].uid \notin pubs THEN Refused(w) /\ UNCHANGED flight
       ELSE IF pubs = {job[w].uid} /\ Members(w) # job[w].packs
       THEN Race(w) /\ UNCHANGED <<flight, held>>
       ELSE /\ known' = IF pubs = {job[w].uid} THEN [known EXCEPT ![w] = job[w].version] ELSE known
            /\ Sends(w, Fenced("inventory", w, job[w].packs)) /\ UNCHANGED <<job, held>>
    /\ UNCHANGED <<notWriter, until, countVars, tables, serial>>

(* commit_packs.                                                            *)
InventoryLands(s) ==
    /\ s.kind = "inventory"
    /\ inventory' = inventory \cup s.packs
    /\ Finish(s)
    /\ IF s.heard THEN EndPass(s.by) ELSE UNCHANGED <<pc, job>>
    /\ UNCHANGED <<notWriter, held, until, countVars, claims, manifest, watermark, described,
                   known, serial>>

(* A read fails: whatever was not a CaptureStorageError while acquiring,    *)
(* renewing or publishing quarantines the writer.  A failed allocation or   *)
(* descriptor INSERT only ends the pass.                                    *)
ReadFails(w) ==
    /\ Fault
    /\ \/ /\ \/ pc[w] \in {"readback", "renew", "count", "published"}
             \/ pc[w] = "idle" /\ now >= until[w]
          /\ Quarantine(w) /\ NoClaim(w) /\ job' = [job EXCEPT ![w] = NoJob]
       \/ /\ pc[w] \in {"allocate", "insert", "owner"}
          /\ EndPass(w) /\ UNCHANGED <<held, until, claim, next>>
    /\ UNCHANGED <<conf, now, rows, used, passes, gcs, gc, flight, crashes, tables, known,
                   serial>>

(* The server ends an admitted statement at its time limit; its writer sees *)
(* an error it cannot interpret.                                            *)
Capped(s) ==
    /\ s.ends # 0 /\ s.ends = now
    /\ Finish(s)
    /\ IF s.heard
       THEN Quarantine(s.by) /\ job' = [job EXCEPT ![s.by] = NoJob]
       ELSE UNCHANGED <<held, until, pc, job>>
    /\ UNCHANGED <<notWriter, countVars, tables, known, serial>>

---------------------------------------------------------------------------
(* collect_garbage: manifest rows below the published head without a        *)
(* watermark, twice in reads a publish timeout apart; then lease rows below *)
(* the head term and claims up to the published head.                       *)
gcOthers == <<conf, leaseSide, described, inventory, watermark, job, known, serial, passes>>
Orphans(head) == {[version |-> m.version, pub |-> m.pub] :
                    m \in {x \in manifest : x.version < head}} \ watermark
GcBegin ==
    /\ gc.pc = "idle" /\ gcs < conf.gcs
    /\ gcs' = gcs + 1
    /\ gc' = [gc EXCEPT !.pc = "first", !.published = PublishedHead, !.term = HeadTerm]
    /\ UNCHANGED <<gcOthers, claims, manifest>>
GcFirst ==
    /\ gc.pc = "first"
    /\ gc' = IF Orphans(gc.published) = {} THEN [gc EXCEPT !.pc = "leases"]
             ELSE [gc EXCEPT !.orphans = Orphans(gc.published), !.pc = "second",
                             !.at = now + PublishTimeout]
    /\ UNCHANGED <<gcOthers, gcs, claims, manifest>>
(* A publish timeout later what was admitted before the first read is over. *)
GcSecond ==
    /\ gc.pc = "second" /\ now >= gc.at /\ \A s \in Running : s.ends > gc.at
    /\ gc' = [gc EXCEPT !.orphans = @ \cap Orphans(gc.published), !.pc = "manifest",
                        !.at = 0]
    /\ UNCHANGED <<gcOthers, gcs, claims, manifest>>
GcManifest ==
    /\ gc.pc = "manifest"
    /\ manifest' = {m \in manifest : [version |-> m.version, pub |-> m.pub] \notin gc.orphans}
    /\ gc' = [gc EXCEPT !.pc = "leases", !.orphans = {}]
    /\ UNCHANGED <<gcOthers, gcs, claims>>
GcLeases ==
    /\ gc.pc = "leases"
    /\ rows' = {r \in rows : r.term >= gc.term}
    /\ gc' = [gc EXCEPT !.pc = "claims", !.term = 0]
    /\ UNCHANGED <<conf, now, used, held, claim, next, until, pc, flight, countVars, tables,
                   job, known, serial, passes, gcs>>
GcClaims ==
    /\ gc.pc = "claims"
    /\ claims' = {c \in claims : c.version > gc.published}
    /\ gc' = [gc EXCEPT !.pc = "idle", !.published = 0]
    /\ UNCHANGED <<gcOthers, gcs, manifest>>

GarbageCollect == GcBegin \/ GcFirst \/ GcSecond \/ GcManifest \/ GcLeases \/ GcClaims

LeaseStep(w) == Acquire(w) \/ ClaimReadBack(w) \/ Release(w)
PassStep(w) ==
    \/ Commit(w) \/ AllocateRead(w) \/ AllocateInsert(w) \/ AllocateReadBack(w)
    \/ RenewForPublish(w) \/ ManifestSend(w) \/ CountChunk(w)
    \/ WatermarkSend(w) \/ Published(w) \/ ReadFails(w)
LeaseServer(s) == ClaimLands(s) \/ ReleaseLands(s)
PublishServer(s) ==
    Start(s) \/ ManifestLands(s) \/ WatermarkLands(s) \/ InventoryLands(s) \/ Capped(s)

(* A crashed writer starts with no version remembered.                      *)
CrashWriter(w) ==
    /\ Crash(w)
    /\ job' = [job EXCEPT ![w] = NoJob] /\ known' = [known EXCEPT ![w] = Unread]
    /\ UNCHANGED <<tables, serial, passes, gcs, gc>>

Next ==
    \/ \E w \in conf.writers : \/ (LeaseStep(w) \/ GiveUp(w)) /\ OnlyLease
                               \/ PassStep(w) \/ CrashWriter(w)
    \/ \E s \in flight : (LeaseServer(s) /\ OnlyLease) \/ PublishServer(s)
    \/ GarbageCollect
    \/ Tick /\ OnlyLease

Spec == Init /\ [][Next]_vars

---------------------------------------------------------------------------
(* One publisher at a time: of the statements that passed their fence, at   *)
(* most one is still running, whichever writers stalled, gave up, crashed   *)
(* or had their leases taken over meanwhile.                                *)
OneFencedStatement == \A s, t \in Running : s = t

(* The snapshot a reader gets at a version.                                  *)
Admitted(v) == {m.pack : m \in {x \in manifest :
                  x.version = v /\ [version |-> v, pub |-> x.pub] \in watermark}}
Visible(v) == UNION {Admitted(u) : u \in 1 .. v}

(* "Publish before the inventory, never after" (catalog.py): a pack the    *)
(* replay guard will skip from now on is in the published snapshot and has  *)
(* its descriptors.                                                         *)
CommittedVisible == inventory \subseteq Visible(PublishedHead) \cap described
=============================================================================
