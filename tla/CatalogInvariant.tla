-------------------------- MODULE CatalogInvariant --------------------------
(***************************************************************************)
(* The inductive invariant behind CommittedVisible: why a pack the          *)
(* inventory lists can always be read, although manifest rows land late,    *)
(* publishes lose their race and the garbage collector deletes manifests.   *)
(***************************************************************************)
EXTENDS CatalogPublish, LeaseInvariant

(* What the collector took for the head of the leases is not above it.      *)
GcInv ==
    /\ gc \in [pc : {gc.pc}, published : {gc.published}, term : Nat, orphans : {gc.orphans},
               at : {gc.at}]
    /\ gc.term <= HeadTerm

Job == [packs : SUBSET Packs, todo : SUBSET Packs, chunk : SUBSET Packs, version : Nat,
        uid : Nat, tries : Nat, published : Nat]

(* The version allocator draws numbers, and the highest exists.             *)
IsTop(table, n) ==
    /\ n \in Nat /\ \A r \in table : r.version <= n
    /\ n = 0 \/ \E r \in table : r.version = n
AllocatorInv ==
    claims \subseteq [version : Nat, uid : Nat] /\ IsTop(claims, MaxVersion(claims))
JobInv == job \in [Writers -> Job] /\ serial \in Nat

(* A pass has described its packs when it has its version.                  *)
Allocating == {"allocate", "insert", "owner"}
DescribedInv == \A w \in Writers : pc[w] \in Allocating \/ job[w].packs \subseteq described

TableInv ==
    /\ watermark \subseteq [version : Nat \ {0}, pub : Nat]
    /\ manifest \subseteq [version : Nat, pub : Nat, pack : Packs]
    /\ \A s \in flight : s.version \in Nat /\ s.pub \in Nat /\ s.packs \subseteq Packs
    /\ IsTop(watermark, PublishedHead)

(* A version is published once, and above every other: the barrier of a     *)
(* running watermark still holds, because nothing else runs.                *)
WatermarkInv ==
    /\ \A s \in Running : s.kind = "watermark" => s.version > PublishedHead
    /\ \A r, q \in watermark : r.version = q.version => r = q

(* What the collector is about to delete will never be published.           *)
OrphanInv ==
    /\ gc.published \in Nat /\ gc.published <= PublishedHead
    /\ gc.orphans # {} => gc.pc \in {"second", "manifest"}
    /\ \A o \in gc.orphans : o \notin watermark /\ o.version < gc.published

(* A pack on its way to the inventory, or there, is described and readable. *)
Stands(version, pub) == [version |-> version, pub |-> pub] \in watermark
Readable(s) ==
    /\ s.packs \subseteq described /\ Stands(s.version, s.pub)
    /\ \A p \in s.packs : [version |-> s.version, pub |-> s.pub, pack |-> p] \in manifest
InventoryInv ==
    /\ \A s \in flight : s.kind = "inventory" => Readable(s)
    /\ \A p \in inventory :
          p \in described /\ \E m \in manifest : m.pack = p /\ Stands(m.version, m.pub)

CatalogInv ==
    /\ AllocatorInv /\ JobInv /\ DescribedInv /\ TableInv /\ WatermarkInv /\ OrphanInv /\ InventoryInv

(* A statement in flight was there before, up to its listener and, if the    *)
(* barrier let it through, its end; or it is new and has not started.        *)
Carried(s) ==
    \/ \E t \in flight : /\ s.kind = t.kind /\ s.version = t.version /\ s.pub = t.pub
                         /\ s.packs = t.packs
                         /\ s.ends = t.ends \/ (s.kind = "watermark" => PublishedHead < s.version)
    \/ /\ s.version \in Nat /\ s.pub \in Nat /\ s.packs \subseteq Packs /\ s.ends = 0
       /\ s.kind = "inventory" => Readable(s)

---------------------------------------------------------------------------
(* Behind ImplementsSnapshotLog: a publish id belongs to one pass, so that  *)
(* no manifest row is still on its way when its watermark row lands.        *)

(* The pass goes on to its manifest and its watermark.                      *)
Unpublished == {"insert", "owner", "renew", "manifest", "watermark", "count"}
GoesOnTo(w) == pc[w] \in Unpublished \/ next[w] # "ready"
Fresh(w) == job[w].uid # 0 /\ \A r \in watermark : r.pub # job[w].uid

(* Publish ids are drawn once; a pass that needs its id has one, which is   *)
(* in no watermark row yet.                                                 *)
UidInv ==
    /\ \A w \in Writers : job[w].uid <= serial
    /\ \A v, w \in Writers : job[v].uid = job[w].uid => v = w \/ job[v].uid = 0
    /\ \A w \in Writers : next[w] # "ready" => claim[w] # NoLease
    /\ \A w \in Writers : GoesOnTo(w) => Fresh(w)
    /\ \A w \in Writers : pc[w] = "published" => job[w].uid # 0
    /\ \A r \in watermark : r.pub <= serial

(* A statement with the id of a pass is the one its writer waits for.       *)
PublishKinds == FencedKinds \cup {"inventory"}
SentPubInv ==
    \A s \in flight :
       /\ s.pub <= serial
       /\ s.kind \in PublishKinds => s.pub # 0 /\ (s.heard => job[s.by].uid = s.pub)
       /\ \A w \in Writers : s.pub = job[w].uid => s.pub = 0 \/ (s.by = w /\ s.heard)
       /\ s.kind = "manifest" => \A r \in watermark : r.pub # s.pub
       /\ s.kind = "manifest" => \A t \in flight : t.kind = "watermark" => t.pub # s.pub

PubInv == UidInv /\ SentPubInv

(* A statement of the next state: it carries no publish id, or it was there *)
(* and its writer still has its pass if it still listens, and none if not.  *)
Follows(s) ==
    \/ s.kind \notin PublishKinds /\ s.pub = 0
    \/ \E t \in flight : /\ s.kind = t.kind /\ s.pub = t.pub /\ s.by = t.by
                         /\ IF s.heard THEN t.heard /\ job'[s.by].uid = job[s.by].uid
                            ELSE ~t.heard \/ job'[s.by].uid = 0
=============================================================================
