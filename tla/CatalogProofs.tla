--------------------------- MODULE CatalogProofs ----------------------------
(***************************************************************************)
(* The properties of the catalog for any writers, packs, lease times and    *)
(* bounds: every step of CatalogPublish keeps the lease invariant, so one   *)
(* fenced statement runs at a time; it keeps the invariant of the tables,   *)
(* so the inventory lists visible packs only; and with LogProofs, the       *)
(* catalog implements SnapshotLog.                                          *)
(***************************************************************************)
EXTENDS LogProofs

(* A writer neither waiting nor reading back has no claim under way.         *)
LEMMA NoClaimUnderWay ==
    ASSUME LeaseInv, NEW w \in Writers, pc[w] \notin {"await", "readback"}
    PROVE  claim[w] = NoLease /\ claim = [claim EXCEPT ![w] = NoLease]
BY Zenon DEF LeaseInv, WriterInv, LeaseTypeOK

(* A writer that goes on with its lease and its claim as they are takes a    *)
(* local step.                                                               *)
LEMMA GoesOn ==
    ASSUME LeaseInv, NEW w \in Writers, pc[w] \notin {"await", "readback"},
           NEW x \in Steps \ ({"await", "readback"} \cup FencedKinds), Goes(w, x),
           \/ held' = held /\ (x \in Working => Holds(w))
           \/ held' = [held EXCEPT ![w] = NoLease] /\ x \notin Working,
           UNCHANGED <<conf, now, rows, used, claim, next, flight>>
    PROVE  LocalStep(w)
<1>1. claim[w] = NoLease /\ claim' = [claim EXCEPT ![w] = NoLease]
  BY NoClaimUnderWay, Zenon
<1>2. next' \in [Writers -> {"ready"} \cup FencedKinds]
  BY Zenon DEF LeaseInv, LeaseTypeOK
<1>3. pc[w] # "await" /\ pc' = [pc EXCEPT ![w] = x]
  BY Zenon DEF Goes
<1> QED BY <1>1, <1>2, <1>3, Zenon DEF LocalStep

(* The head part of claim() is a refusal or the sending of a claim.          *)
LEMMA ClaimStep ==
    ASSUME LeaseInv, NEW w \in Writers, pc[w] \notin {"await", "readback"}, NEW i \in Ids,
           IF Holds(w) THEN held[w].id = i ELSE i \notin used,
           NEW then \in {"ready"} \cup FencedKinds, Claim(w, i, then),
           used' = IF flight' = flight THEN used ELSE used \cup {i},
           UNCHANGED <<conf, now, rows>>
    PROVE  LocalStep(w) \/ SendClaim(w, i)
<1>1. PICK t \in Clock :
        IF RejectLive(i, t)
        THEN /\ held' = [held EXCEPT ![w] = NoLease] /\ Goes(w, "idle")
             /\ UNCHANGED <<claim, next, flight>>
        ELSE /\ claim' = [claim EXCEPT ![w] = [term |-> HeadTerm + 1, id |-> i]]
             /\ next' = [next EXCEPT ![w] = then]
             /\ Sends(w, LeaseStatement("claim", w, [term |-> HeadTerm + 1, id |-> i]))
             /\ UNCHANGED held
  BY Zenon DEF Claim
<1>2. CASE RejectLive(i, t)
  BY <1>1, <1>2, GoesOn, Zenon DEF Steps, Working, FencedKinds
<1>3. CASE ~RejectLive(i, t)
  <2>1. next' \in [Writers -> {"ready"} \cup FencedKinds]
    BY <1>1, <1>3, Zenon DEF LeaseInv, LeaseTypeOK
  <2>2. used' = used \cup {i}
    <3>1. CASE flight' # flight
      BY <3>1, Zenon
    <3>2. CASE flight' = flight
      <4> DEFINE c == LeaseStatement("claim", w, [term |-> HeadTerm + 1, id |-> i])
      <4>1. c \in flight /\ c.heard /\ c.by = w
        BY <1>1, <1>3, <3>2, Zenon DEF Sends, LeaseStatement, Statement
      <4>2. pc[w] = "await"
        BY <4>1, ZenonT(40) DEF LeaseInv, SentInv
      <4> QED BY <4>2, Zenon
    <3> QED BY <3>1, <3>2, Zenon
  <2> QED BY <1>1, <1>3, <2>1, <2>2, NoClaimUnderWay, Zenon DEF SendClaim, Sends, Goes
<1> QED BY <1>2, <1>3, Zenon

(* Sends of the catalog's writers are sends as the lease sees them.          *)
LEMMA OtherSent ==
    ASSUME LeaseInv, NEW w \in Writers, pc[w] \notin {"await", "readback"},
           NEW kind \in Kinds \ {"claim"}, NEW term \in Nat, NEW version, NEW pub, NEW packs,
           Sends(w, Statement(kind, w, term, held[w].id, version, pub, packs)),
           \/ kind = "release" /\ Holds(w) /\ held[w].term = term /\ pc[w] = "ready"
           \/ kind \in FencedKinds /\ pc[w] \in FencedKinds
           \/ kind = "inventory",
           UNCHANGED <<conf, now, rows, used, held, claim, next>>
    PROVE  LeaseKept
<1> DEFINE s == Statement(kind, w, term, held[w].id, version, pub, packs)
<1>1. /\ s.kind = kind /\ s.by = w /\ s.heard /\ s.ends = 0 /\ s.id = held[w].id /\ s.term = term
      /\ IsStatement(s)
  <2>1. held[w].id \in Ids \cup {-1}
    BY NoLeaseIsNone, Zenon DEF LeaseInv, LeaseTypeOK, Lease
  <2> QED BY <2>1, Zenon DEF Statement, IsStatement
<1>2. kind = "release" => held[w] = [term |-> s.term, id |-> s.id]
  BY <1>1, Zenon DEF LeaseInv, LeaseTypeOK, Lease, Holds, FencedKinds
<1>3. SendOther(w, s)
  BY <1>1, <1>2, NoClaimUnderWay, Zenon DEF SendOther, Sends, Goes
<1> QED BY <1>3, SendOtherKeeps, Zenon

(* Init establishes the invariant.                                           *)
LEMMA InitLease == Init => LeaseInv
<1> SUFFICES ASSUME Init PROVE LeaseInv
  BY Zenon
<1>1. HeadTerm = 0
  <2>1. {0} \cup {r.term : r \in rows} = {0}
    BY Zenon DEF Init, LeaseInit
  <2>2. Max({0}) = 0
    BY MaxIs
  <2> QED BY <2>1, <2>2, Zenon DEF HeadTerm
<1>2. /\ rows = {} /\ flight = {} /\ used = {} /\ now = 1 /\ conf \in Scenarios
      /\ \A w \in Writers : held[w] = NoLease /\ claim[w] = NoLease /\ pc[w] = "idle"
  BY Zenon DEF Init, LeaseInit
<1>3. Claims = {} /\ Releases = {} /\ FencedOnes = {} /\ Running = {} /\ HeadIds = {}
  BY <1>2, Zenon DEF Claims, Releases, FencedOnes, Running, HeadIds, HeadRows
<1>4. LeaseTypeOK
  BY <1>2 DEF Init, LeaseInit, LeaseTypeOK, Steps
<1>5. HeadInv /\ OneEachInv /\ ReleaseInv /\ RowInv /\ ClaimInv /\ SoleInv /\ RunInv
  BY <1>1, <1>2, <1>3, Zenon DEF HeadInv, OneEachInv, ReleaseInv, RowInv, ClaimInv, SoleInv, RunInv
<1>6. OwnerInv /\ SentInv
  BY <1>2, NoLeaseIsNone, Zenon DEF OwnerInv, SentInv, Has, Holds
<1>7. WriterInv
  BY <1>2, Zenon DEF WriterInv, Holds, Working, FencedKinds
<1> QED BY <1>4, <1>5, <1>6, <1>7, Zenon DEF LeaseInv

(* So do the collector's memory and the head it is compared with.            *)
LEMMA InitGc == Init => GcInv
BY InitLease DEF Init, GcInv, LeaseInv, HeadInv

(* The steps of a writer that move its lease or its claim.                   *)
LEMMA LeaseStepKeeps ==
    ASSUME LeaseInv, NEW w \in Writers, LeaseStep(w) \/ GiveUp(w), OnlyLease
    PROVE  LeaseKept
<1> USE DEF LeaseInv
<1>1. CASE Acquire(w)
  <2>1. PICK i \in conf.ids \ used :
          Claim(w, i, "ready") /\ used' = IF flight' = flight THEN used ELSE used \cup {i}
    BY <1>1, Zenon DEF Acquire
  <2>2. i \in Ids
    BY LeaseAssumption, Zenon DEF LeaseTypeOK
  <2>3. pc[w] = "idle" /\ ~Holds(w) /\ UNCHANGED <<conf, now, rows>>
    BY <1>1, Zenon DEF Acquire
  <2>4. LocalStep(w) \/ SendClaim(w, i)
    BY <2>1, <2>2, <2>3, ClaimStep, Zenon
  <2> QED BY <2>2, <2>4, LocalKeeps, SendClaimKeeps, Zenon
<1>2. CASE ClaimReadBack(w)
  <2>1. next' \in [Writers -> {"ready"} \cup FencedKinds]
    BY <1>2, Zenon DEF ClaimReadBack, NoClaim, LeaseTypeOK
  <2>2. CASE {r.id : r \in {x \in rows : x.term = claim[w].term}} = {claim[w].id}
    <3>1. ReadBackOk(w)
      BY <1>2, <2>1, <2>2, Zenon DEF ClaimReadBack, NoClaim, ReadBackOk, Goes
    <3> QED BY <3>1, ReadBackKeeps, Zenon
  <2>3. CASE {r.id : r \in {x \in rows : x.term = claim[w].term}} # {claim[w].id}
    <3>1. LocalStep(w)
      BY <1>2, <2>1, <2>3 DEF ClaimReadBack, NoClaim, LocalStep, Goes, Steps, Working, FencedKinds
    <3> QED BY <3>1, LocalKeeps, Zenon
  <2> QED BY <2>2, <2>3, Zenon
<1>3. CASE Release(w)
  <2>1. /\ pc[w] = "ready" /\ Holds(w)
        /\ Sends(w, Statement("release", w, held[w].term, held[w].id, 0, 0, {}))
        /\ UNCHANGED <<conf, now, rows, used, held, claim, next>>
    BY <1>3, Zenon DEF Release, LeaseStatement
  <2>2. held[w].term \in Nat
    BY <2>1, Zenon DEF LeaseTypeOK, Lease, Holds
  <2> QED BY <2>1, <2>2, OtherSent, Zenon DEF Kinds
<1>4. CASE GiveUp(w)
  <2>1. next' \in [Writers -> {"ready"} \cup FencedKinds]
    BY <1>4, Zenon DEF GiveUp, NoClaim, LeaseTypeOK
  <2>2. Abandon(w)
    BY <1>4, <2>1, Zenon DEF GiveUp, NoClaim, Quarantine, Goes, Abandon
  <2> QED BY <2>2, AbandonKeeps, Zenon
<1> QED BY <1>1, <1>2, <1>3, <1>4, Zenon DEF LeaseStep

(* The steps of an indexing pass.                                            *)
LEMMA PassStepKeeps ==
    ASSUME LeaseInv, NEW w \in Writers, PassStep(w)
    PROVE  LeaseKept
<1> USE DEF LeaseInv
<1>0. pc[w] \in Working => Holds(w) /\ held[w].id \in Ids /\ held[w].id \in used
  BY Zenon DEF WriterInv, OwnerInv, LeaseTypeOK, Lease, Holds
<1>1. CASE Commit(w)
  <2>1. LocalStep(w)
    BY <1>1, GoesOn, Zenon DEF Commit, Steps, Working, FencedKinds
  <2> QED BY <2>1, LocalKeeps, Zenon
<1>2. CASE AllocateRead(w)
  <2>1. LocalStep(w)
    BY <1>0, <1>2, GoesOn, Zenon DEF AllocateRead, Steps, Working, FencedKinds, notWriter
  <2> QED BY <2>1, LocalKeeps, Zenon
<1>3. CASE AllocateInsert(w)
  <2>1. LocalStep(w)
    BY <1>0, <1>3, GoesOn, Zenon DEF AllocateInsert, Steps, Working, FencedKinds, notWriter
  <2> QED BY <2>1, LocalKeeps, Zenon
<1>4. CASE AllocateReadBack(w)
  <2>1. /\ pc[w] = "owner" /\ (Goes(w, "allocate") \/ Goes(w, "ready") \/ Goes(w, "renew"))
        /\ UNCHANGED <<conf, now, rows, used, held, claim, next, flight>>
    BY <1>4, Zenon DEF AllocateReadBack, EndPass, notWriter
  <2>2. LocalStep(w)
    BY <1>0, <2>1, GoesOn, Zenon DEF Steps, Working, FencedKinds
  <2> QED BY <2>2, LocalKeeps, Zenon
<1>5. CASE RenewForPublish(w)
  <2>1. /\ pc[w] = "renew" /\ UNCHANGED <<conf, now, rows, used>>
        /\ Claim(w, held[w].id, IF job[w].todo # {} THEN "manifest" ELSE "watermark")
    BY <1>5, Zenon DEF RenewForPublish, Renew, OnlyLease
  <2>2. Holds(w) /\ held[w].id \in Ids /\ held[w].id \in used
    BY <1>0, <2>1, Zenon DEF Working
  <2>3. used' = IF flight' = flight THEN used ELSE used \cup {held[w].id}
    BY <2>1, <2>2, Zenon
  <2>4. LocalStep(w) \/ SendClaim(w, held[w].id)
    BY <2>1, <2>2, <2>3, ClaimStep, Zenon DEF FencedKinds
  <2> QED BY <2>2, <2>4, LocalKeeps, SendClaimKeeps, Zenon
<1>6. CASE ManifestSend(w)
  <2>1. PICK p \in job[w].todo : Sends(w, Statement("manifest", w, 0, held[w].id, job[w].version, job[w].uid, {p}))
    BY <1>6, Zenon DEF ManifestSend, Fenced
  <2>2. pc[w] = "manifest" /\ UNCHANGED <<conf, now, rows, used, held, claim, next>>
    BY <1>6, Zenon DEF ManifestSend, notWriter
  <2> QED BY <2>1, <2>2, OtherSent, Zenon DEF Kinds, FencedKinds
<1>7. CASE WatermarkSend(w)
  <2>1. /\ Sends(w, Statement("watermark", w, 0, held[w].id, job[w].version, job[w].uid, {}))
        /\ pc[w] = "watermark" /\ UNCHANGED <<conf, now, rows, used, held, claim, next>>
    BY <1>7, Zenon DEF WatermarkSend, Fenced, notWriter
  <2> QED BY <2>1, OtherSent, Zenon DEF Kinds, FencedKinds
<1>8. ASSUME pc[w] \in {"count", "published"}, (Race(w) /\ UNCHANGED held) \/ Refused(w),
             UNCHANGED <<conf, now, rows, used, claim, next, flight>>
      PROVE  LeaseKept
  <2>1. \/ (Goes(w, "allocate") \/ Goes(w, "ready")) /\ held' = held
        \/ Goes(w, "idle") /\ held' = [held EXCEPT ![w] = NoLease]
    BY <1>8, Zenon DEF Race, Refused, EndPass
  <2>2. LocalStep(w)
    BY <1>0, <1>8, <2>1, GoesOn, Zenon DEF Steps, Working, FencedKinds
  <2> QED BY <2>2, LocalKeeps, Zenon
<1>9. CASE CountChunk(w)
  <2>1. pc[w] = "count" /\ UNCHANGED <<conf, now, rows, used, claim, next, flight>>
    BY <1>9, Zenon DEF CountChunk, notWriter
  <2>2. CASE Goes(w, "renew") /\ held' = held
    <3>1. LocalStep(w)
      BY <1>0, <2>1, <2>2, GoesOn, Zenon DEF Steps, Working, FencedKinds
    <3> QED BY <3>1, LocalKeeps, Zenon
  <2>3. CASE Refused(w)
    BY <2>1, <2>3, <1>8, Zenon
  <2> QED BY <1>9, <2>2, <2>3, Zenon DEF CountChunk
<1>10. CASE Published(w)
  <2>1. pc[w] = "published" /\ UNCHANGED <<conf, now, rows, used, claim, next>>
    BY <1>10, Zenon DEF Published, notWriter
  <2>2. \/ ((Race(w) /\ UNCHANGED held) \/ Refused(w)) /\ flight' = flight
        \/ Sends(w, Fenced("inventory", w, job[w].packs)) /\ held' = held
    BY <1>10, Zenon DEF Published
  <2>3. CASE Sends(w, Statement("inventory", w, 0, held[w].id, job[w].version, job[w].uid, job[w].packs))
             /\ held' = held
    BY <2>1, <2>3, OtherSent, Zenon DEF Kinds
  <2> QED BY <2>1, <2>2, <2>3, <1>8, Zenon DEF Fenced
<1>11. CASE ReadFails(w)
  <2>1. UNCHANGED <<conf, now, rows, used, flight>> /\ pc[w] # "await"
    BY <1>11, Zenon DEF ReadFails
  <2>2. CASE Quarantine(w) /\ NoClaim(w)
    <3>1. next' \in [Writers -> {"ready"} \cup FencedKinds]
      BY <2>2, Zenon DEF NoClaim, LeaseTypeOK
    <3>2. LocalStep(w)
      <4>1. "idle" \in Steps \ ({"await", "readback"} \cup FencedKinds) /\ "idle" \notin Working
        BY Zenon DEF Steps, Working, FencedKinds
      <4>2. /\ pc' = [pc EXCEPT ![w] = "idle"] /\ held' = [held EXCEPT ![w] = NoLease]
            /\ claim' = [claim EXCEPT ![w] = NoLease]
        BY <2>2, Zenon DEF Quarantine, NoClaim, Goes
      <4> QED BY <2>1, <3>1, <4>1, <4>2, Zenon DEF LocalStep
    <3> QED BY <3>2, LocalKeeps, Zenon
  <2>3. CASE pc[w] \in {"allocate", "insert", "owner"} /\ EndPass(w) /\ UNCHANGED <<held, claim, next>>
    <3>1. LocalStep(w)
      BY <2>1, <2>3, GoesOn, Zenon DEF EndPass, Steps, Working, FencedKinds
    <3> QED BY <3>1, LocalKeeps, Zenon
  <2> QED BY <1>11, <2>2, <2>3, Zenon DEF ReadFails
<1> QED BY <1>1, <1>2, <1>3, <1>4, <1>5, <1>6, <1>7, <1>9, <1>10, <1>11, Zenon DEF PassStep

(* The steps of the server.                                                  *)
LEMMA ServerKeeps ==
    ASSUME LeaseInv, NEW s \in flight,
           (LeaseServer(s) /\ OnlyLease) \/ PublishServer(s)
    PROVE  LeaseKept
<1> USE DEF LeaseInv
<1>0. s.by \in Writers /\ s.kind \in Kinds
  BY StatementFields, Zenon
<1>1. CASE ClaimLands(s) /\ OnlyLease
  <2>1. LandClaim(s)
    BY <1>1, Zenon DEF ClaimLands, OnlyLease, LandClaim, Claims, Finish, Answers
  <2> QED BY <2>1, LandClaimKeeps, Zenon
<1>2. CASE ReleaseLands(s) /\ OnlyLease
  <2>1. LandRelease(s)
    BY <1>2, Zenon DEF ReleaseLands, OnlyLease, LandRelease, Releases, Finish, Answers
  <2> QED BY <2>1, LandReleaseKeeps, Zenon
<1>3. ASSUME s.kind \in FencedKinds, Finish(s), Answers(s, "count") \/ Answers(s, "published"),
             UNCHANGED <<conf, now, rows, used, held, claim, next>>
      PROVE  LeaseKept
  <2>1. EndStep(s)
    BY <1>3, Zenon DEF EndStep, Finish, Answers, Steps, Working, FencedKinds
  <2> QED BY <2>1, EndKeeps, Zenon
<1>4. CASE Start(s)
  <2>1. s.kind \in FencedKinds /\ s.ends = 0 /\ UNCHANGED <<conf, now, rows, used, held, claim, next>>
    BY <1>4, Zenon DEF Start, FencedKinds, notWriter
  <2>2. PICK t \in Clock :
         IF Barrier(s) /\ Fence(s.id, t)
         THEN /\ flight' = (flight \ {s}) \cup {[s EXCEPT !.ends = now + PublishTimeout]}
              /\ UNCHANGED pc
         ELSE Finish(s) /\ Answers(s, IF s.kind = "manifest" THEN "count" ELSE "published")
    BY <1>4, Zenon DEF Start
  <2>3. CASE Barrier(s) /\ Fence(s.id, t)
    <3>1. Admit(s)
      BY <2>1, <2>2, <2>3, Zenon DEF Admit, FencedOnes
    <3> QED BY <3>1, AdmitKeeps, Zenon
  <2>4. CASE ~(Barrier(s) /\ Fence(s.id, t))
    <3>1. Finish(s) /\ (Answers(s, "count") \/ Answers(s, "published"))
      BY <2>2, <2>4, Zenon
    <3> QED BY <2>1, <3>1, <1>3, Zenon
  <2> QED BY <2>3, <2>4, Zenon
<1>5. CASE ManifestLands(s) \/ WatermarkLands(s)
  BY <1>3, <1>5, Zenon DEF ManifestLands, WatermarkLands, FencedKinds, notWriter
<1>6. CASE InventoryLands(s)
  <2>1. EndStep(s)
    BY <1>6 DEF InventoryLands, EndStep, EndPass, Goes, Finish, Steps, Working, FencedKinds, notWriter
  <2> QED BY <2>1, EndKeeps, Zenon
<1>7. CASE Capped(s)
  <2>1. s.kind \in FencedKinds
    BY <1>7, Zenon DEF Capped, RunInv, Running
  <2>2. EndStep(s)
    BY <1>7, <2>1 DEF Capped, EndStep, Quarantine, Goes, Finish, Steps, Working, FencedKinds, notWriter
  <2> QED BY <2>2, EndKeeps, Zenon
<1> QED BY <1>1, <1>2, <1>4, <1>5, <1>6, <1>7, Zenon DEF LeaseServer, PublishServer

(* The steps of the garbage collector.                                       *)
LEMMA GarbageCollectKeeps ==
    ASSUME LeaseInv, GcInv, GarbageCollect
    PROVE  LeaseKept /\ GcInv'
<1>1. HeadTerm \in Nat /\ gc.term \in 0 .. HeadTerm
  BY DEF LeaseInv, HeadInv, GcInv
<1>2. UNCHANGED <<conf, now, used, held, claim, next, pc, flight>>
  BY Zenon DEF GarbageCollect, GcBegin, GcFirst, GcSecond, GcManifest, GcLeases, GcClaims, gcOthers,
         leaseSide, leaseVars
<1>3. rows' = rows \/ rows' = {r \in rows : r.term >= gc.term}
  BY Zenon DEF GarbageCollect, GcBegin, GcFirst, GcSecond, GcManifest, GcLeases, GcClaims, gcOthers,
         leaseSide, leaseVars
<1>4. gc' \in [pc : {gc'.pc}, published : {gc'.published}, term : {0, gc.term, HeadTerm},
               orphans : {gc'.orphans}, at : {gc'.at}]
  BY Zenon DEF GcInv, GarbageCollect, GcBegin, GcFirst, GcSecond, GcManifest, GcLeases, GcClaims
<1>5. CollectStep(gc.term)
  BY <1>1, <1>2, <1>3, Zenon DEF CollectStep
<1>6. LeaseKept
  BY <1>5, CollectKeeps, Zenon
<1>7. HeadTerm' \in Nat /\ HeadTerm <= HeadTerm'
  BY <1>6, Zenon DEF LeaseKept, LeaseInv, HeadInv
<1> QED BY <1>1, <1>4, <1>6, <1>7 DEF GcInv

(* Every step of the catalog preserves the invariant.                        *)
LEMMA NextLease == LeaseInv /\ GcInv /\ [Next]_vars => LeaseInv' /\ GcInv'
<1> SUFFICES ASSUME LeaseInv, GcInv, [Next]_vars PROVE LeaseInv' /\ GcInv'
  BY Zenon
<1>1. conf.writers \subseteq Writers
  BY PublishAssumption, Zenon DEF LeaseInv, LeaseTypeOK
<1>2. ASSUME LeaseKept, gc' = gc
      PROVE  LeaseInv' /\ GcInv'
  <2>1. HeadTerm \in Nat /\ HeadTerm' \in Nat /\ HeadTerm <= HeadTerm' /\ LeaseInv'
    BY <1>2, Zenon DEF LeaseKept, LeaseInv, HeadInv
  <2> QED BY <1>2, <2>1 DEF GcInv
<1>3. ASSUME NEW w \in conf.writers,
             ((LeaseStep(w) \/ GiveUp(w)) /\ OnlyLease) \/ PassStep(w) \/ CrashWriter(w)
      PROVE  LeaseKept /\ gc' = gc
  <2>1. w \in Writers
    BY <1>1, Zenon
  <2>2. CASE CrashWriter(w)
    <3>1. next' \in [Writers -> {"ready"} \cup FencedKinds]
      BY <2>2, Zenon DEF CrashWriter, Crash, NoClaim, LeaseInv, LeaseTypeOK
    <3>2. Abandon(w)
      BY <2>2, <3>1, Zenon DEF CrashWriter, Crash, NoClaim, Goes, Abandon
    <3> QED BY <2>1, <2>2, <3>2, AbandonKeeps, Zenon DEF CrashWriter
  <2>3. CASE PassStep(w)
    <3>1. gc' = gc
      BY <2>3, Zenon DEF PassStep, Commit, AllocateRead, AllocateInsert, AllocateReadBack, RenewForPublish,
                  ManifestSend, CountChunk, WatermarkSend, Published, ReadFails, OnlyLease, notWriter
    <3> QED BY <3>1, <2>1, <2>3, PassStepKeeps, SMTT(20)
  <2>4. CASE (LeaseStep(w) \/ GiveUp(w)) /\ OnlyLease
    BY <2>1, <2>4, LeaseStepKeeps, Zenon DEF OnlyLease
  <2> QED BY <1>3, <2>2, <2>3, <2>4, Zenon
<1>4. ASSUME NEW s \in flight, (LeaseServer(s) /\ OnlyLease) \/ PublishServer(s)
      PROVE  LeaseKept /\ gc' = gc
  <2>1. gc' = gc
    BY <1>4, Zenon DEF OnlyLease, PublishServer, Start, ManifestLands, WatermarkLands, InventoryLands, Capped,
                notWriter
  <2> QED BY <1>4, <2>1, ServerKeeps, Zenon
<1>5. CASE Tick /\ OnlyLease
  <2>1. TimeStep
    BY <1>5, Zenon DEF Tick, OnlyLease, TimeStep, leaseVars
  <2> QED BY <1>2, <1>5, <2>1, TimeKeeps, Zenon DEF OnlyLease
<1>6. CASE UNCHANGED vars
  <2>1. 0 \in 0 .. HeadTerm
    BY DEF LeaseInv, HeadInv
  <2>2. CollectStep(0) /\ gc' = gc
    BY <1>6, <2>1, Zenon DEF vars, leaseVars, CollectStep
  <2> QED BY <1>2, <2>2, CollectKeeps, Zenon
<1>7. CASE GarbageCollect
  BY <1>7, GarbageCollectKeeps, Zenon DEF LeaseKept
<1> QED BY <1>2, <1>3, <1>4, <1>5, <1>6, <1>7, Zenon DEF Next

(* The running statements are all the established claimant's: there is one.  *)
LEMMA OneRuns ==
    ASSUME LeaseInv, NEW s \in Running, NEW t \in Running
    PROVE  s = t
<1>1. s \in FencedOnes /\ t \in FencedOnes /\ s.id \in HeadIds /\ t.id \in HeadIds
  BY Zenon DEF LeaseInv, RunInv, Running, FencedOnes
<1>2. s.id = t.id
  BY <1>1, Zenon DEF LeaseInv, SoleInv, Established
<1> QED BY <1>1, <1>2, Zenon DEF LeaseInv, OneEachInv

(* The lease protocol keeps its invariant: claims that land late, give-ups,  *)
(* crashes and skewed clocks included.                                       *)
THEOREM LeaseHolds == Spec => []LeaseInv
<1>1. Init => LeaseInv /\ GcInv
  BY InitLease, InitGc, Zenon
<1>2. LeaseInv /\ GcInv /\ [Next]_vars => LeaseInv' /\ GcInv'
  BY NextLease, Zenon
<1> QED BY <1>1, <1>2, PTL DEF Spec

(* At no time do two fenced publish statements run, for any writers, TTL,    *)
(* statement limit and clock skew (fence() in clickhouse_lease.py).          *)
THEOREM OnePublisher == Spec => []OneFencedStatement
<1>1. LeaseInv => OneFencedStatement
  BY OneRuns, Zenon DEF OneFencedStatement
<1> QED BY <1>1, LeaseHolds, PTL

-----------------------------------------------------------------------------
(* The highest version of a table is the one above all others.               *)
LEMMA TopIs ==
    ASSUME NEW T, \A r \in T : r.version \in Nat, NEW n \in Nat, IsTop(T, n)
    PROVE  MaxVersion(T) = n
<1> DEFINE S == {0} \cup {r.version : r \in T}
<1>1. S \in SUBSET Int /\ n \in S /\ \A x \in S : x <= n
  BY DEF IsTop
<1>2. Max(S) = n
  BY <1>1, MaxIs, Zenon
<1> QED BY <1>2, Zenon DEF MaxVersion

(* A row more: its version is the highest, or what was.                      *)
LEMMA TopOfMore ==
    ASSUME NEW T, \A q \in T : q.version \in Nat, IsTop(T, MaxVersion(T)),
           NEW r, r.version \in Nat
    PROVE  /\ IsTop(T \cup {r}, MaxVersion(T \cup {r}))
           /\ r.version <= MaxVersion(T) => MaxVersion(T \cup {r}) = MaxVersion(T)
           /\ r.version > MaxVersion(T) => MaxVersion(T \cup {r}) = r.version
<1> DEFINE n == IF r.version > MaxVersion(T) THEN r.version ELSE MaxVersion(T)
<1>1. n \in Nat /\ IsTop(T \cup {r}, n)
  BY DEF IsTop
<1>2. MaxVersion(T \cup {r}) = n
  BY <1>1, TopIs, Zenon
<1>3. MaxVersion(T) \in Nat
  BY Zenon DEF IsTop
<1>4. IsTop(T \cup {r}, MaxVersion(T \cup {r}))
  BY <1>1, <1>2, Zenon
<1> QED BY <1>2, <1>3, <1>4

(* A table without its rows up to a version keeps its highest, or is empty.  *)
LEMMA TopOfRest ==
    ASSUME NEW T, \A q \in T : q.version \in Nat, IsTop(T, MaxVersion(T)), NEW k \in Nat
    PROVE  IsTop({r \in T : r.version > k}, MaxVersion({r \in T : r.version > k}))
<1> DEFINE R == {r \in T : r.version > k}
           n == IF MaxVersion(T) > k THEN MaxVersion(T) ELSE 0
<1>1. n \in Nat /\ IsTop(R, n)
  BY DEF IsTop
<1>2. MaxVersion(R) = n
  BY <1>1, TopIs, Zenon
<1> QED BY <1>1, <1>2, Zenon

(* The allocator's number is a number.                                       *)
LEMMA NextVersion ==
    ASSUME NEW a \in Nat, NEW b \in Nat
    PROVE  Max({a, b}) \in Nat
<1>1. CASE a <= b
  <2>1. Max({a, b}) = b
    BY <1>1, MaxIs
  <2> QED BY <2>1, Zenon
<1>2. CASE b <= a
  <2>1. Max({a, b}) = a
    BY <1>2, MaxIs
  <2> QED BY <2>1, Zenon
<1> QED BY <1>1, <1>2

---------------------------------------------------------------------------
(* A writer's own step keeps what is known of the passes: the pass it goes   *)
(* on with is allocating its version, or has described its packs.            *)
LEMMA JobSet ==
    ASSUME LeaseTypeOK, JobInv, DescribedInv, NEW w \in Writers, NEW j \in Job,
           job' = [job EXCEPT ![w] = j], NEW x, Goes(w, x), serial' \in Nat,
           described \subseteq described', x \in Allocating \/ j.packs \subseteq described'
    PROVE  JobInv' /\ DescribedInv'
<1>1. JobInv'
  BY Zenon DEF JobInv
<1>2. ASSUME NEW v \in Writers
      PROVE  pc'[v] \in Allocating \/ job'[v].packs \subseteq described'
  <2>1. CASE v = w
    BY <2>1, Zenon DEF JobInv, LeaseTypeOK, Goes
  <2>2. CASE v # w
    <3>1. job'[v] = job[v] /\ pc'[v] = pc[v]
      BY <2>2, Zenon DEF JobInv, LeaseTypeOK, Goes
    <3> QED BY <3>1, Zenon DEF DescribedInv
  <2> QED BY <2>1, <2>2, Zenon
<1> QED BY <1>1, <1>2, Zenon DEF DescribedInv

(* A pass that is over has no packs.                                         *)
LEMMA NoJobIsJob == NoJob \in Job /\ NoJob.packs = {}
BY Zenon DEF NoJob, Job

(* So does a writer that goes on with its job as it is.                      *)
LEMMA JobStays ==
    ASSUME LeaseTypeOK, JobInv, DescribedInv, NEW w \in Writers,
           job' = job, NEW x, Goes(w, x), serial' \in Nat, described \subseteq described',
           x \in Allocating \/ pc[w] \notin Allocating
    PROVE  JobInv' /\ DescribedInv'
<1>1. job[w] \in Job /\ job' = [job EXCEPT ![w] = job[w]]
  BY Zenon DEF JobInv
<1>2. x \in Allocating \/ job[w].packs \subseteq described'
  BY Zenon DEF DescribedInv
<1> QED BY <1>1, <1>2, JobSet, Zenon

(* A lease step ends the pass or leaves it where it was.                     *)
LEMMA JobLeased ==
    ASSUME JobInv, DescribedInv, OnlyLease,
           \A v \in Writers : pc'[v] = pc[v] \/ pc[v] \notin Allocating
    PROVE  JobInv' /\ DescribedInv'
<1>1. JobInv'
  BY NoJobIsJob, Zenon DEF JobInv, OnlyLease
<1>2. ASSUME NEW v \in Writers
      PROVE  pc'[v] \in Allocating \/ job'[v].packs \subseteq described'
  BY NoJobIsJob, Zenon DEF OnlyLease, DescribedInv, JobInv, tables
<1> QED BY <1>1, <1>2, Zenon DEF DescribedInv

---------------------------------------------------------------------------
(* While nothing is published or collected, what is said of the tables       *)
(* stays true: the manifest and the descriptors only grow.                   *)
LEMMA QuietTables ==
    ASSUME TableInv, WatermarkInv, OrphanInv, InventoryInv,
           UNCHANGED <<watermark, inventory, gc>>, described \subseteq described',
           manifest \subseteq manifest',
           manifest' \subseteq [version : Nat, pub : Nat, pack : Packs],
           \A s \in flight' : Carried(s)
    PROVE  TableInv' /\ WatermarkInv' /\ OrphanInv' /\ InventoryInv'
<1>1. PublishedHead' = PublishedHead
  BY Zenon DEF PublishedHead, MaxVersion
<1>2. ASSUME NEW s \in flight'
      PROVE  /\ s.version \in Nat /\ s.pub \in Nat /\ s.packs \subseteq Packs
             /\ s.ends # 0 /\ s.kind = "watermark" => s.version > PublishedHead
             /\ s.kind = "inventory" => Readable(s)
  <2>1. PublishedHead \in Nat
    BY Zenon DEF TableInv, IsTop
  <2>2. CASE \E t \in flight : /\ s.kind = t.kind /\ s.version = t.version /\ s.pub = t.pub
                               /\ s.packs = t.packs
                               /\ s.ends = t.ends \/ (s.kind = "watermark" => PublishedHead < s.version)
    <3>1. PICK t \in flight : /\ s.kind = t.kind /\ s.version = t.version /\ s.pub = t.pub
                              /\ s.packs = t.packs
                              /\ s.ends = t.ends \/ (s.kind = "watermark" => PublishedHead < s.version)
      BY <2>2, Zenon
    <3>2. t.version \in Nat /\ t.pub \in Nat /\ t.packs \subseteq Packs
      BY Zenon DEF TableInv
    <3>3. t.ends # 0 /\ t.kind = "watermark" => t.version > PublishedHead
      BY Zenon DEF WatermarkInv, Running
    <3>4. t.kind = "inventory" => Readable(t)
      BY Zenon DEF InventoryInv
    <3>5. s.kind = "inventory" => Readable(s)
      BY <3>1, <3>4, Zenon DEF Readable, Stands
    <3> QED BY <2>1, <3>1, <3>2, <3>3, <3>5, Zenon
  <2>3. CASE /\ s.version \in Nat /\ s.pub \in Nat /\ s.packs \subseteq Packs /\ s.ends = 0
             /\ s.kind = "inventory" => Readable(s)
    BY <2>3, Zenon
  <2> QED BY <1>2, <2>2, <2>3, Zenon DEF Carried
<1>3. TableInv'
  BY <1>1, <1>2, Zenon DEF TableInv, IsTop
<1>4. WatermarkInv'
  BY <1>1, <1>2, Zenon DEF WatermarkInv, Running
<1>5. OrphanInv'
  BY <1>1, Zenon DEF OrphanInv
<1>6. ASSUME NEW s \in flight', s.kind = "inventory"
      PROVE  Readable(s)'
  BY <1>2, <1>6, Zenon DEF Readable, Stands
<1>7. ASSUME NEW p \in inventory'
      PROVE  p \in described' /\ \E m \in manifest' : m.pack = p /\ Stands(m.version, m.pub)'
  BY SMTT(20) DEF InventoryInv, Stands
<1>8. InventoryInv'
  BY <1>6, <1>7 DEF InventoryInv, Readable
<1> QED BY <1>3, <1>4, <1>5, <1>8, Zenon

(* The watermark row lands above the head, the only row of its version, and  *)
(* above whatever is collected; no other publish runs that it could overtake. *)
LEMMA WatermarkKeeps ==
    ASSUME LeaseInv, TableInv, WatermarkInv, OrphanInv, InventoryInv, NEW s \in flight,
           WatermarkLands(s)
    PROVE  TableInv' /\ WatermarkInv' /\ OrphanInv' /\ InventoryInv'
<1> DEFINE r == [version |-> s.version, pub |-> s.pub]
<1>1. /\ s \in Running /\ flight' = flight \ {s} /\ watermark' = watermark \cup {r}
      /\ UNCHANGED <<manifest, described, inventory, gc>>
  BY Zenon DEF WatermarkLands, Running, Finish, notWriter
<1>2. PublishedHead \in Nat /\ s.version \in Nat /\ s.pub \in Nat /\ PublishedHead < s.version
  BY <1>1, Zenon DEF TableInv, IsTop, WatermarkInv, WatermarkLands
<1>3. \A q \in watermark : q.version \in Nat
  BY Zenon DEF TableInv
<1>4. IsTop(watermark', PublishedHead') /\ PublishedHead' = s.version
  <2>1. IsTop(watermark, MaxVersion(watermark)) /\ r.version \in Nat /\ r.version = s.version
    BY <1>2, Zenon DEF TableInv, PublishedHead
  <2> HIDE DEF r
  <2>2. /\ IsTop(watermark \cup {r}, MaxVersion(watermark \cup {r}))
        /\ r.version > MaxVersion(watermark) => MaxVersion(watermark \cup {r}) = r.version
    BY <1>3, <2>1, TopOfMore, Zenon
  <2>3. PublishedHead' = MaxVersion(watermark \cup {r})
    BY <1>1, Zenon DEF PublishedHead, MaxVersion
  <2> QED BY <1>1, <1>2, <2>1, <2>2, <2>3, Zenon DEF PublishedHead
<1>5. Running' = {}
  BY <1>1, OneRuns, Zenon DEF Running
<1>6. TableInv'
  BY <1>1, <1>2, <1>4 DEF TableInv
<1>7. WatermarkInv'
  <2>1. \A q \in watermark : q.version < s.version
    BY <1>2, <1>3 DEF TableInv, IsTop
  <2> QED BY <1>1, <1>2, <1>5, <2>1 DEF WatermarkInv
<1>8. OrphanInv'
  BY <1>1, <1>2, <1>4, SMTT(20) DEF OrphanInv
<1>9. InventoryInv'
  BY <1>1, Zenon DEF InventoryInv, Readable, Stands
<1> QED BY <1>6, <1>7, <1>8, <1>9, Zenon

(* The inventory takes over the packs of a statement that was readable.      *)
LEMMA InventoryKeeps ==
    ASSUME TableInv, WatermarkInv, OrphanInv, InventoryInv, NEW s \in flight, InventoryLands(s)
    PROVE  TableInv' /\ WatermarkInv' /\ OrphanInv' /\ InventoryInv'
<1>1. /\ flight' = flight \ {s} /\ inventory' = inventory \cup s.packs /\ s.kind = "inventory"
      /\ UNCHANGED <<manifest, watermark, described, gc>>
  BY Zenon DEF InventoryLands, Finish, notWriter
<1>2. PublishedHead' = PublishedHead
  BY <1>1, Zenon DEF PublishedHead, MaxVersion
<1>3. TableInv' /\ WatermarkInv' /\ OrphanInv'
  BY <1>1, <1>2, Zenon DEF TableInv, WatermarkInv, OrphanInv, Running, IsTop
<1>4. Readable(s)
  BY <1>1, Zenon DEF InventoryInv
<1>5. ASSUME NEW p \in s.packs
      PROVE  p \in described /\ \E m \in manifest : m.pack = p /\ Stands(m.version, m.pub)
  <2> DEFINE m == [version |-> s.version, pub |-> s.pub, pack |-> p]
  <2>1. m \in manifest /\ m.pack = p /\ Stands(m.version, m.pub) /\ p \in described
    BY <1>4, Zenon DEF Readable
  <2> QED BY <2>1, Zenon
<1>6. InventoryInv'
  BY <1>1, <1>5, Zenon DEF InventoryInv, Readable, Stands
<1> QED BY <1>3, <1>6, Zenon

(* The collector deletes what no watermark stands for, and never will.       *)
LEMMA CollectorKeeps ==
    ASSUME LeaseInv, GcInv, CatalogInv, GarbageCollect
    PROVE  CatalogInv'
<1> USE DEF CatalogInv
<1>1. UNCHANGED <<pc, flight, described, inventory, watermark, job, serial>>
  BY Zenon DEF GarbageCollect, GcBegin, GcFirst, GcSecond, GcManifest, GcLeases, GcClaims, gcOthers,
         leaseSide, leaseVars, tables
<1>2. PublishedHead' = PublishedHead /\ PublishedHead \in Nat
  BY <1>1, Zenon DEF PublishedHead, MaxVersion, TableInv, IsTop
<1>3. JobInv' /\ DescribedInv'
  BY <1>1, Zenon DEF JobInv, DescribedInv
<1>4. AllocatorInv'
  <2>1. CASE claims' = claims
    BY <2>1, Zenon DEF AllocatorInv, IsTop, MaxVersion
  <2>2. CASE claims' = {c \in claims : c.version > gc.published}
    <3>1. gc.published \in Nat /\ \A c \in claims : c.version \in Nat
      BY Zenon DEF OrphanInv, AllocatorInv
    <3>2. IsTop(claims', MaxVersion({c \in claims : c.version > gc.published}))
      BY <2>2, <3>1, TopOfRest, Zenon DEF AllocatorInv
    <3>3. MaxVersion(claims)' = MaxVersion({c \in claims : c.version > gc.published})
      BY <2>2, Zenon DEF MaxVersion
    <3> QED BY <2>2, <3>2, <3>3, Zenon DEF AllocatorInv, IsTop
  <2> QED BY <2>1, <2>2, Zenon DEF GarbageCollect, GcBegin, GcFirst, GcSecond, GcManifest, GcLeases, GcClaims,
                            gcOthers, leaseSide, leaseVars, tables
<1>5. /\ manifest' \subseteq manifest
      /\ \A m \in manifest : [version |-> m.version, pub |-> m.pub] \notin gc.orphans => m \in manifest'
  BY Zenon DEF GarbageCollect, GcBegin, GcFirst, GcSecond, GcManifest, GcLeases, GcClaims, tables
<1>6. TableInv' /\ WatermarkInv'
  BY <1>1, <1>2, <1>5, SMTT(20) DEF TableInv, WatermarkInv, Running, IsTop
<1>7. InventoryInv'
  <2>1. \A m \in manifest : Stands(m.version, m.pub) => m \in manifest'
    BY <1>5, Zenon DEF OrphanInv, Stands
  <2>2. ASSUME NEW s \in flight, s.kind = "inventory"
        PROVE  Readable(s)'
    <3>1. Readable(s)
      BY <2>2, Zenon DEF InventoryInv
    <3>2. ASSUME NEW p \in s.packs
          PROVE  [version |-> s.version, pub |-> s.pub, pack |-> p] \in manifest'
      BY <2>1, <3>1, Zenon DEF Readable
    <3> QED BY <1>1, <3>1, <3>2, Zenon DEF Readable, Stands
  <2>3. ASSUME NEW p \in inventory
        PROVE  p \in described /\ \E m \in manifest' : m.pack = p /\ Stands(m.version, m.pub)
    BY <2>1, Zenon DEF InventoryInv
  <2>4. \A m \in manifest' : Stands(m.version, m.pub)' = Stands(m.version, m.pub)
    BY <1>1, Zenon DEF Stands
  <2> QED BY <1>1, <2>2, <2>3, <2>4, SMTT(20) DEF InventoryInv, Stands, Readable
<1>8. OrphanInv'
  <2>1. /\ gc.published \in Nat /\ gc.published <= PublishedHead
        /\ gc.orphans # {} => gc.pc \in {"second", "manifest"}
        /\ \A o \in gc.orphans : o \notin watermark /\ o.version < gc.published
    BY Zenon DEF OrphanInv
  <2>2. \A o \in Orphans(gc.published) : o \notin watermark /\ o.version < gc.published
    BY DEF Orphans
  <2>3. DOMAIN gc = {"pc", "published", "term", "orphans", "at"} /\ gc = [x \in DOMAIN gc |-> gc[x]]
    BY Zenon DEF GcInv
  <2>4. CASE GcBegin
    <3>1. gc'.published = PublishedHead /\ gc'.orphans = {}
      BY <2>1, <2>3, <2>4, Zenon DEF GcBegin
    <3> QED BY <1>1, <1>2, <3>1 DEF OrphanInv
  <2>5. CASE GcFirst
    <3>1. CASE Orphans(gc.published) = {}
      <4>1. gc'.published = gc.published /\ gc'.orphans = {}
        BY <2>1, <2>3, <2>5, <3>1, Zenon DEF GcFirst
      <4> QED BY <1>1, <1>2, <2>1, <4>1, Zenon DEF OrphanInv
    <3>2. CASE Orphans(gc.published) # {}
      <4>1. /\ gc'.published = gc.published /\ gc'.orphans = Orphans(gc.published)
            /\ gc'.pc = "second"
        BY <2>3, <2>5, <3>2, Zenon DEF GcFirst
      <4> QED BY <1>1, <1>2, <2>1, <2>2, <4>1, Zenon DEF OrphanInv
    <3> QED BY <3>1, <3>2, Zenon
  <2>6. CASE GcSecond
    <3>1. /\ gc'.published = gc.published /\ gc'.orphans = gc.orphans \cap Orphans(gc.published)
          /\ gc'.pc = "manifest"
      BY <2>3, <2>6, Zenon DEF GcSecond
    <3> QED BY <1>1, <1>2, <2>1, <3>1, Zenon DEF OrphanInv
  <2>7. CASE GcManifest
    <3>1. gc'.published = gc.published /\ gc'.orphans = {}
      BY <2>3, <2>7, Zenon DEF GcManifest
    <3> QED BY <1>1, <1>2, <2>1, <3>1, Zenon DEF OrphanInv
  <2>8. CASE GcLeases
    <3>1. gc'.published = gc.published /\ gc'.orphans = {}
      BY <2>1, <2>3, <2>8, Zenon DEF GcLeases
    <3> QED BY <1>1, <1>2, <2>1, <3>1, Zenon DEF OrphanInv
  <2>9. CASE GcClaims
    <3>1. gc'.published = 0 /\ gc'.orphans = {}
      BY <2>1, <2>3, <2>9, Zenon DEF GcClaims
    <3> QED BY <1>1, <1>2, <3>1 DEF OrphanInv
  <2> QED BY <2>4, <2>5, <2>6, <2>7, <2>8, <2>9, Zenon DEF GarbageCollect
<1> QED BY <1>3, <1>4, <1>6, <1>7, <1>8, Zenon

---------------------------------------------------------------------------
(* What was in flight is carried on.                                         *)
LEMMA StillCarried ==
    ASSUME flight' \subseteq flight
    PROVE  \A s \in flight' : Carried(s)
BY Zenon DEF Carried

(* It is also when a writer stops listening.                                 *)
LEMMA UnheardCarried ==
    ASSUME LeaseTypeOK, NEW w, flight' = Unheard(w)
    PROVE  \A s \in flight' : Carried(s)
<1> SUFFICES ASSUME NEW s \in flight'
             PROVE  Carried(s)
  BY Zenon
<1>1. PICK t \in flight : s = IF t.by = w THEN [t EXCEPT !.heard = FALSE] ELSE t
  BY Zenon DEF Unheard
<1>2. IsStatement(t)
  BY Zenon DEF LeaseTypeOK
<1>3. /\ s.kind = t.kind /\ s.version = t.version /\ s.pub = t.pub /\ s.packs = t.packs
      /\ s.ends = t.ends
  BY <1>1, <1>2, Zenon DEF IsStatement
<1> QED BY <1>3, Zenon DEF Carried

(* A new statement has not started.                                          *)
LEMMA SentCarried ==
    ASSUME NEW kind, NEW w, NEW term, NEW id, NEW version \in Nat, NEW pub \in Nat,
           NEW packs \in SUBSET Packs,
           Sends(w, Statement(kind, w, term, id, version, pub, packs)),
           kind = "inventory" => Readable(Statement(kind, w, term, id, version, pub, packs))
    PROVE  \A s \in flight' : Carried(s)
<1> DEFINE n == Statement(kind, w, term, id, version, pub, packs)
<1>1. /\ n.kind = kind /\ n.version = version /\ n.pub = pub /\ n.packs = packs /\ n.ends = 0
      /\ flight' = flight \cup {n}
  BY Zenon DEF Statement, Sends
<1>2. Carried(n)
  BY <1>1, Zenon DEF Carried
<1>3. \A s \in flight : Carried(s)
  BY Zenon DEF Carried
<1> QED BY <1>1, <1>2, <1>3, Zenon

(* claim() sends at most its claim.                                          *)
LEMMA ClaimCarried ==
    ASSUME NEW w, NEW i, NEW then, Claim(w, i, then)
    PROVE  \A s \in flight' : Carried(s)
<1>1. CASE flight' = flight
  BY <1>1, StillCarried, Zenon
<1>2. CASE Sends(w, LeaseStatement("claim", w, [term |-> HeadTerm + 1, id |-> i]))
  BY <1>2, SentCarried DEF LeaseStatement
<1> QED BY <1>1, <1>2, Zenon DEF Claim

(* A step that neither publishes nor collects.                               *)
LEMMA Quiet ==
    ASSUME CatalogInv, UNCHANGED <<manifest, watermark, inventory, gc>>,
           described \subseteq described', \A s \in flight' : Carried(s),
           claims' = claims \/ AllocatorInv', JobInv' /\ DescribedInv'
    PROVE  CatalogInv'
<1>1. AllocatorInv'
  BY Zenon DEF CatalogInv, AllocatorInv, IsTop, MaxVersion
<1>2. manifest' \subseteq [version : Nat, pub : Nat, pack : Packs]
  BY Zenon DEF CatalogInv, TableInv
<1>3. TableInv' /\ WatermarkInv' /\ OrphanInv' /\ InventoryInv'
  BY <1>2, QuietTables, Zenon DEF CatalogInv
<1> QED BY <1>1, <1>3, Zenon DEF CatalogInv

(* A step of the lease alone.                                                *)
LEMMA LeaseOnly ==
    ASSUME CatalogInv, OnlyLease, \A s \in flight' : Carried(s),
           \A v \in Writers : pc'[v] = pc[v] \/ pc[v] \notin Allocating
    PROVE  CatalogInv'
<1>1. UNCHANGED <<manifest, watermark, inventory, gc, described, claims>>
  BY Zenon DEF OnlyLease, tables
<1>2. JobInv' /\ DescribedInv'
  BY JobLeased, Zenon DEF CatalogInv
<1> QED BY <1>1, <1>2, Quiet, Zenon

(* The lease steps of a writer.                                              *)
LEMMA LeaseStepCatalog ==
    ASSUME LeaseInv, CatalogInv, NEW w \in Writers, LeaseStep(w) \/ GiveUp(w), OnlyLease
    PROVE  CatalogInv'
<1>1. LeaseTypeOK
  BY Zenon DEF LeaseInv
<1>2. \A s \in flight' : Carried(s)
  <2>1. CASE Acquire(w)
    BY <2>1, ClaimCarried, Zenon DEF Acquire
  <2>2. CASE ClaimReadBack(w)
    BY <2>2, StillCarried, Zenon DEF ClaimReadBack
  <2>3. CASE Release(w)
    BY <2>3, SentCarried DEF Release, LeaseStatement
  <2>4. CASE GiveUp(w)
    BY <1>1, <2>4, UnheardCarried, Zenon DEF GiveUp
  <2> QED BY <2>1, <2>2, <2>3, <2>4, Zenon DEF LeaseStep
<1>3. pc[w] \notin Allocating /\ \A v \in Writers \ {w} : pc'[v] = pc[v]
  BY <1>1, Zenon DEF LeaseStep, Acquire, Claim, ClaimReadBack, Release, GiveUp, Sends, Quarantine, Goes,
              LeaseTypeOK, Allocating
<1> QED BY <1>2, <1>3, LeaseOnly, Zenon

(* The steps of a pass that allocate its version.                            *)
LEMMA AllocateCatalog ==
    ASSUME LeaseInv, CatalogInv, NEW w \in Writers,
           Commit(w) \/ AllocateRead(w) \/ AllocateInsert(w) \/ AllocateReadBack(w)
    PROVE  CatalogInv'
<1> USE DEF CatalogInv
<1>0. LeaseTypeOK /\ job[w] \in Job /\ serial \in Nat
  BY Zenon DEF LeaseInv, JobInv
<1>1. CASE Commit(w)
  <2>1. PICK ps \in SUBSET (conf.packs \ inventory) :
          job' = [job EXCEPT ![w] = [NoJob EXCEPT !.packs = ps]]
    BY <1>1, Zenon DEF Commit
  <2>2. [NoJob EXCEPT !.packs = ps] \in Job
    BY <1>0, PublishAssumption, Zenon DEF LeaseTypeOK, NoJob, Job
  <2>3. Goes(w, "allocate") /\ UNCHANGED <<flight, claims, manifest, watermark, described, inventory, serial, gc>>
    BY <1>1, Zenon DEF Commit, tables
  <2>4. JobInv' /\ DescribedInv'
    BY <1>0, <2>1, <2>2, <2>3, JobSet, Zenon DEF Allocating
  <2> QED BY <2>3, <2>4, StillCarried, Quiet, Zenon
<1>2. CASE AllocateRead(w)
  <2>1. PICK spread \in IF job[w].tries = 0 THEN {0} ELSE {0, 1} :
          job' = [job EXCEPT ![w].version = Max({MaxVersion(claims), PublishedHead}) + 1 + spread,
                             ![w].uid = serial + 1]
    BY <1>2, Zenon DEF AllocateRead
  <2> DEFINE v == Max({MaxVersion(claims), PublishedHead}) + 1 + spread
             j == [job[w] EXCEPT !.version = v, !.uid = serial + 1]
  <2>2. v \in Nat
    <3>1. Max({MaxVersion(claims), PublishedHead}) \in Nat
      BY NextVersion, Zenon DEF AllocatorInv, TableInv, IsTop
    <3>2. spread \in Nat
      BY <2>1
    <3> QED BY <3>1, <3>2
  <2>3. job' = [job EXCEPT ![w] = j] /\ j \in Job
    <3>1. serial + 1 \in Nat
      BY <1>0
    <3> HIDE DEF v
    <3>2. j \in Job
      BY <1>0, <2>2, <3>1, Zenon DEF Job
    <3>3. job' = [job EXCEPT ![w] = j]
      BY <2>1, Zenon DEF JobInv, v
    <3> QED BY <3>2, <3>3, Zenon
  <2>4. /\ Goes(w, "insert") /\ serial' = serial + 1
        /\ UNCHANGED <<flight, claims, manifest, watermark, described, inventory, gc>>
    BY <1>2, Zenon DEF AllocateRead, tables, notWriter
  <2>5. JobInv' /\ DescribedInv'
    <3>1. serial' \in Nat /\ "insert" \in Allocating
      BY <1>0, <2>4 DEF Allocating
    <3> HIDE DEF j
    <3> QED BY <1>0, <2>3, <2>4, <3>1, JobSet, Zenon
  <2> QED BY <2>4, <2>5, StillCarried, Quiet, Zenon
<1>3. CASE AllocateInsert(w)
  <2> DEFINE r == [version |-> job[w].version, uid |-> job[w].uid]
  <2>1. /\ pc[w] = "insert" /\ Goes(w, "owner") /\ claims' = claims \cup {r}
        /\ UNCHANGED <<flight, manifest, watermark, described, inventory, gc, job, serial>>
    BY <1>3, Zenon DEF AllocateInsert, notWriter
  <2>2. JobInv' /\ DescribedInv'
    BY <1>0, <2>1, JobStays, Zenon DEF Allocating
  <2>3. r \in [version : Nat, uid : Nat] /\ r.version \in Nat
    BY <1>0, Zenon DEF Job
  <2>4. AllocatorInv'
    <3>1. \A q \in claims : q.version \in Nat
      BY Zenon DEF AllocatorInv
    <3> HIDE DEF r
    <3>2. IsTop(claims \cup {r}, MaxVersion(claims \cup {r}))
      BY <2>3, <3>1, TopOfMore, Zenon DEF AllocatorInv
    <3>3. MaxVersion(claims)' = MaxVersion(claims \cup {r})
      BY <2>1, Zenon DEF MaxVersion
    <3>4. claims' \subseteq [version : Nat, uid : Nat]
      BY <2>1, <2>3, Zenon DEF AllocatorInv
    <3> QED BY <2>1, <3>2, <3>3, <3>4, Zenon DEF AllocatorInv, IsTop
  <2> QED BY <2>1, <2>2, <2>4, StillCarried, Quiet, Zenon
<1>4. CASE AllocateReadBack(w)
  <2>1. /\ pc[w] = "owner" /\ described \subseteq described'
        /\ UNCHANGED <<flight, claims, manifest, watermark, inventory, gc, serial>>
    BY <1>4, Zenon DEF AllocateReadBack, notWriter
  <2>2. CASE Goes(w, "allocate") /\ job' = [job EXCEPT ![w].tries = @ + 1]
    <3> DEFINE j == [job[w] EXCEPT !.tries = @ + 1]
    <3>1. job' = [job EXCEPT ![w] = j] /\ j \in Job
      BY <1>0, <2>2 DEF Job, JobInv
    <3> HIDE DEF j
    <3> QED BY <1>0, <2>1, <2>2, <3>1, JobSet, StillCarried, Quiet, Zenon DEF Allocating
  <2>3. CASE EndPass(w)
    <3>1. Goes(w, "ready") /\ job' = [job EXCEPT ![w] = NoJob]
      BY <2>3, Zenon DEF EndPass
    <3> QED BY <1>0, <2>1, <3>1, NoJobIsJob, JobSet, StillCarried, Quiet, Zenon
  <2>4. CASE /\ job' = [job EXCEPT ![w].tries = 0, ![w].todo = job[w].packs]
             /\ described' = described \cup job[w].packs /\ Goes(w, "renew")
    <3> DEFINE j == [job[w] EXCEPT !.tries = 0, !.todo = job[w].packs]
    <3>1. job' = [job EXCEPT ![w] = j] /\ j \in Job /\ j.packs = job[w].packs
      BY <1>0, <2>4, Zenon DEF Job, JobInv
    <3> HIDE DEF j
    <3> QED BY <1>0, <2>1, <2>4, <3>1, JobSet, StillCarried, Quiet, Zenon
  <2> QED BY <1>4, <2>2, <2>3, <2>4, Zenon DEF AllocateReadBack
<1> QED BY <1>1, <1>2, <1>3, <1>4, Zenon

(* A publish that is refused, or lost its race, leaves no trace of its own.  *)
LEMMA RefusedCatalog ==
    ASSUME LeaseInv, CatalogInv, NEW w \in Writers, pc[w] \notin Allocating,
           Race(w) \/ Refused(w), UNCHANGED <<flight, tables, serial, gc>>
    PROVE  CatalogInv'
<1> USE DEF CatalogInv
<1>0. LeaseTypeOK /\ job[w] \in Job /\ serial \in Nat
  BY Zenon DEF LeaseInv, JobInv
<1>1. UNCHANGED <<claims, manifest, watermark, described, inventory>>
  BY Zenon DEF tables
<1>2. CASE Goes(w, "allocate") /\ job' = [job EXCEPT ![w].published = @ + 1]
  <2> DEFINE j == [job[w] EXCEPT !.published = @ + 1]
  <2>1. job' = [job EXCEPT ![w] = j] /\ j \in Job
    BY <1>0, <1>2 DEF Job, JobInv
  <2> HIDE DEF j
  <2> QED BY <1>0, <1>1, <1>2, <2>1, JobSet, StillCarried, Quiet, Zenon DEF Allocating
<1>3. CASE job' = [job EXCEPT ![w] = NoJob] /\ (Goes(w, "ready") \/ Goes(w, "idle"))
  BY <1>0, <1>1, <1>3, NoJobIsJob, JobSet, StillCarried, Quiet, Zenon
<1> QED BY <1>2, <1>3, Zenon DEF Race, Refused, EndPass

(* The statements of a publish, and what its writer makes of the answers.    *)
LEMMA PublishCatalog ==
    ASSUME LeaseInv, CatalogInv, NEW w \in Writers,
           RenewForPublish(w) \/ ManifestSend(w) \/ CountChunk(w) \/ WatermarkSend(w) \/ Published(w)
    PROVE  CatalogInv'
<1> USE DEF CatalogInv
<1>0. LeaseTypeOK /\ job[w] \in Job /\ serial \in Nat
  BY Zenon DEF LeaseInv, JobInv
<1>1. job[w].version \in Nat /\ job[w].uid \in Nat /\ job[w].packs \subseteq Packs /\ job[w].todo \subseteq Packs
  BY <1>0, Zenon DEF Job
<1>2. CASE RenewForPublish(w)
  <2>1. \A s \in flight' : Carried(s)
    BY <1>2, ClaimCarried, Zenon DEF RenewForPublish, Renew
  <2>2. pc[w] \notin Allocating /\ \A v \in Writers \ {w} : pc'[v] = pc[v]
    BY <1>0, <1>2, Zenon DEF RenewForPublish, Renew, Claim, Sends, Goes, LeaseTypeOK, Allocating
  <2> QED BY <1>2, <2>1, <2>2, LeaseOnly, Zenon DEF RenewForPublish
<1>3. CASE ManifestSend(w)
  <2>1. PICK p \in job[w].todo :
          /\ job' = [job EXCEPT ![w].todo = @ \ {p}, ![w].chunk = {p}]
          /\ Sends(w, Statement("manifest", w, 0, held[w].id, job[w].version, job[w].uid, {p}))
    BY <1>3, Zenon DEF ManifestSend, Fenced
  <2>2. pc[w] \notin Allocating /\ UNCHANGED <<claims, manifest, watermark, described, inventory, gc, serial>>
    BY <1>3, Zenon DEF ManifestSend, tables, notWriter, Allocating
  <2> DEFINE j == [job[w] EXCEPT !.todo = @ \ {p}, !.chunk = {p}]
  <2>3. j \in Job /\ j.packs = job[w].packs
    BY <1>0, <1>1, Zenon DEF Job
  <2>4. job' = [job EXCEPT ![w] = j]
    BY <2>1, Zenon DEF JobInv
  <2>5. job[w].packs \subseteq described
    BY <2>2, Zenon DEF DescribedInv
  <2>6. Goes(w, "await")
    BY <2>1, Zenon DEF Sends
  <2> HIDE DEF j
  <2>7. JobInv' /\ DescribedInv'
    BY <1>0, <2>2, <2>3, <2>4, <2>5, <2>6, JobSet, Zenon
  <2>8. {p} \in SUBSET Packs
    BY <1>1, Zenon
  <2>9. \A s \in flight' : Carried(s)
    BY <1>1, <2>1, <2>8, SentCarried, Zenon
  <2> QED BY <2>2, <2>7, <2>9, Quiet, Zenon
<1>4. CASE CountChunk(w)
  <2>1. pc[w] \notin Allocating /\ UNCHANGED <<flight, tables, serial, gc>>
    BY <1>4, Zenon DEF CountChunk, notWriter, Allocating
  <2>2. CASE Refused(w)
    BY <2>1, <2>2, RefusedCatalog, Zenon
  <2>3. CASE Goes(w, "renew") /\ job' = job
    <3>1. UNCHANGED <<claims, manifest, watermark, described, inventory>>
      BY <2>1, Zenon DEF tables
    <3>2. JobInv' /\ DescribedInv'
      BY <1>0, <2>1, <2>3, <3>1, JobStays, Zenon
    <3> QED BY <2>1, <3>1, <3>2, StillCarried, Quiet, Zenon
  <2> QED BY <1>4, <2>2, <2>3, Zenon DEF CountChunk
<1>5. CASE WatermarkSend(w)
  <2>1. /\ Sends(w, Statement("watermark", w, 0, held[w].id, job[w].version, job[w].uid, {}))
        /\ pc[w] \notin Allocating
        /\ UNCHANGED <<claims, manifest, watermark, described, inventory, gc, serial, job>>
    BY <1>5, Zenon DEF WatermarkSend, Fenced, tables, notWriter, Allocating
  <2>2. JobInv' /\ DescribedInv'
    BY <1>0, <2>1, JobStays, Zenon DEF Sends
  <2>3. \A s \in flight' : Carried(s)
    BY <1>1, <2>1, SentCarried
  <2> QED BY <2>1, <2>2, <2>3, Quiet, Zenon
<1>6. CASE Published(w)
  <2> DEFINE pubs == {r.pub : r \in {x \in watermark : x.version = job[w].version}}
             n == Fenced("inventory", w, job[w].packs)
  <2>1. pc[w] \notin Allocating /\ UNCHANGED <<tables, serial, gc>>
    BY <1>6, Zenon DEF Published, notWriter, Allocating
  <2>2. CASE (Race(w) \/ Refused(w)) /\ flight' = flight
    BY <2>1, <2>2, RefusedCatalog, Zenon
  <2>3. CASE job[w].uid \in pubs /\ ~(pubs = {job[w].uid} /\ Members(w) # job[w].packs) /\ Sends(w, n) /\ job' = job
    <3>1. UNCHANGED <<claims, manifest, watermark, described, inventory>>
      BY <2>1, Zenon DEF tables
    <3>2. JobInv' /\ DescribedInv'
      BY <1>0, <2>1, <2>3, <3>1, JobStays, Zenon DEF Sends
    <3>3. PICK r \in watermark : r.version = job[w].version /\ r.pub = job[w].uid
      BY <2>3, Zenon
    <3>4. r = [version |-> job[w].version, pub |-> job[w].uid]
      BY <3>3, Zenon DEF TableInv
    <3>5. \A x \in watermark : x.version = job[w].version => x = r
      BY <3>3, Zenon DEF WatermarkInv
    <3>6. Members(w) = job[w].packs
      <4>1. pubs = {job[w].uid}
        BY <3>3, <3>5, Zenon
      <4> QED BY <2>3, <4>1, Zenon
    <3>7. ASSUME NEW p \in job[w].packs
          PROVE  [version |-> job[w].version, pub |-> job[w].uid, pack |-> p] \in manifest
      <4>1. PICK m \in manifest : m.version = job[w].version /\ m.pub = job[w].uid /\ m.pack = p
        BY <3>6, Zenon DEF Members
      <4>2. m = [version |-> job[w].version, pub |-> job[w].uid, pack |-> p]
        BY <4>1, Zenon DEF TableInv
      <4> QED BY <4>2, Zenon
    <3>8. n.version = job[w].version /\ n.pub = job[w].uid /\ n.packs = job[w].packs
      BY Zenon DEF Fenced, Statement
    <3>9. job[w].packs \subseteq described
      BY <2>1, SMTT(20) DEF DescribedInv
    <3>10. Readable(n)
      BY <3>3, <3>4, <3>7, <3>8, <3>9 DEF Readable, Stands
    <3>11. \A s \in flight' : Carried(s)
      BY <1>1, <2>3, <3>10, SentCarried, Zenon DEF Fenced
    <3> QED BY <2>1, <3>1, <3>2, <3>11, Quiet, Zenon
  <2> QED BY <1>6, <2>2, <2>3, Zenon DEF Published
<1> QED BY <1>2, <1>3, <1>4, <1>5, <1>6, Zenon

(* A writer whose read fails, or that crashes, ends its pass.                *)
LEMMA CutShortCatalog ==
    ASSUME LeaseInv, CatalogInv, NEW w \in Writers, ReadFails(w) \/ CrashWriter(w)
    PROVE  CatalogInv'
<1> USE DEF CatalogInv
<1>0. LeaseTypeOK /\ serial \in Nat
  BY Zenon DEF LeaseInv, JobInv
<1>1. /\ job' = [job EXCEPT ![w] = NoJob] /\ (Goes(w, "idle") \/ Goes(w, "ready"))
      /\ UNCHANGED <<claims, manifest, watermark, described, inventory, gc, serial>>
      /\ flight' = flight \/ flight' = Unheard(w)
  BY Zenon DEF ReadFails, Quarantine, EndPass, CrashWriter, Crash, tables
<1>2. JobInv' /\ DescribedInv'
  BY <1>0, <1>1, NoJobIsJob, JobSet, Zenon
<1>3. \A s \in flight' : Carried(s)
  BY <1>0, <1>1, StillCarried, UnheardCarried, Zenon
<1> QED BY <1>1, <1>2, <1>3, Quiet, Zenon

(* The answers of the server: whoever hears one waited, and goes on with the *)
(* pass it had, or ends it.                                                  *)
LEMMA AnswerJobs ==
    ASSUME LeaseInv, JobInv, DescribedInv, NEW s \in flight, NEW x,
           UNCHANGED <<described, serial>>,
           \/ Answers(s, x) /\ job' = job
           \/ s.heard /\ Goes(s.by, x) /\ job' = [job EXCEPT ![s.by] = NoJob]
           \/ UNCHANGED <<pc, job>>
    PROVE  JobInv' /\ DescribedInv'
<1>0. LeaseTypeOK /\ serial \in Nat /\ s.by \in Writers /\ (s.heard => pc[s.by] \notin Allocating)
  BY ListenersWait, StatementFields, Zenon DEF LeaseInv, JobInv, Allocating
<1>1. CASE UNCHANGED <<pc, job>>
  BY <1>1, Zenon DEF JobInv, DescribedInv
<1>2. CASE s.heard /\ Goes(s.by, x) /\ job' = job
  BY <1>0, <1>2, JobStays, Zenon
<1>3. CASE s.heard /\ Goes(s.by, x) /\ job' = [job EXCEPT ![s.by] = NoJob]
  BY <1>0, <1>3, NoJobIsJob, JobSet, Zenon
<1> QED BY <1>1, <1>2, <1>3, Zenon DEF Answers, Goes

(* The steps of the server.                                                  *)
LEMMA ServerCatalog ==
    ASSUME LeaseInv, CatalogInv, NEW s \in flight,
           (LeaseServer(s) /\ OnlyLease) \/ PublishServer(s)
    PROVE  CatalogInv'
<1> USE DEF CatalogInv
<1>0. LeaseTypeOK /\ s.by \in Writers /\ (s.heard => pc[s.by] = "await")
  BY ListenersWait, StatementFields, Zenon DEF LeaseInv
<1>1. CASE LeaseServer(s) /\ OnlyLease
  <2>1. flight' \subseteq flight /\ (Answers(s, "readback") \/ Answers(s, "idle"))
    BY <1>1, Zenon DEF LeaseServer, ClaimLands, ReleaseLands, Finish
  <2>2. \A v \in Writers : pc'[v] = pc[v] \/ pc[v] \notin Allocating
    BY <1>0, <2>1, Zenon DEF Answers, LeaseTypeOK, Allocating
  <2> QED BY <1>1, <2>1, <2>2, StillCarried, LeaseOnly, Zenon
<1>2. CASE Start(s)
  <2>1. UNCHANGED <<claims, manifest, watermark, described, inventory, gc, serial, job>>
    BY <1>2, Zenon DEF Start, tables, notWriter
  <2>2. CASE Barrier(s) /\ flight' = (flight \ {s}) \cup {[s EXCEPT !.ends = now + PublishTimeout]} /\ pc' = pc
    <3> DEFINE n == [s EXCEPT !.ends = now + PublishTimeout]
    <3>1. IsStatement(s)
      BY <1>0, Zenon DEF LeaseTypeOK
    <3>2. n.kind = s.kind /\ n.version = s.version /\ n.pub = s.pub /\ n.packs = s.packs
      BY <3>1, Zenon DEF IsStatement
    <3>3. Carried(n)
      <4> HIDE DEF n
      <4> QED BY <2>2, <3>2, Zenon DEF Carried, Barrier
    <3>4. \A t \in flight' : Carried(t)
      BY <2>2, <3>3, Zenon DEF Carried
    <3>5. JobInv' /\ DescribedInv'
      BY <2>1, <2>2, AnswerJobs, Zenon
    <3> QED BY <2>1, <3>4, <3>5, Quiet, Zenon
  <2>3. CASE Finish(s) /\ Answers(s, IF s.kind = "manifest" THEN "count" ELSE "published")
    <3>1. JobInv' /\ DescribedInv'
      BY <2>1, <2>3, AnswerJobs, Zenon
    <3>2. \A t \in flight' : Carried(t)
      BY <2>3, StillCarried, Zenon DEF Finish
    <3> QED BY <2>1, <3>1, <3>2, Quiet, Zenon
  <2> QED BY <1>2, <2>2, <2>3, Zenon DEF Start
<1>3. CASE ManifestLands(s)
  <2>1. /\ UNCHANGED <<claims, watermark, described, inventory, gc, serial, job>>
        /\ Answers(s, "count") /\ flight' \subseteq flight
        /\ manifest' = manifest \cup {[version |-> s.version, pub |-> s.pub, pack |-> p] : p \in s.packs}
    BY <1>3, Zenon DEF ManifestLands, notWriter, Finish
  <2>2. s.version \in Nat /\ s.pub \in Nat /\ s.packs \subseteq Packs
    BY Zenon DEF TableInv
  <2>3. manifest \subseteq manifest' /\ manifest' \subseteq [version : Nat, pub : Nat, pack : Packs]
    BY <2>1, <2>2 DEF TableInv
  <2>4. JobInv' /\ DescribedInv'
    BY <2>1, AnswerJobs, Zenon
  <2>5. AllocatorInv'
    BY <2>1, Zenon DEF AllocatorInv, IsTop, MaxVersion
  <2>6. TableInv' /\ WatermarkInv' /\ OrphanInv' /\ InventoryInv'
    BY <2>1, <2>3, StillCarried, QuietTables, Zenon
  <2> QED BY <2>4, <2>5, <2>6, Zenon
<1>4. CASE WatermarkLands(s) \/ InventoryLands(s)
  <2>1. UNCHANGED <<claims, described, serial>>
    BY <1>4, Zenon DEF WatermarkLands, InventoryLands, notWriter
  <2>2. \/ Answers(s, "published") /\ job' = job
        \/ s.heard /\ Goes(s.by, "ready") /\ job' = [job EXCEPT ![s.by] = NoJob]
        \/ UNCHANGED <<pc, job>>
    BY <1>4, Zenon DEF WatermarkLands, InventoryLands, EndPass
  <2>3. JobInv' /\ DescribedInv'
    BY <2>1, <2>2, AnswerJobs, Zenon
  <2>4. AllocatorInv'
    BY <2>1, Zenon DEF AllocatorInv, IsTop, MaxVersion
  <2>5. TableInv' /\ WatermarkInv' /\ OrphanInv' /\ InventoryInv'
    BY <1>4, WatermarkKeeps, InventoryKeeps, Zenon
  <2> QED BY <2>3, <2>4, <2>5, Zenon
<1>5. CASE Capped(s)
  <2>1. /\ UNCHANGED <<claims, manifest, watermark, described, inventory, gc, serial>>
        /\ flight' \subseteq flight
        /\ \/ s.heard /\ Goes(s.by, "idle") /\ job' = [job EXCEPT ![s.by] = NoJob]
           \/ UNCHANGED <<pc, job>>
    BY <1>5, Zenon DEF Capped, Quarantine, Finish, tables, notWriter
  <2>2. JobInv' /\ DescribedInv'
    BY <2>1, AnswerJobs, Zenon
  <2> QED BY <2>1, <2>2, StillCarried, Quiet, Zenon
<1> QED BY <1>1, <1>2, <1>3, <1>4, <1>5, Zenon DEF PublishServer

(* An empty catalog has nothing to be wrong about.                           *)
LEMMA InitCatalog == Init => CatalogInv
<1> SUFFICES ASSUME Init PROVE CatalogInv
  BY Zenon
<1>1. /\ claims = {} /\ manifest = {} /\ watermark = {} /\ inventory = {} /\ flight = {}
      /\ serial = 0 /\ job = [w \in Writers |-> NoJob] /\ gc.published = 0 /\ gc.orphans = {}
  BY Zenon DEF Init, LeaseInit
<1>2. IsTop({}, 0) /\ MaxVersion({}) = 0
  <2>1. IsTop({}, 0)
    BY Zenon DEF IsTop
  <2> QED BY <2>1, TopIs, Zenon
<1>3. AllocatorInv /\ TableInv /\ PublishedHead = 0
  BY <1>1, <1>2, Zenon DEF AllocatorInv, TableInv, PublishedHead
<1>4. JobInv /\ DescribedInv
  BY <1>1, NoJobIsJob, Zenon DEF JobInv, DescribedInv
<1>5. WatermarkInv /\ OrphanInv /\ InventoryInv
  BY <1>1, <1>3 DEF WatermarkInv, OrphanInv, InventoryInv, Running
<1> QED BY <1>3, <1>4, <1>5, Zenon DEF CatalogInv

(* Every step of the catalog preserves the invariant.                        *)
LEMMA NextCatalog == LeaseInv /\ GcInv /\ CatalogInv /\ [Next]_vars => CatalogInv'
<1> SUFFICES ASSUME LeaseInv, GcInv, CatalogInv, [Next]_vars PROVE CatalogInv'
  BY Zenon
<1>1. conf.writers \subseteq Writers
  BY PublishAssumption, Zenon DEF LeaseInv, LeaseTypeOK
<1>2. ASSUME NEW w \in conf.writers,
             ((LeaseStep(w) \/ GiveUp(w)) /\ OnlyLease) \/ PassStep(w) \/ CrashWriter(w)
      PROVE  CatalogInv'
  <2>1. w \in Writers
    BY <1>1, Zenon
  <2> QED BY <1>2, <2>1, LeaseStepCatalog, AllocateCatalog, PublishCatalog, CutShortCatalog, Zenon
          DEF PassStep
<1>3. CASE Tick /\ OnlyLease
  <2>1. pc' = pc /\ flight' = flight
    BY <1>3, Zenon DEF Tick, leaseVars
  <2> QED BY <1>3, <2>1, StillCarried, LeaseOnly, Zenon
<1>4. CASE UNCHANGED vars
  <2>1. UNCHANGED <<pc, flight, claims, manifest, watermark, described, inventory, job, serial, gc>>
    BY <1>4, Zenon DEF vars, leaseVars, tables
  <2>2. JobInv' /\ DescribedInv'
    BY <2>1, Zenon DEF CatalogInv, JobInv, DescribedInv
  <2> QED BY <2>1, <2>2, StillCarried, Quiet, Zenon
<1> QED BY <1>2, <1>3, <1>4, ServerCatalog, CollectorKeeps, Zenon DEF Next

(* The catalog keeps its invariant: publishes that lose their race, rows     *)
(* that land late and collected manifests included.                          *)
THEOREM CatalogHolds == Spec => []CatalogInv
<1>1. Init => LeaseInv /\ GcInv /\ CatalogInv
  BY InitLease, InitGc, InitCatalog, Zenon
<1>2. LeaseInv /\ GcInv /\ CatalogInv /\ [Next]_vars => LeaseInv' /\ GcInv' /\ CatalogInv'
  BY NextLease, NextCatalog, Zenon
<1> QED BY <1>1, <1>2, PTL DEF Spec

(* A pack the replay guard skips from now on, because the inventory lists    *)
(* it, is described and in the published snapshot, for any writers, packs,   *)
(* lease times and bounds.                                                   *)
THEOREM CommittedIsVisible == Spec => []CommittedVisible
<1>1. CatalogInv => CommittedVisible
  <2> SUFFICES ASSUME CatalogInv, NEW p \in inventory
               PROVE  p \in Visible(PublishedHead) /\ p \in described
    BY Zenon DEF CommittedVisible
  <2>1. PICK m \in manifest : m.pack = p /\ Stands(m.version, m.pub)
    BY Zenon DEF CatalogInv, InventoryInv
  <2>2. m.version \in 1 .. PublishedHead
    BY <2>1 DEF CatalogInv, TableInv, IsTop, Stands
  <2>3. p \in Admitted(m.version)
    BY <2>1, Zenon DEF Admitted, Stands
  <2> QED BY <2>2, <2>3, Zenon DEF Visible, CatalogInv, InventoryInv
<1> QED BY <1>1, CatalogHolds, PTL

(* The catalog implements the append-only log of snapshots, for any writers, *)
(* packs, lease times and bounds: publishes land one at a time, each above   *)
(* the last, and neither a late manifest row nor the garbage collector       *)
(* changes what a reader sees at a published version.                        *)
THEOREM CatalogIsSnapshotLog == Spec => ImplementsSnapshotLog
<1>1. Init => LeaseInv /\ GcInv /\ CatalogInv /\ PubInv
  <2>1. ASSUME Init PROVE PubInv
    <3>1. /\ watermark = {} /\ flight = {} /\ serial = 0
          /\ \A w \in Writers : job[w].uid = 0 /\ next[w] = "ready" /\ pc[w] = "idle"
      BY <2>1, Zenon DEF Init, LeaseInit, NoJob
    <3> QED BY <3>1 DEF PubInv, UidInv, SentPubInv, GoesOnTo, Unpublished
  <2> QED BY <2>1, InitLease, InitGc, InitCatalog, SMTT(20)
<1>2. Init => ReaderLog = Log!Empty
  <2> SUFFICES ASSUME Init PROVE ReaderLog = Log!Empty
    BY Zenon
  <2>1. {r.version : r \in watermark} = {}
    BY Zenon DEF Init
  <2> QED BY <2>1, Zenon DEF ReaderLog, Admitted, Log!Empty
<1>3. LeaseInv /\ GcInv /\ CatalogInv /\ PubInv /\ [Next]_vars
        => LeaseInv' /\ GcInv' /\ CatalogInv' /\ PubInv' /\ [Log!Publish]_ReaderLog
  BY NextLease, NextCatalog, NextPub, NextLog, Zenon
<1> QED BY <1>1, <1>2, <1>3, PTL DEF Spec, ImplementsSnapshotLog, Log!Spec
=============================================================================
