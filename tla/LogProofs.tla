----------------------------- MODULE LogProofs ------------------------------
(***************************************************************************)
(* CatalogPublish implements SnapshotLog for any writers, packs, lease      *)
(* times and bounds: every step of a pass, of the server and of the         *)
(* collector keeps PubInv, and shows a reader the log it saw, or that log   *)
(* and one version more.                                                    *)
(***************************************************************************)
EXTENDS LeaseProofs, CatalogInvariant, CatalogLog

(* Numbers and fields the comparisons need.                                  *)
LEMMA PubTypes ==
    ASSUME TableInv, JobInv
    PROVE  /\ serial \in Nat /\ \A w \in Writers : job[w].uid \in Nat
           /\ (\A s \in flight : s.pub \in Nat) /\ (\A r \in watermark : r.pub \in Nat)
BY Zenon DEF TableInv, JobInv, Job

(* A writer neither waiting nor reading back owes no fenced statement.       *)
LEMMA NothingNext ==
    ASSUME LeaseInv, UidInv, NEW w \in Writers, claim[w] = NoLease \/ pc[w] \notin {"await", "readback"}
    PROVE  next[w] = "ready"
BY Zenon DEF LeaseInv, WriterInv, UidInv

(* Nothing is published and no id drawn: passes keep their id or end.        *)
LEMMA PubQuiet ==
    ASSUME TableInv, JobInv, PubInv, UNCHANGED <<serial, watermark>>,
           \A v \in Writers : \/ job'[v].uid = job[v].uid
                              \/ job'[v].uid = 0 /\ ~GoesOnTo(v)' /\ pc'[v] # "published",
           \A v \in Writers : next'[v] # "ready" => claim'[v] # NoLease,
           \A v \in Writers : GoesOnTo(v)' => Fresh(v),
           \A v \in Writers : pc'[v] = "published" => job[v].uid # 0,
           \A s \in flight' : Follows(s)
    PROVE  PubInv'
<1> USE DEF PubInv
<1>1. serial \in Nat /\ (\A w \in Writers : job[w].uid \in Nat) /\ (\A s \in flight : s.pub \in Nat)
  BY PubTypes, Zenon
<1>2. \A w \in Writers : job[w].uid <= serial
  BY Zenon DEF UidInv
<1>3. \A w \in Writers : job'[w].uid <= serial
  BY <1>1, <1>2
<1>4. \A v, w \in Writers : job'[v].uid = job'[w].uid => v = w \/ job'[v].uid = 0
  BY Zenon DEF UidInv
<1>5. \A w \in Writers : GoesOnTo(w)' => Fresh(w)'
  BY Zenon DEF Fresh
<1>6. \A w \in Writers : pc'[w] = "published" => job'[w].uid # 0
  BY Zenon
<1>7. UidInv'
  BY <1>3, <1>4, <1>5, <1>6, Zenon DEF UidInv
<1>8. ASSUME NEW s \in flight'
      PROVE  /\ s.pub <= serial
             /\ s.kind \in PublishKinds => s.pub # 0 /\ (s.heard => job'[s.by].uid = s.pub)
             /\ \A w \in Writers : s.pub = job'[w].uid => s.pub = 0 \/ (s.by = w /\ s.heard)
             /\ s.kind = "manifest" => \A r \in watermark : r.pub # s.pub
             /\ s.kind = "manifest" => \A t \in flight : t.kind = "watermark" => t.pub # s.pub
  <2>1. CASE s.kind \notin PublishKinds /\ s.pub = 0
    BY <1>1, <2>1 DEF PublishKinds, FencedKinds
  <2>2. CASE \E t \in flight : /\ s.kind = t.kind /\ s.pub = t.pub /\ s.by = t.by
                               /\ IF s.heard THEN t.heard /\ job'[s.by].uid = job[s.by].uid
                                  ELSE ~t.heard \/ job'[s.by].uid = 0
    <3>1. PICK t \in flight : /\ s.kind = t.kind /\ s.pub = t.pub /\ s.by = t.by
                              /\ IF s.heard THEN t.heard /\ job'[s.by].uid = job[s.by].uid
                                 ELSE ~t.heard \/ job'[s.by].uid = 0
      BY <2>2, Zenon
    <3>2. /\ t.pub <= serial
          /\ t.kind \in PublishKinds => t.pub # 0 /\ (t.heard => job[t.by].uid = t.pub)
          /\ \A w \in Writers : t.pub = job[w].uid => t.pub = 0 \/ (t.by = w /\ t.heard)
          /\ t.kind = "manifest" => \A r \in watermark : r.pub # t.pub
          /\ t.kind = "manifest" => \A q \in flight : q.kind = "watermark" => q.pub # t.pub
      BY Zenon DEF SentPubInv
    <3>3. ASSUME NEW w \in Writers, s.pub = job'[w].uid, s.pub # 0
          PROVE  s.by = w /\ s.heard
      <4>1. t.pub = job[w].uid /\ t.by = w /\ t.heard
        BY <3>1, <3>2, <3>3, Zenon
      <4> QED BY <3>1, <3>3, <4>1, Zenon
    <3> QED BY <3>1, <3>2, <3>3, Zenon
  <2> QED BY <1>8, <2>1, <2>2, Zenon DEF Follows
<1>9. ASSUME NEW s \in flight', s.kind = "manifest", NEW t \in flight', t.kind = "watermark"
      PROVE  t.pub # s.pub
  <2>1. PICK q \in flight : q.kind = "watermark" /\ t.pub = q.pub
    BY <1>9, Zenon DEF Follows, PublishKinds, FencedKinds
  <2>2. \A r \in flight : r.kind = "watermark" => r.pub # s.pub
    BY <1>8, <1>9, Zenon
  <2> QED BY <2>1, <2>2, Zenon
<1>10. SentPubInv'
  BY <1>8, <1>9, Zenon DEF SentPubInv
<1> QED BY <1>7, <1>10, Zenon

(* A writer goes on without a statement.                                     *)
LEMMA PubMoves ==
    ASSUME LeaseInv, TableInv, JobInv, PubInv, NEW w \in Writers, pc[w] # "await",
           UNCHANGED <<serial, watermark, flight>>,
           NEW x, Goes(w, x), x # "published", x \in Unpublished => Fresh(w),
           \A v \in Writers : \/ job'[v].uid = job[v].uid
                              \/ job'[v].uid = 0 /\ pc'[v] \in {"idle", "ready", "allocate"},
           (pc[w] # "readback" /\ UNCHANGED <<claim, next>>) \/ NoClaim(w)
    PROVE  PubInv'
<1>1. /\ pc'[w] = x /\ next'[w] = "ready"
      /\ \A v \in Writers \ {w} : pc'[v] = pc[v] /\ next'[v] = next[v] /\ claim'[v] = claim[v]
  BY NothingNext, Zenon DEF LeaseInv, LeaseTypeOK, Goes, NoClaim, PubInv
<1>2. ASSUME NEW v \in Writers, job'[v].uid # job[v].uid
      PROVE  job'[v].uid = 0 /\ ~GoesOnTo(v)' /\ pc'[v] # "published"
  BY <1>1, <1>2, NothingNext, Zenon DEF GoesOnTo, Unpublished, PubInv
<1>3. \A v \in Writers : next'[v] # "ready" => claim'[v] # NoLease
  BY <1>1, Zenon DEF PubInv, UidInv
<1>4. \A v \in Writers : GoesOnTo(v)' => Fresh(v)
  BY <1>1, Zenon DEF PubInv, UidInv, GoesOnTo
<1>5. \A v \in Writers : pc'[v] = "published" => job[v].uid # 0
  BY <1>1, Zenon DEF PubInv, UidInv
<1>6. ASSUME NEW s \in flight'
      PROVE  Follows(s)
  <2>1. s \in flight /\ s.by \in Writers
    BY StatementFields, Zenon DEF LeaseInv
  <2>2. ASSUME s.heard PROVE job'[s.by].uid = job[s.by].uid
    <3>1. pc[s.by] = "await"
      BY <2>1, <2>2, ListenersWait, Zenon DEF LeaseInv
    <3>2. pc'[s.by] = "await"
      BY <1>1, <2>1, <3>1, Zenon
    <3> QED BY <2>1, <3>2, Zenon
  <2> QED BY <2>1, <2>2, Zenon DEF Follows
<1> QED BY <1>2, <1>3, <1>4, <1>5, <1>6, PubQuiet, Zenon

(* A statement is over; its writer, if it waits, goes on or ends its pass.   *)
LEMMA PubEnds ==
    ASSUME LeaseInv, TableInv, JobInv, PubInv, NEW s \in flight, Finish(s),
           UNCHANGED <<serial, watermark, claim, next>>,
           NEW x \in {"readback", "idle", "ready", "count", "published"}, Answers(s, x),
           x = "count" => s.kind = "manifest", x = "published" => s.kind = "watermark",
           x \in {"idle", "ready"} => s.kind # "claim",
           \A v \in Writers : \/ job'[v].uid = job[v].uid
                              \/ job'[v].uid = 0 /\ pc'[v] \in {"idle", "ready"}
    PROVE  PubInv'
<1>1. /\ s.by \in Writers /\ (s.heard => pc[s.by] = "await")
      /\ s.heard /\ s.kind # "claim" => claim[s.by] = NoLease
  BY StatementFields, ListenersWait, Zenon DEF LeaseInv, SentInv
<1>2. /\ s.heard => pc'[s.by] = x
      /\ \A v \in Writers : pc'[v] = pc[v] \/ (s.heard /\ v = s.by)
  BY <1>1, Zenon DEF Answers, LeaseInv, LeaseTypeOK
<1>3. s.heard /\ x \in {"idle", "ready"} => next[s.by] = "ready"
  BY <1>1, NothingNext, Zenon DEF PubInv
<1>4. \A v \in Writers : pc[v] \in {"idle", "ready"} => next[v] = "ready"
  BY NothingNext, Zenon DEF PubInv
<1>5. ASSUME NEW v \in Writers, job'[v].uid # job[v].uid
      PROVE  job'[v].uid = 0 /\ ~GoesOnTo(v)' /\ pc'[v] # "published"
  <2>1. next[v] = "ready" /\ pc'[v] \in {"idle", "ready"} /\ job'[v].uid = 0
    BY <1>2, <1>3, <1>4, <1>5, Zenon
  <2> QED BY <2>1, Zenon DEF GoesOnTo, Unpublished
<1>6. \A v \in Writers : next'[v] # "ready" => claim'[v] # NoLease
  BY Zenon DEF PubInv, UidInv
<1>7. s.heard /\ s.kind \in {"manifest", "watermark"} => job[s.by].uid = s.pub /\ s.pub # 0
  BY Zenon DEF PubInv, SentPubInv, PublishKinds, FencedKinds
<1>8. s.heard /\ s.kind = "manifest" => Fresh(s.by)
  BY <1>7 DEF PubInv, SentPubInv, Fresh
<1>9. ASSUME NEW v \in Writers, GoesOnTo(v)'
      PROVE  Fresh(v)
  <2>1. CASE GoesOnTo(v)
    BY <2>1, Zenon DEF PubInv, UidInv
  <2>2. CASE ~GoesOnTo(v)
    <3>1. s.heard /\ v = s.by /\ x = "count"
      BY <1>2, <1>9, <2>2, Zenon DEF GoesOnTo, Unpublished
    <3> QED BY <1>8, <3>1, Zenon
  <2> QED BY <2>1, <2>2, Zenon
<1>10. \A v \in Writers : pc'[v] = "published" => job[v].uid # 0
  BY <1>2, <1>7, Zenon DEF PubInv, UidInv
<1>11. ASSUME NEW t \in flight'
       PROVE  Follows(t)
  <2>1. t \in flight /\ t # s /\ t.by \in Writers
    BY StatementFields, Zenon DEF LeaseInv, Finish
  <2>2. ASSUME t.heard PROVE job'[t.by].uid = job[t.by].uid
    <3>1. pc[t.by] = "await" /\ ~(s.heard /\ t.by = s.by)
      BY <2>1, <2>2, ListenersWait DEF LeaseInv, SentInv
    <3>2. pc'[t.by] = "await"
      BY <1>2, <2>1, <3>1, Zenon
    <3> QED BY <2>1, <3>2, Zenon
  <2> QED BY <2>1, <2>2, Zenon DEF Follows
<1> QED BY <1>5, <1>6, <1>9, <1>10, <1>11, PubQuiet, Zenon

(* A writer stops listening and drops its pass.                              *)
LEMMA PubAbandons ==
    ASSUME LeaseInv, TableInv, JobInv, PubInv, NEW w \in Writers, flight' = Unheard(w),
           NoClaim(w), UNCHANGED <<serial, watermark>>, Goes(w, "idle") \/ Goes(w, "ready"),
           \A v \in Writers : \/ job'[v].uid = job[v].uid /\ v # w
                              \/ job'[v].uid = 0 /\ pc'[v] \in {"idle", "ready"}
    PROVE  PubInv'
<1>1. /\ pc'[w] \in {"idle", "ready"} /\ next'[w] = "ready" /\ job'[w].uid = 0
      /\ \A v \in Writers \ {w} : pc'[v] = pc[v] /\ next'[v] = next[v] /\ claim'[v] = claim[v]
  BY Zenon DEF LeaseInv, LeaseTypeOK, Goes, NoClaim
<1>2. \A v \in Writers : pc[v] \in {"idle", "ready"} => next[v] = "ready"
  BY NothingNext, Zenon DEF PubInv
<1>3. ASSUME NEW v \in Writers, job'[v].uid # job[v].uid
      PROVE  job'[v].uid = 0 /\ ~GoesOnTo(v)' /\ pc'[v] # "published"
  BY <1>1, <1>2, <1>3, Zenon DEF GoesOnTo, Unpublished
<1>4. \A v \in Writers : next'[v] # "ready" => claim'[v] # NoLease
  BY <1>1, Zenon DEF PubInv, UidInv
<1>5. \A v \in Writers : GoesOnTo(v)' => Fresh(v)
  <2>1. ~GoesOnTo(w)'
    BY <1>1, Zenon DEF GoesOnTo, Unpublished
  <2> QED BY <1>1, <2>1, Zenon DEF PubInv, UidInv, GoesOnTo
<1>6. \A v \in Writers : pc'[v] = "published" => job[v].uid # 0
  BY <1>1, Zenon DEF PubInv, UidInv
<1>7. ASSUME NEW s \in flight'
      PROVE  Follows(s)
  <2>1. PICK t \in flight : s = IF t.by = w THEN [t EXCEPT !.heard = FALSE] ELSE t
    BY Zenon DEF Unheard
  <2>2. IsStatement(t) /\ t.by \in Writers
    BY StatementFields, Zenon DEF LeaseInv, LeaseTypeOK
  <2>3. /\ s.kind = t.kind /\ s.pub = t.pub /\ s.by = t.by
        /\ IF t.by = w THEN ~s.heard ELSE s.heard = t.heard
    BY <2>1, <2>2, Zenon DEF IsStatement
  <2>4. ASSUME s.heard PROVE t.heard /\ job'[s.by].uid = job[s.by].uid
    <3>1. t.heard /\ t.by # w /\ pc[t.by] = "await"
      BY <2>1, <2>3, <2>4, ListenersWait DEF LeaseInv
    <3>2. pc'[t.by] = "await"
      BY <1>1, <2>2, <3>1, Zenon
    <3> QED BY <2>2, <2>3, <3>1, <3>2, Zenon
  <2>5. ~s.heard => ~t.heard \/ job'[s.by].uid = 0
    BY <1>1, <2>3, Zenon
  <2> QED BY <2>3, <2>4, <2>5, Zenon DEF Follows
<1> QED BY <1>3, <1>4, <1>5, <1>6, <1>7, PubQuiet, Zenon

(* A statement of the lease carries no publish id.                           *)
LEMMA PubClaims ==
    ASSUME LeaseInv, TableInv, JobInv, PubInv, NEW w \in Writers,
           pc[w] \notin {"await", "readback"}, UNCHANGED <<serial, watermark>>,
           NEW kind \in {"claim", "release"}, NEW lease, Sends(w, LeaseStatement(kind, w, lease)),
           \/ UNCHANGED <<claim, next>>
           \/ /\ lease # NoLease /\ claim' = [claim EXCEPT ![w] = lease]
              /\ \E then : next' = [next EXCEPT ![w] = then] /\ (then # "ready" => Fresh(w)),
           \A v \in Writers : \/ job'[v].uid = job[v].uid
                              \/ job'[v].uid = 0 /\ pc'[v] \in {"idle", "ready"}
    PROVE  PubInv'
<1>1. pc'[w] = "await" /\ \A v \in Writers \ {w} : pc'[v] = pc[v]
  BY Zenon DEF LeaseInv, LeaseTypeOK, Sends, Goes
<1>2. /\ \A v \in Writers : next'[v] # "ready" => claim'[v] # NoLease
      /\ next'[w] # "ready" => Fresh(w)
      /\ \A v \in Writers \ {w} : next'[v] = next[v]
  BY NothingNext, Zenon DEF LeaseInv, LeaseTypeOK, PubInv, UidInv
<1>3. \A v \in Writers : pc[v] \in {"idle", "ready"} => next[v] = "ready"
  BY NothingNext, Zenon DEF PubInv
<1>4. ASSUME NEW v \in Writers, job'[v].uid # job[v].uid
      PROVE  job'[v].uid = 0 /\ ~GoesOnTo(v)' /\ pc'[v] # "published"
  BY <1>1, <1>2, <1>3, <1>4, Zenon DEF GoesOnTo, Unpublished
<1>5. \A v \in Writers : GoesOnTo(v)' => Fresh(v)
  BY <1>1, <1>2, Zenon DEF PubInv, UidInv, GoesOnTo, Unpublished
<1>6. \A v \in Writers : pc'[v] = "published" => job[v].uid # 0
  BY <1>1, Zenon DEF PubInv, UidInv
<1>7. ASSUME NEW s \in flight'
      PROVE  Follows(s)
  <2>1. CASE s \in flight
    <3>1. s.by \in Writers
      BY <2>1, StatementFields, Zenon DEF LeaseInv
    <3>2. s.heard => pc'[s.by] = "await"
      BY <1>1, <2>1, <3>1, ListenersWait DEF LeaseInv
    <3>3. s.heard => job'[s.by].uid = job[s.by].uid
      BY <3>1, <3>2, Zenon
    <3> QED BY <2>1, <3>3, Zenon DEF Follows
  <2>2. CASE s = LeaseStatement(kind, w, lease)
    <3>1. s.kind = kind /\ s.pub = 0
      BY <2>2, Zenon DEF LeaseStatement, Statement
    <3> QED BY <3>1, Zenon DEF Follows, PublishKinds, FencedKinds
  <2> QED BY <2>1, <2>2, Zenon DEF Sends
<1> QED BY <1>2, <1>4, <1>5, <1>6, <1>7, PubQuiet, Zenon

(* A pass without a statement in flight sends one under its id.              *)
LEMMA PubSends ==
    ASSUME LeaseInv, TableInv, JobInv, PubInv, NEW w \in Writers,
           pc[w] \notin {"await", "readback"}, job[w].uid # 0,
           UNCHANGED <<serial, watermark, claim, next>>,
           NEW kind \in PublishKinds, kind = "manifest" => Fresh(w), NEW packs,
           Sends(w, Fenced(kind, w, packs)), \A v \in Writers : job'[v].uid = job[v].uid
    PROVE  PubInv'
<1> DEFINE n == Fenced(kind, w, packs)
<1> USE DEF PubInv
<1>0. serial \in Nat /\ \A v \in Writers : job[v].uid \in Nat
  BY PubTypes, Zenon
<1>1. pc'[w] = "await" /\ next[w] = "ready" /\ \A v \in Writers \ {w} : pc'[v] = pc[v]
  BY NothingNext, Zenon DEF LeaseInv, LeaseTypeOK, Sends, Goes
<1>2. n.kind = kind /\ n.pub = job[w].uid /\ n.by = w /\ n.heard /\ flight' = flight \cup {n}
  BY Zenon DEF Fenced, Statement, Sends
<1> HIDE DEF n
<1>3. \A s \in flight : s.pub # job[w].uid
  <2>1. ASSUME NEW s \in flight, s.pub = job[w].uid
        PROVE  FALSE
    <3>1. s.by = w /\ s.heard
      BY <2>1, Zenon DEF SentPubInv
    <3> QED BY <3>1, ListenersWait, Zenon DEF LeaseInv
  <2> QED BY <2>1, Zenon
<1>4. \A v \in Writers : GoesOnTo(v)' => Fresh(v)'
  BY <1>1 DEF UidInv, GoesOnTo, Fresh, Unpublished
<1>5. \A v \in Writers : pc'[v] = "published" => job'[v].uid # 0
  BY <1>1, Zenon DEF UidInv
<1>6. \A u, v \in Writers : job'[u].uid = job'[v].uid => u = v \/ job'[u].uid = 0
  BY Zenon DEF UidInv
<1>7. UidInv'
  BY <1>4, <1>5, <1>6, SMTT(20) DEF UidInv
<1>8. ASSUME NEW s \in flight'
      PROVE  /\ s.pub <= serial
             /\ s.kind \in PublishKinds => s.pub # 0 /\ (s.heard => job'[s.by].uid = s.pub)
             /\ \A v \in Writers : s.pub = job'[v].uid => s.pub = 0 \/ (s.by = v /\ s.heard)
             /\ s.kind = "manifest" => \A r \in watermark : r.pub # s.pub
  <2>1. CASE s \in flight
    <3>1. s.by \in Writers
      BY <2>1, StatementFields, Zenon DEF LeaseInv
    <3> QED BY <2>1, <3>1 DEF SentPubInv
  <2>2. CASE s = n
    <3>1. n.pub <= serial
      BY <1>2, Zenon DEF UidInv
    <3>2. \A v \in Writers : n.pub = job'[v].uid => n.by = v
      BY <1>2, Zenon DEF UidInv
    <3>3. kind = "manifest" => \A r \in watermark : r.pub # n.pub
      BY <1>2, Zenon DEF Fresh
    <3> QED BY <1>2, <2>2, <3>1, <3>2, <3>3
  <2> QED BY <1>2, <2>1, <2>2, Zenon
<1>9. ASSUME NEW s \in flight', s.kind = "manifest", NEW t \in flight', t.kind = "watermark"
      PROVE  t.pub # s.pub
  <2>1. s \in flight /\ t \in flight => t.pub # s.pub
    BY <1>9, Zenon DEF SentPubInv
  <2> QED BY <1>2, <1>3, <1>9, <2>1
<1>10. SentPubInv'
  BY <1>8, <1>9, Zenon DEF SentPubInv
<1> QED BY <1>7, <1>10, Zenon

(* A drawn id is new.                                                        *)
LEMMA PubDraws ==
    ASSUME LeaseInv, TableInv, JobInv, PubInv, NEW w \in Writers, pc[w] = "allocate",
           Goes(w, "insert"), UNCHANGED <<flight, watermark, claim, next>>, serial' = serial + 1,
           job'[w].uid = serial + 1, \A v \in Writers \ {w} : job'[v] = job[v]
    PROVE  PubInv'
<1> USE DEF PubInv
<1>0. /\ serial \in Nat /\ \A v \in Writers : job[v].uid \in Nat
      /\ (\A s \in flight : s.pub \in Nat) /\ (\A r \in watermark : r.pub \in Nat)
  BY PubTypes, Zenon
<1>1. pc'[w] = "insert" /\ next[w] = "ready" /\ \A v \in Writers \ {w} : pc'[v] = pc[v]
  BY NothingNext, Zenon DEF LeaseInv, LeaseTypeOK, Goes
<1>2. \A r \in watermark : r.pub <= serial
  BY Zenon DEF UidInv
<1>3. \A v \in Writers : job[v].uid <= serial
  BY Zenon DEF UidInv
<1>4. \A s \in flight : s.pub <= serial
  BY Zenon DEF SentPubInv
<1>5. \A u, v \in Writers : job'[u].uid = job'[v].uid => u = v \/ job'[u].uid = 0
  <2>1. \A v \in Writers \ {w} : job'[v].uid # job'[w].uid
    BY <1>0, <1>3
  <2>2. \A u, v \in Writers \ {w} : job'[u].uid = job'[v].uid => u = v \/ job'[u].uid = 0
    BY ZenonT(40) DEF UidInv
  <2> QED BY <2>1, <2>2, Zenon
<1>6. \A v \in Writers : GoesOnTo(v)' => Fresh(v)'
  <2>1. Fresh(w)'
    BY <1>0, <1>2 DEF Fresh
  <2>2. \A v \in Writers \ {w} : GoesOnTo(v)' => Fresh(v)'
    BY <1>1 DEF UidInv, GoesOnTo, Fresh
  <2> QED BY <2>1, <2>2, Zenon
<1>7. \A v \in Writers : pc'[v] = "published" => job'[v].uid # 0
  BY <1>1, Zenon DEF UidInv
<1>8. \A v \in Writers : job'[v].uid <= serial'
  BY <1>0, <1>3
<1>9. \A r \in watermark : r.pub <= serial'
  BY <1>0, <1>2
<1>10. UidInv'
  BY <1>5, <1>6, <1>7, <1>8, <1>9, Zenon DEF UidInv
<1>11. ASSUME NEW s \in flight
       PROVE  /\ s.pub <= serial'
              /\ s.kind \in PublishKinds => s.pub # 0 /\ (s.heard => job'[s.by].uid = s.pub)
              /\ \A v \in Writers : s.pub = job'[v].uid => s.pub = 0 \/ (s.by = v /\ s.heard)
  <2>1. s.by \in Writers /\ (s.heard => s.by # w)
    BY StatementFields, ListenersWait, Zenon DEF LeaseInv
  <2>2. s.pub <= serial' /\ s.pub # job'[w].uid
    BY <1>0, <1>4
  <2>3. s.kind \in PublishKinds => s.pub # 0 /\ (s.heard => job'[s.by].uid = s.pub)
    BY <2>1, Zenon DEF SentPubInv
  <2>4. \A v \in Writers \ {w} : s.pub = job'[v].uid => s.pub = 0 \/ (s.by = v /\ s.heard)
    BY DEF SentPubInv
  <2> QED BY <2>2, <2>3, <2>4, Zenon
<1>12. SentPubInv'
  BY <1>11, Zenon DEF SentPubInv
<1> QED BY <1>10, <1>12, Zenon

(* A watermark row lands: its id is in the row, and no longer in flight.     *)
LEMMA PubLands ==
    ASSUME LeaseInv, TableInv, JobInv, PubInv, NEW s \in flight, WatermarkLands(s)
    PROVE  PubInv'
<1> USE DEF PubInv
<1> DEFINE r == [version |-> s.version, pub |-> s.pub]
<1>1. /\ watermark' = watermark \cup {r} /\ r.pub = s.pub /\ flight' = flight \ {s}
      /\ Answers(s, "published") /\ s.kind = "watermark" /\ UNCHANGED <<serial, claim, next, job>>
  BY Zenon DEF WatermarkLands, Finish, notWriter
<1> HIDE DEF r
<1>2. /\ s.pub # 0 /\ s.pub <= serial /\ (s.heard => job[s.by].uid = s.pub)
      /\ \A v \in Writers : s.pub = job[v].uid => s.by = v /\ s.heard
  BY <1>1, Zenon DEF SentPubInv, PublishKinds, FencedKinds
<1>3. s.by \in Writers /\ (s.heard => pc[s.by] = "await" /\ claim[s.by] = NoLease)
  BY <1>1, StatementFields, ListenersWait, Zenon DEF LeaseInv, SentInv
<1>4. /\ s.heard => pc'[s.by] = "published" /\ next[s.by] = "ready"
      /\ \A v \in Writers : pc'[v] = pc[v] \/ (s.heard /\ v = s.by)
  BY <1>1, <1>3, NothingNext, SMTT(20) DEF Answers, LeaseInv, LeaseTypeOK
<1>5. ASSUME NEW v \in Writers, GoesOnTo(v)'
      PROVE  Fresh(v)'
  <2>1. ~(s.heard /\ v = s.by)
    BY <1>1, <1>4, <1>5 DEF GoesOnTo, Unpublished
  <2>2. Fresh(v)
    BY <1>1, <1>4, <1>5, <2>1 DEF UidInv, GoesOnTo
  <2>3. s.pub # job[v].uid
    BY <1>2, <2>1, Zenon
  <2> QED BY <1>1, <2>2, <2>3, Zenon DEF Fresh
<1>6. \A v \in Writers : pc'[v] = "published" => job'[v].uid # 0
  BY <1>1, <1>2, <1>4, Zenon DEF UidInv
<1>7. \A q \in watermark' : q.pub <= serial
  BY <1>1, <1>2, Zenon DEF UidInv
<1>8. UidInv'
  BY <1>1, <1>5, <1>6, <1>7, Zenon DEF UidInv
<1>9. ASSUME NEW t \in flight', t.kind = "manifest"
      PROVE  \A q \in watermark' : q.pub # t.pub
  <2>1. t \in flight /\ s.pub # t.pub
    BY <1>1, <1>9, Zenon DEF SentPubInv
  <2>2. \A q \in watermark : q.pub # t.pub
    BY <1>9, <2>1, Zenon DEF SentPubInv
  <2> QED BY <1>1, <2>1, <2>2, Zenon
<1>10. SentPubInv'
  BY <1>1, <1>9 DEF SentPubInv
<1> QED BY <1>8, <1>10, Zenon

(* A lease step ends the passes of the writers that are through with theirs. *)
LEMMA LeasedUids ==
    ASSUME JobInv, OnlyLease
    PROVE  /\ UNCHANGED <<serial, watermark>>
           /\ \A v \in Writers : \/ job'[v].uid = job[v].uid
                                 \/ job'[v].uid = 0 /\ pc'[v] \in {"idle", "ready"}
<1>1. NoJob.uid = 0
  BY Zenon DEF NoJob
<1> QED BY <1>1, Zenon DEF OnlyLease, tables, JobInv

(* claim() moves its writer back to the start, or sends its claim.           *)
LEMMA PubClaim ==
    ASSUME LeaseInv, TableInv, JobInv, PubInv, NEW w \in Writers, NEW i, NEW then,
           pc[w] \notin {"await", "readback"}, then # "ready" => Fresh(w),
           Claim(w, i, then), OnlyLease
    PROVE  PubInv'
<1> DEFINE c == [term |-> HeadTerm + 1, id |-> i]
<1>1. c # NoLease
  BY DEF NoLease, LeaseInv, HeadInv
<1>2. CASE Goes(w, "idle") /\ UNCHANGED <<claim, next, flight>>
  BY <1>2, LeasedUids, PubMoves, Zenon DEF Unpublished
<1>3. CASE /\ claim' = [claim EXCEPT ![w] = c] /\ next' = [next EXCEPT ![w] = then]
           /\ Sends(w, LeaseStatement("claim", w, c))
  <2> HIDE DEF c
  <2> QED BY <1>1, <1>3, LeasedUids, PubClaims, Zenon
<1> QED BY <1>2, <1>3, Zenon DEF Claim

(* The lease steps of a writer.                                              *)
LEMMA LeaseStepPub ==
    ASSUME LeaseInv, TableInv, JobInv, PubInv, NEW w \in Writers, LeaseStep(w) \/ GiveUp(w), OnlyLease
    PROVE  PubInv'
<1>1. CASE Acquire(w)
  <2>1. pc[w] = "idle" /\ \E id : Claim(w, id, "ready")
    BY <1>1, Zenon DEF Acquire
  <2> QED BY <2>1, PubClaim, Zenon
<1>2. CASE ClaimReadBack(w)
  <2>1. next[w] \in {"ready", "manifest", "watermark"} /\ (next[w] # "ready" => Fresh(w))
    BY Zenon DEF LeaseInv, LeaseTypeOK, FencedKinds, PubInv, UidInv, GoesOnTo
  <2>2. pc[w] # "await" /\ NoClaim(w) /\ flight' = flight /\ (Goes(w, next[w]) \/ Goes(w, "idle"))
    BY <1>2, Zenon DEF ClaimReadBack
  <2>3. CASE Goes(w, next[w])
    <3>1. next[w] # "published" /\ (next[w] \in Unpublished => Fresh(w))
      BY <2>1, Zenon DEF Unpublished
    <3> QED BY <2>2, <2>3, <3>1, LeasedUids, PubMoves, Zenon
  <2>4. CASE Goes(w, "idle")
    BY <2>2, <2>4, LeasedUids, PubMoves, Zenon DEF Unpublished
  <2> QED BY <2>2, <2>3, <2>4, Zenon
<1>3. CASE Release(w)
  <2>1. /\ pc[w] = "ready" /\ Sends(w, LeaseStatement("release", w, held[w]))
        /\ UNCHANGED <<claim, next>>
    BY <1>3, Zenon DEF Release
  <2> QED BY <2>1, LeasedUids, PubClaims, Zenon
<1>4. CASE GiveUp(w)
  <2>1. flight' = Unheard(w) /\ NoClaim(w) /\ (Goes(w, "idle") \/ Goes(w, "ready"))
    BY <1>4, Zenon DEF GiveUp, Quarantine
  <2>2. job'[w].uid = 0 /\ pc'[w] \in {"idle", "ready"}
    BY <2>1, Zenon DEF OnlyLease, Goes, LeaseInv, LeaseTypeOK, NoJob
  <2>3. \A v \in Writers : \/ job'[v].uid = job[v].uid /\ v # w
                           \/ job'[v].uid = 0 /\ pc'[v] \in {"idle", "ready"}
    BY <2>2, LeasedUids, Zenon
  <2> QED BY <2>1, <2>3, LeasedUids, PubAbandons, Zenon
<1> QED BY <1>1, <1>2, <1>3, <1>4, Zenon DEF LeaseStep

(* A writer that goes on by itself in its pass.                              *)
LEMMA PassMoves ==
    ASSUME LeaseInv, TableInv, JobInv, PubInv, NEW w \in Writers, pc[w] # "await",
           UNCHANGED <<serial, watermark, flight>>,
           (pc[w] # "readback" /\ UNCHANGED <<claim, next>>) \/ NoClaim(w),
           NEW x, Goes(w, x), x # "published", x \in Unpublished => Fresh(w),
           NEW j, job' = [job EXCEPT ![w] = j],
           j.uid = job[w].uid \/ (j.uid = 0 /\ x \in {"idle", "ready", "allocate"})
    PROVE  PubInv'
<1>1. pc'[w] = x
  BY Zenon DEF LeaseInv, LeaseTypeOK, Goes
<1>2. \A v \in Writers : \/ job'[v].uid = job[v].uid
                         \/ job'[v].uid = 0 /\ pc'[v] \in {"idle", "ready", "allocate"}
  BY <1>1, Zenon DEF JobInv
<1> QED BY <1>2, PubMoves, Zenon

(* The steps of a pass.                                                      *)
LEMMA PassStepPub ==
    ASSUME LeaseInv, TableInv, JobInv, PubInv, NEW w \in Writers, PassStep(w)
    PROVE  PubInv'
<1>0. /\ pc[w] \in Unpublished => Fresh(w)
      /\ pc[w] = "published" => job[w].uid # 0
      /\ NoJob.uid = 0 /\ job[w] \in Job /\ job = [job EXCEPT ![w] = job[w]]
  BY Zenon DEF PubInv, UidInv, GoesOnTo, NoJob, JobInv
<1>1. CASE Commit(w)
  <2>1. PICK ps : job' = [job EXCEPT ![w] = [NoJob EXCEPT !.packs = ps]]
    BY <1>1, Zenon DEF Commit
  <2>2. [NoJob EXCEPT !.packs = ps].uid = 0
    BY Zenon DEF NoJob
  <2>3. pc[w] = "ready" /\ Goes(w, "allocate") /\ UNCHANGED <<serial, watermark, flight, claim, next>>
    BY <1>1, Zenon DEF Commit, tables
  <2> QED BY <2>1, <2>2, <2>3, PassMoves, Zenon DEF Unpublished
<1>2. CASE AllocateRead(w)
  <2>1. /\ pc[w] = "allocate" /\ Goes(w, "insert") /\ serial' = serial + 1
        /\ UNCHANGED <<flight, watermark, claim, next>>
        /\ \E v : job' = [job EXCEPT ![w].version = v, ![w].uid = serial + 1]
    BY <1>2, Zenon DEF AllocateRead, tables, notWriter
  <2>2. PICK k : job' = [job EXCEPT ![w].version = k, ![w].uid = serial + 1]
    BY <2>1, Zenon
  <2>3. job'[w].uid = serial + 1 /\ \A v \in Writers \ {w} : job'[v] = job[v]
    BY <1>0, <2>2, Zenon DEF JobInv, Job
  <2> QED BY <2>1, <2>3, PubDraws, Zenon
<1>3. CASE AllocateInsert(w)
  <2>1. pc[w] = "insert" /\ Goes(w, "owner") /\ UNCHANGED <<serial, watermark, flight, claim, next, job>>
    BY <1>3 DEF AllocateInsert, notWriter
  <2> QED BY <1>0, <2>1, PassMoves, SMTT(20) DEF Unpublished
<1>4. CASE AllocateReadBack(w)
  <2>1. pc[w] = "owner" /\ UNCHANGED <<serial, watermark, flight, claim, next>>
    BY <1>4, Zenon DEF AllocateReadBack, notWriter
  <2>2. \/ Goes(w, "allocate") /\ job' = [job EXCEPT ![w] = [job[w] EXCEPT !.tries = @ + 1]]
        \/ Goes(w, "ready") /\ job' = [job EXCEPT ![w] = NoJob]
        \/ /\ Goes(w, "renew")
           /\ job' = [job EXCEPT ![w] = [job[w] EXCEPT !.tries = 0, !.todo = job[w].packs]]
    BY <1>4, Zenon DEF AllocateReadBack, EndPass, JobInv
  <2>3. /\ [job[w] EXCEPT !.tries = @ + 1].uid = job[w].uid
        /\ [job[w] EXCEPT !.tries = 0, !.todo = job[w].packs].uid = job[w].uid
    BY <1>0, Zenon DEF Job
  <2> QED BY <1>0, <2>1, <2>2, <2>3, PassMoves, Zenon DEF Unpublished
<1>5. CASE RenewForPublish(w)
  <2>1. /\ pc[w] = "renew" /\ OnlyLease
        /\ \E then : Claim(w, held[w].id, then)
    BY <1>5, Zenon DEF RenewForPublish, Renew
  <2> QED BY <1>0, <2>1, PubClaim DEF Unpublished
<1>6. CASE ManifestSend(w)
  <2>1. PICK p : /\ job' = [job EXCEPT ![w].todo = @ \ {p}, ![w].chunk = {p}]
                 /\ Sends(w, Fenced("manifest", w, {p}))
    BY <1>6, Zenon DEF ManifestSend
  <2>2. \A v \in Writers : job'[v].uid = job[v].uid
    BY <1>0, <2>1, Zenon DEF JobInv, Job
  <2>3. pc[w] = "manifest" /\ UNCHANGED <<serial, watermark, claim, next>>
    BY <1>6, Zenon DEF ManifestSend, tables, notWriter
  <2> QED BY <1>0, <2>1, <2>2, <2>3, PubSends, Zenon DEF Unpublished, PublishKinds, FencedKinds, Fresh
<1>7. CASE WatermarkSend(w)
  <2>1. /\ pc[w] = "watermark" /\ UNCHANGED <<serial, watermark, claim, next, job>>
        /\ Sends(w, Fenced("watermark", w, {}))
    BY <1>7, Zenon DEF WatermarkSend, tables, notWriter
  <2> QED BY <1>0, <2>1, PubSends DEF Unpublished, PublishKinds, FencedKinds, Fresh
<1>8. ASSUME pc[w] \in {"count", "published"}, Race(w) \/ Refused(w),
             UNCHANGED <<serial, watermark, flight, claim, next>>
      PROVE  PubInv'
  <2>1. \/ Goes(w, "allocate") /\ job' = [job EXCEPT ![w] = [job[w] EXCEPT !.published = @ + 1]]
        \/ (Goes(w, "ready") \/ Goes(w, "idle")) /\ job' = [job EXCEPT ![w] = NoJob]
    BY <1>8, Zenon DEF Race, Refused, EndPass, JobInv
  <2>2. [job[w] EXCEPT !.published = @ + 1].uid = job[w].uid
    BY <1>0, SMTT(20) DEF Job
  <2> QED BY <1>0, <1>8, <2>1, <2>2, PassMoves, Zenon DEF Unpublished
<1>9. CASE CountChunk(w)
  <2>1. pc[w] = "count" /\ UNCHANGED <<serial, watermark, flight, claim, next>>
    BY <1>9, Zenon DEF CountChunk, tables, notWriter
  <2>2. CASE Goes(w, "renew") /\ job' = job
    BY <1>0, <2>1, <2>2, PassMoves DEF Unpublished
  <2> QED BY <1>8, <1>9, <2>1, <2>2 DEF CountChunk
<1>10. CASE Published(w)
  <2>1. pc[w] = "published" /\ UNCHANGED <<serial, watermark, claim, next>>
    BY <1>10, Zenon DEF Published, tables, notWriter
  <2>2. CASE Sends(w, Fenced("inventory", w, job[w].packs)) /\ job' = job
    BY <1>0, <2>1, <2>2, PubSends DEF PublishKinds
  <2> QED BY <1>8, <1>10, <2>1, <2>2, Zenon DEF Published
<1>11. CASE ReadFails(w)
  <2>1. /\ pc[w] # "await" /\ UNCHANGED <<serial, watermark, flight>> /\ job' = [job EXCEPT ![w] = NoJob]
        /\ Goes(w, "idle") \/ Goes(w, "ready")
        /\ (pc[w] # "readback" /\ UNCHANGED <<claim, next>>) \/ NoClaim(w)
    BY <1>11, Zenon DEF ReadFails, EndPass, Quarantine, tables
  <2> QED BY <1>0, <2>1, PassMoves, Zenon DEF Unpublished
<1> QED BY <1>1, <1>2, <1>3, <1>4, <1>5, <1>6, <1>7, <1>9, <1>10, <1>11, Zenon DEF PassStep

(* The steps of the server.                                                  *)
LEMMA ServerPub ==
    ASSUME LeaseInv, TableInv, JobInv, PubInv, NEW s \in flight,
           (LeaseServer(s) /\ OnlyLease) \/ PublishServer(s)
    PROVE  PubInv'
<1>0. NoJob.uid = 0 /\ s.by \in Writers
  BY StatementFields, Zenon DEF NoJob, LeaseInv
<1>1. CASE ClaimLands(s) /\ OnlyLease
  <2>1. Finish(s) /\ Answers(s, "readback") /\ UNCHANGED <<claim, next>>
    BY <1>1, Zenon DEF ClaimLands
  <2> QED BY <1>1, <2>1, LeasedUids, PubEnds
<1>2. CASE ReleaseLands(s) /\ OnlyLease
  <2>1. s.kind = "release" /\ Finish(s) /\ Answers(s, "idle") /\ UNCHANGED <<claim, next>>
    BY <1>2, Zenon DEF ReleaseLands
  <2> QED BY <1>2, <2>1, LeasedUids, PubEnds
<1>3. CASE Start(s)
  <2>1. s.kind \in {"manifest", "watermark"} /\ UNCHANGED <<serial, watermark, claim, next, job>>
    BY <1>3, Zenon DEF Start, tables, notWriter
  <2>2. CASE flight' = (flight \ {s}) \cup {[s EXCEPT !.ends = now + PublishTimeout]} /\ pc' = pc
    <3> DEFINE n == [s EXCEPT !.ends = now + PublishTimeout]
    <3>1. IsStatement(s)
      BY Zenon DEF LeaseInv, LeaseTypeOK
    <3>2. n.kind = s.kind /\ n.pub = s.pub /\ n.by = s.by /\ n.heard = s.heard
      BY <3>1, Zenon DEF IsStatement
    <3> HIDE DEF n
    <3>3. Follows(n)
      BY <2>1, <3>2, Zenon DEF Follows
    <3>4. \A t \in flight' : Follows(t)
      BY <2>1, <2>2, <3>3, Zenon DEF Follows, n
    <3>5. \A v \in Writers : GoesOnTo(v)' => Fresh(v)
      BY <2>1, <2>2, Zenon DEF PubInv, UidInv, GoesOnTo
    <3> QED BY <2>1, <2>2, <3>4, <3>5, PubQuiet, Zenon DEF PubInv, UidInv
  <2>3. CASE Finish(s) /\ Answers(s, IF s.kind = "manifest" THEN "count" ELSE "published")
    <3>1. CASE s.kind = "manifest"
      BY <2>1, <2>3, <3>1, PubEnds, Zenon
    <3>2. CASE s.kind = "watermark"
      BY <2>1, <2>3, <3>2, PubEnds
    <3> QED BY <2>1, <3>1, <3>2, Zenon
  <2> QED BY <1>3, <2>2, <2>3, Zenon DEF Start
<1>4. CASE ManifestLands(s)
  <2>1. /\ s.kind = "manifest" /\ Finish(s) /\ Answers(s, "count")
        /\ UNCHANGED <<serial, watermark, claim, next, job>>
    BY <1>4, Zenon DEF ManifestLands, notWriter
  <2> QED BY <2>1, PubEnds, Zenon
<1>5. CASE InventoryLands(s)
  <2>1. /\ s.kind = "inventory" /\ Finish(s) /\ Answers(s, "ready")
        /\ UNCHANGED <<serial, watermark, claim, next>>
        /\ job' = IF s.heard THEN [job EXCEPT ![s.by] = NoJob] ELSE job
    BY <1>5, Zenon DEF InventoryLands, notWriter, EndPass, Goes, Answers
  <2>2. \A v \in Writers : job'[v].uid = job[v].uid \/ (job'[v].uid = 0 /\ pc'[v] = "ready")
    BY <1>0, <2>1 DEF JobInv, LeaseInv, LeaseTypeOK, Answers
  <2> QED BY <2>1, <2>2, PubEnds, Zenon
<1>6. CASE Capped(s)
  <2>1. s.kind \in FencedKinds
    BY <1>6, Zenon DEF Capped, LeaseInv, RunInv, Running
  <2>2. /\ Finish(s) /\ Answers(s, "idle") /\ UNCHANGED <<serial, watermark, claim, next>>
        /\ job' = IF s.heard THEN [job EXCEPT ![s.by] = NoJob] ELSE job
    BY <1>6, Zenon DEF Capped, notWriter, tables, Quarantine, Goes, Answers
  <2>3. \A v \in Writers : job'[v].uid = job[v].uid \/ (job'[v].uid = 0 /\ pc'[v] = "idle")
    BY <1>0, <2>2 DEF JobInv, LeaseInv, LeaseTypeOK, Answers
  <2> QED BY <2>1, <2>2, <2>3, PubEnds DEF FencedKinds
<1> QED BY <1>1, <1>2, <1>3, <1>4, <1>5, <1>6, PubLands, Zenon DEF LeaseServer, PublishServer

(* A step that concerns no writer and no statement.                          *)
LEMMA PubSame ==
    ASSUME LeaseInv, TableInv, JobInv, PubInv,
           UNCHANGED <<pc, claim, next, flight, serial, watermark>>,
           \A v \in Writers : \/ job'[v].uid = job[v].uid
                              \/ job'[v].uid = 0 /\ pc[v] \in {"idle", "ready"}
    PROVE  PubInv'
<1>1. \A v \in Writers : GoesOnTo(v)' => Fresh(v)
  BY Zenon DEF PubInv, UidInv, GoesOnTo
<1>2. ASSUME NEW v \in Writers, job'[v].uid # job[v].uid
      PROVE  job'[v].uid = 0 /\ ~GoesOnTo(v)' /\ pc'[v] # "published"
  BY <1>2, NothingNext, Zenon DEF GoesOnTo, Unpublished, PubInv
<1>3. ASSUME NEW s \in flight'
      PROVE  Follows(s)
  <2>1. s \in flight /\ s.by \in Writers /\ (s.heard => pc[s.by] = "await")
    BY StatementFields, ListenersWait, Zenon DEF LeaseInv
  <2>2. s.heard => job'[s.by].uid = job[s.by].uid
    BY <2>1, Zenon
  <2> QED BY <2>1, <2>2, Zenon DEF Follows
<1> QED BY <1>1, <1>2, <1>3, PubQuiet, Zenon DEF PubInv, UidInv

(* Every step of the catalog keeps the publish ids apart.                    *)
LEMMA NextPub == LeaseInv /\ CatalogInv /\ PubInv /\ [Next]_vars => PubInv'
<1> SUFFICES ASSUME LeaseInv, CatalogInv, PubInv, [Next]_vars PROVE PubInv'
  BY Zenon
<1>1. conf.writers \subseteq Writers /\ TableInv /\ JobInv /\ LeaseTypeOK /\ NoJob.uid = 0
  BY PublishAssumption DEF LeaseInv, LeaseTypeOK, CatalogInv, NoJob
<1>2. ASSUME NEW w \in Writers, CrashWriter(w)
      PROVE  PubInv'
  <2>1. /\ flight' = Unheard(w) /\ NoClaim(w) /\ Goes(w, "idle") /\ UNCHANGED <<serial, watermark>>
        /\ job' = [job EXCEPT ![w] = NoJob]
    BY <1>2, Zenon DEF CrashWriter, Crash, tables
  <2>2. \A v \in Writers : \/ job'[v].uid = job[v].uid /\ v # w
                           \/ job'[v].uid = 0 /\ pc'[v] \in {"idle", "ready"}
    BY <1>1, <2>1, Zenon DEF JobInv, LeaseTypeOK, Goes
  <2> QED BY <1>1, <2>1, <2>2, PubAbandons
<1>3. ASSUME NEW w \in conf.writers,
             ((LeaseStep(w) \/ GiveUp(w)) /\ OnlyLease) \/ PassStep(w) \/ CrashWriter(w)
      PROVE  PubInv'
  BY <1>1, <1>2, <1>3, LeaseStepPub, PassStepPub, ZenonT(40)
<1>4. CASE Tick /\ OnlyLease
  BY <1>1, <1>4, LeasedUids, PubSame DEF Tick, leaseVars
<1>5. CASE GarbageCollect \/ UNCHANGED vars
  <2>1. UNCHANGED <<pc, claim, next, flight, serial, watermark, job>>
    BY <1>5, Zenon DEF GarbageCollect, GcBegin, GcFirst, GcSecond, GcManifest, GcLeases, GcClaims, gcOthers,
                leaseSide, leaseVars, tables, vars
  <2> QED BY <1>1, <2>1, PubSame
<1> QED BY <1>1, <1>3, <1>4, <1>5, ServerPub, Zenon DEF Next

---------------------------------------------------------------------------
(* A published version admits what it admitted while the manifest rows that  *)
(* stand stay.                                                               *)
LEMMA LogStays ==
    ASSUME watermark' = watermark,
           \A m \in manifest \cup manifest' :
              Stands(m.version, m.pub) => m \in manifest /\ m \in manifest'
    PROVE  ReaderLog' = ReaderLog
<1> DEFINE Now(v) == {m.pack : m \in {x \in manifest' :
                        x.version = v /\ [version |-> v, pub |-> x.pub] \in watermark'}}
           Versions == {r.version : r \in watermark}
<1>1. ASSUME NEW v
      PROVE  Now(v) = Admitted(v)
  BY Zenon DEF Admitted, Stands
<1>2. ReaderLog' = [v \in Versions |-> Now(v)]
  BY Zenon DEF ReaderLog, Admitted
<1>3. ReaderLog = [v \in Versions |-> Admitted(v)]
  BY Zenon DEF ReaderLog, Admitted
<1> HIDE DEF Now
<1> QED BY <1>1, <1>2, <1>3, Zenon

(* A landed watermark row adds the newest version.                           *)
LEMMA LogGrows ==
    ASSUME LeaseInv, CatalogInv, NEW s \in flight, WatermarkLands(s)
    PROVE  Log!Publish
<1> DEFINE r == [version |-> s.version, pub |-> s.pub]
           Versions == {q.version : q \in watermark}
<1>1. /\ s \in Running /\ watermark' = watermark \cup {r} /\ r.version = s.version
      /\ manifest' = manifest /\ s.kind = "watermark"
  BY Zenon DEF WatermarkLands, Running, notWriter
<1>2. /\ PublishedHead \in Nat /\ s.version \in Nat /\ PublishedHead < s.version
      /\ \A v \in Versions : v \in Nat /\ v <= PublishedHead /\ v # s.version
      /\ Versions # {} => PublishedHead \in Versions
  BY <1>1 DEF CatalogInv, TableInv, IsTop, WatermarkInv
<1> HIDE DEF r
<1>3. /\ DOMAIN ReaderLog = Versions /\ DOMAIN ReaderLog' = Versions \cup {s.version}
      /\ ReaderLog' = [u \in DOMAIN ReaderLog' |-> ReaderLog'[u]]
  BY <1>1, Zenon DEF ReaderLog, Admitted
<1>4. s.version > Log!Newest
  <2>1. CASE Versions = {}
    BY <1>2, <1>3, <2>1 DEF Log!Newest
  <2>2. CASE Versions # {}
    <3>1. \E v \in Versions : \A u \in Versions : u <= v
      BY <1>2, <2>2, Zenon
    <3>2. Log!Newest \in Versions
      BY <1>3, <2>2, <3>1, Zenon DEF Log!Newest
    <3> QED BY <1>2, <3>2
  <2> QED BY <2>1, <2>2, Zenon
<1>5. ASSUME NEW v \in Versions
      PROVE  ReaderLog'[v] = ReaderLog[v]
  <2>1. Admitted(v)' = Admitted(v)
    BY <1>1, <1>2, Zenon DEF Admitted, r
  <2>2. ReaderLog[v] = Admitted(v)
    BY Zenon DEF ReaderLog, Admitted
  <2>3. ReaderLog'[v] = Admitted(v)'
    BY <1>1, Zenon DEF ReaderLog, Admitted
  <2> QED BY <2>1, <2>2, <2>3, Zenon
<1>6. ReaderLog' = [u \in DOMAIN ReaderLog \cup {s.version} |->
                      IF u = s.version THEN ReaderLog'[s.version] ELSE ReaderLog[u]]
  BY <1>2, <1>3, <1>5, Zenon
<1>7. Log!Add(s.version, ReaderLog'[s.version])
  BY <1>4, <1>6, Zenon DEF Log!Add
<1> QED BY <1>3, <1>7, Zenon DEF Log!Publish

(* Every step leaves the readers' log alone or publishes to it.              *)
LEMMA NextLog ==
    LeaseInv /\ CatalogInv /\ PubInv /\ [Next]_vars => [Log!Publish]_ReaderLog
<1> SUFFICES ASSUME LeaseInv, CatalogInv, PubInv, [Next]_vars
             PROVE  Log!Publish \/ ReaderLog' = ReaderLog
  BY Zenon
<1>1. CASE UNCHANGED <<manifest, watermark>>
  BY <1>1, LogStays, Zenon
<1>2. CASE GcManifest
  <2>1. /\ watermark' = watermark
        /\ manifest' = {m \in manifest : [version |-> m.version, pub |-> m.pub] \notin gc.orphans}
    BY <1>2, Zenon DEF GcManifest, gcOthers
  <2>2. \A o \in gc.orphans : o \notin watermark
    BY Zenon DEF CatalogInv, OrphanInv
  <2>3. \A m \in manifest \cup manifest' :
           Stands(m.version, m.pub) => m \in manifest /\ m \in manifest'
    BY <2>1, <2>2, Zenon DEF Stands
  <2> QED BY <2>1, <2>3, LogStays
<1>3. ASSUME NEW s \in flight, ManifestLands(s)
      PROVE  ReaderLog' = ReaderLog
  <2> DEFINE new == {[version |-> s.version, pub |-> s.pub, pack |-> p] : p \in s.packs}
  <2>1. watermark' = watermark /\ manifest' = manifest \cup new /\ s.kind = "manifest"
    BY <1>3, Zenon DEF ManifestLands
  <2>2. \A r \in watermark : r.pub # s.pub
    BY <2>1 DEF PubInv, SentPubInv
  <2>3. \A m \in new : ~Stands(m.version, m.pub)
    BY <2>2 DEF Stands
  <2> HIDE DEF new
  <2>4. \A m \in manifest \cup manifest' :
           Stands(m.version, m.pub) => m \in manifest /\ m \in manifest'
    BY <2>1, <2>3, ZenonT(40)
  <2> QED BY <2>1, <2>4, LogStays, Zenon
<1>4. ASSUME NEW w, ((LeaseStep(w) \/ GiveUp(w)) /\ OnlyLease) \/ PassStep(w) \/ CrashWriter(w)
      PROVE  UNCHANGED <<manifest, watermark>>
  BY <1>4 DEF OnlyLease, PassStep, Commit, AllocateRead, AllocateInsert, AllocateReadBack,
              RenewForPublish, ManifestSend, CountChunk, WatermarkSend, Published, ReadFails,
              CrashWriter, tables
<1>5. ASSUME NEW s, (LeaseServer(s) /\ OnlyLease) \/ Start(s) \/ InventoryLands(s) \/ Capped(s)
      PROVE  UNCHANGED <<manifest, watermark>>
  BY <1>5, Zenon DEF OnlyLease, Start, InventoryLands, Capped, tables
<1>6. CASE GcBegin \/ GcFirst \/ GcSecond \/ GcLeases \/ GcClaims \/ (Tick /\ OnlyLease) \/ UNCHANGED vars
  BY <1>1, <1>6 DEF GcBegin, GcFirst, GcSecond, GcLeases, GcClaims, gcOthers, OnlyLease, tables, vars
<1> QED BY <1>1, <1>2, <1>3, <1>4, <1>5, <1>6, LogGrows, Zenon DEF Next, PublishServer, GarbageCollect
=============================================================================
