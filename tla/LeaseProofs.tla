---------------------------- MODULE LeaseProofs -----------------------------
(***************************************************************************)
(* The lease invariant of LeaseInvariant is kept by every kind of step: a   *)
(* writer that goes on by itself, sends, reads back or gives up; a          *)
(* statement that starts or ends; time; the collector; and a claim or a     *)
(* release that lands.                                                      *)
(***************************************************************************)
EXTENDS LeaseInvariant, TLAPS

(* Max is the element above all others.                                     *)
LEMMA MaxIs ==
    ASSUME NEW S \in SUBSET Int, NEW m \in S, \A x \in S : x <= m
    PROVE  Max(S) = m
<1>1. \A x \in S : (\A y \in S : x >= y) => x = m
  OBVIOUS
<1>2. \A y \in S : m >= y
  BY Zenon
<1>3. PICK x \in S : x = Max(S) /\ \A y \in S : x >= y
  BY <1>2, Zenon DEF Max
<1> QED BY <1>1, <1>3, Zenon

(* The configuration's times are numbers, and a statement is capped.        *)
LEMMA Times ==
    ASSUME LeaseTypeOK
    PROVE  Skew \in Nat /\ TTL \in Nat /\ PublishTimeout \in Nat \ {0}
BY LeaseAssumption, Zenon DEF LeaseTypeOK, ValidLease, Skew, TTL, PublishTimeout

(* What is said of the head stays true while rows do.                       *)
LEMMA SameHead ==
    ASSUME rows' = rows
    PROVE  HeadTerm' = HeadTerm /\ HeadRows' = HeadRows /\ HeadIds' = HeadIds
BY Zenon DEF HeadTerm, HeadRows, HeadIds

(* Nothing is claimed under an id outside Ids, NoLease's in particular.      *)
LEMMA HeadIdsAreIds ==
    ASSUME LeaseTypeOK
    PROVE  HeadIds \subseteq Ids
BY Zenon DEF LeaseTypeOK, HeadIds, HeadRows

(* The fields of a statement in flight.                                      *)
LEMMA StatementFields ==
    ASSUME LeaseTypeOK, OwnerInv, NEW s \in flight
    PROVE  /\ s.kind \in Kinds /\ s.by \in Writers /\ s.term \in Nat /\ s.ends \in Nat
           /\ s.heard \in BOOLEAN /\ (s.kind # "inventory" => s.id \in Ids)
<1>1. IsStatement(s)
  BY Zenon DEF LeaseTypeOK
<1>2. s.kind # "inventory" => s.id \in Ids
  BY Zenon DEF OwnerInv, LeaseTypeOK
<1> QED BY <1>1, <1>2, Zenon DEF IsStatement

(* Who listens to a statement waits for it.                                  *)
LEMMA ListenersWait ==
    ASSUME SentInv, NEW s \in flight, s.heard
    PROVE  pc[s.by] = "await"
BY Zenon DEF SentInv

(* NoLease is no lease.                                                      *)
LEMMA NoLeaseIsNone ==
    NoLease \notin Lease /\ NoLease.id \notin Ids /\ NoLease.term = 0 /\ NoLease.id = -1
BY LeaseAssumption DEF NoLease, Lease

(* A writer going on by itself preserves the invariant.                     *)
LEMMA LocalKeeps ==
    ASSUME LeaseInv, NEW w \in Writers, LocalStep(w)
    PROVE  LeaseKept
<1> USE DEF LeaseInv
<1>1. HeadTerm' = HeadTerm /\ HeadRows' = HeadRows /\ HeadIds' = HeadIds
  BY SameHead, Zenon DEF LocalStep
<1>2. now' = now /\ flight' = flight /\ rows' = rows /\ used' = used /\ conf' = conf
  BY Zenon DEF LocalStep
<1>3. Claims' = Claims /\ Releases' = Releases /\ FencedOnes' = FencedOnes /\ Running' = Running
  BY <1>2, Zenon DEF Claims, Releases, FencedOnes, Running
<1>4. \A v \in Writers : /\ held'[v] \in {held[v], NoLease} /\ claim'[v] \in {claim[v], NoLease}
                         /\ v # w => pc'[v] = pc[v] /\ claim'[v] = claim[v] /\ held'[v] = held[v]
  BY Zenon DEF LocalStep, LeaseTypeOK
<1>5. /\ pc'[w] \in Steps \ ({"await", "readback"} \cup FencedKinds) /\ claim'[w] = NoLease
      /\ pc'[w] \in Working => Holds(w) /\ held'[w] = held[w]
      /\ held'[w] = NoLease \/ claim[w] = NoLease
  BY Zenon DEF LocalStep, LeaseTypeOK
<1>6. Skew' = Skew
  BY <1>2, Zenon DEF Skew
<1>7. \A i \in Ids : Established(i)' => Established(i)
  BY <1>1, <1>3, <1>4, NoLeaseIsNone DEF Established
<1>8. \A s \in flight : s.by \in Writers /\ (s.heard => s.by # w) /\ (s.kind # "inventory" => s.id \in Ids)
  BY StatementFields, ListenersWait, Zenon DEF LocalStep
<1>a. LeaseTypeOK'
  BY DEF LocalStep, LeaseTypeOK, IsStatement
<1>b. HeadInv'
  BY <1>1, <1>2, Zenon DEF HeadInv
<1>c. OwnerInv'
  BY <1>2, <1>4, NoLeaseIsNone DEF OwnerInv, Has, Holds
<1>d. WriterInv'
  BY <1>1, <1>3, <1>4, <1>5 DEF WriterInv, Holds
<1>e. SentInv'
  BY <1>2, <1>4, <1>8, NoLeaseIsNone DEF SentInv, Has, Holds, FencedKinds
<1>f. OneEachInv'
  BY <1>3, Zenon DEF OneEachInv
<1>g. ReleaseInv'
  BY <1>1, <1>3, <1>4, <1>5, NoLeaseIsNone DEF ReleaseInv, Releases, OwnerInv, LeaseTypeOK
<1>h. RowInv'
  BY <1>2, <1>4, <1>5, NoLeaseIsNone DEF RowInv, Holds, LeaseTypeOK
<1>i. ClaimInv'
  BY <1>1, <1>2, <1>3, <1>6, <1>7, HeadIdsAreIds, Zenon DEF ClaimInv, Expired
<1>j. SoleInv'
  BY <1>1, <1>7, HeadIdsAreIds, Zenon DEF SoleInv
<1>k. RunInv'
  BY <1>1, <1>2, <1>3, <1>6, Zenon DEF RunInv, LivesPast
<1>l. HeadTerm <= HeadTerm'
  BY <1>1 DEF HeadInv
<1> QED BY <1>a, <1>b, <1>c, <1>d, <1>e, <1>f, <1>g, <1>h, <1>i, <1>j, <1>k, <1>l, Zenon DEF LeaseKept

(* The sender of a claim or a fenced statement it listens to has its id.     *)
LEMMA SenderHasId ==
    ASSUME LeaseInv, NEW s \in flight, s.heard, s.kind \in FencedKinds \cup {"claim"}
    PROVE  Has(s.by, s.id)
<1>1. CASE s.kind = "claim"
  <2>1. claim[s.by] = [term |-> s.term, id |-> s.id]
    BY <1>1, Zenon DEF LeaseInv, SentInv
  <2> QED BY <2>1 DEF Has
<1>2. CASE s.kind \in FencedKinds
  BY <1>2, Zenon DEF LeaseInv, SentInv, Has
<1> QED BY <1>1, <1>2, Zenon

(* A writer that waits for nothing has no claim or fenced statement in       *)
(* flight under the id it holds.                                             *)
LEMMA NothingElseInFlight ==
    ASSUME LeaseInv, NEW w \in Writers, Holds(w), pc[w] # "await"
    PROVE  \A s \in Claims \cup FencedOnes : s.id # held[w].id
<1> SUFFICES ASSUME NEW s \in Claims \cup FencedOnes, s.id = held[w].id
             PROVE  FALSE
  BY Zenon
<1>1. s \in flight /\ s.kind \in FencedKinds \cup {"claim"}
  BY Zenon DEF Claims, FencedOnes
<1>2. s.by \in Writers /\ s.id \in Ids /\ s.heard \in BOOLEAN
  BY <1>1, StatementFields, Zenon DEF LeaseInv, FencedKinds
<1>3. s.heard
  BY <1>1, <1>2, Zenon DEF LeaseInv, SentInv, Has
<1>4. Has(s.by, s.id)
  BY <1>1, <1>3, SenderHasId, Zenon
<1>5. s.by = w
  BY <1>2, <1>4, Zenon DEF LeaseInv, OwnerInv, Has
<1> QED BY <1>1, <1>3, <1>5, ListenersWait, Zenon DEF LeaseInv

(* Sending a claim preserves the invariant.                                  *)
LEMMA SendClaimKeeps ==
    ASSUME LeaseInv, NEW w \in Writers, NEW i \in Ids, SendClaim(w, i)
    PROVE  LeaseKept
<1> USE DEF LeaseInv
<1> DEFINE lease == [term |-> HeadTerm + 1, id |-> i]
           c == LeaseStatement("claim", w, lease)
<1>1. HeadTerm' = HeadTerm /\ HeadRows' = HeadRows /\ HeadIds' = HeadIds
  BY SameHead, Zenon DEF SendClaim
<1>2. now' = now /\ rows' = rows /\ conf' = conf /\ held' = held
  BY Zenon DEF SendClaim
<1>3. /\ c.kind = "claim" /\ c.by = w /\ c.term = HeadTerm + 1 /\ c.id = i /\ c.heard /\ c.ends = 0
      /\ IsStatement(c)
  BY DEF LeaseStatement, Statement, IsStatement, HeadInv, Kinds
<1>4. flight' = flight \cup {c} /\ used' = used \cup {i}
  BY Zenon DEF SendClaim
<1>5. lease \in Lease /\ lease # NoLease /\ lease.term = HeadTerm + 1 /\ lease.id = i
  BY NoLeaseIsNone DEF HeadInv, Lease
<1>6. /\ pc[w] # "await" /\ claim[w] = NoLease /\ claim'[w] = lease /\ pc'[w] = "await"
      /\ \A v \in Writers : v # w => pc'[v] = pc[v] /\ claim'[v] = claim[v]
  BY Zenon DEF SendClaim, LeaseTypeOK
<1>7. Claims' = Claims \cup {c} /\ Releases' = Releases /\ FencedOnes' = FencedOnes /\ Running' = Running
  BY <1>3, <1>4, Zenon DEF Claims, Releases, FencedOnes, Running, FencedKinds
<1>8. \A v \in Writers : Has(v, i) => v = w
  BY DEF SendClaim, OwnerInv, Has, LeaseTypeOK, Holds
<1>9. \A s \in flight : s.by \in Writers /\ (s.heard => s.by # w) /\ (s.kind # "inventory" => s.id \in Ids)
  BY StatementFields, ListenersWait, Zenon DEF SendClaim
<1>10. \A s \in Claims \cup FencedOnes : s.id # i
  <2>1. CASE Holds(w)
    BY <2>1, NothingElseInFlight, Zenon DEF SendClaim
  <2>2. CASE ~Holds(w)
    BY <2>2, Zenon DEF SendClaim, OwnerInv, Claims, FencedOnes, FencedKinds
  <2> QED BY <2>1, <2>2, Zenon
<1>11. Skew' = Skew /\ \A j \in Ids : Established(j)' = Established(j)
  BY <1>1, <1>2, <1>7, Zenon DEF Skew, Established
<1>a. LeaseTypeOK'
  BY <1>3, <1>4, <1>5 DEF SendClaim, LeaseTypeOK, IsStatement, Steps
<1>b. HeadInv'
  BY <1>1, <1>2, Zenon DEF HeadInv
<1>c. OwnerInv'
  BY <1>2, <1>3, <1>4, <1>5, <1>6, <1>8, NoLeaseIsNone DEF OwnerInv, Has, Holds
<1>d. WriterInv'
  BY <1>1, <1>2, <1>3, <1>5, <1>6, <1>7 DEF WriterInv, Holds, HeadInv, LeaseTypeOK, Lease, Working, FencedKinds
<1>e. SentInv'
  <2>1. \A s \in flight : ~s.heard /\ s.kind \in FencedKinds \cup {"claim"} => s.id # i
    BY <1>10, Zenon DEF Claims, FencedOnes
  <2>2. \A s \in flight :
           s.heard => pc'[s.by] = "await" /\ claim'[s.by] = claim[s.by] /\ held'[s.by] = held[s.by]
    <3> SUFFICES ASSUME NEW s \in flight, s.heard
                 PROVE  pc'[s.by] = "await" /\ claim'[s.by] = claim[s.by] /\ held'[s.by] = held[s.by]
      BY Zenon
    <3>1. pc[s.by] = "await"
      BY ListenersWait, Zenon
    <3> QED BY <3>1, <1>2, <1>6, <1>9, Zenon
  <2>4. \A s \in flight : ~s.heard /\ s.kind \in FencedKinds \cup {"claim"} =>
           \A v \in Writers : held'[v].id # s.id /\ claim'[v].id # s.id
    <3> SUFFICES ASSUME NEW s \in flight, ~s.heard, s.kind \in FencedKinds \cup {"claim"},
                        NEW v \in Writers
                 PROVE  held'[v].id # s.id /\ claim'[v].id # s.id
      BY Zenon
    <3>1. held[v].id # s.id /\ claim[v].id # s.id
      BY Zenon DEF SentInv, Has
    <3> QED BY <3>1, <2>1, <1>2, <1>5, <1>6, Zenon
  <2>3. \A s \in flight : s # c /\ s.heard => s.by # w
    BY <1>9, Zenon
  <2> QED BY <2>2, <2>3, <2>4, <1>3, <1>4, <1>6, <1>9 DEF SentInv, Has, Holds, FencedKinds
<1>f. OneEachInv'
  BY <1>3, <1>7, <1>10 DEF OneEachInv
<1>g. ReleaseInv'
  BY <1>1, <1>2, <1>5, <1>6, <1>7 DEF ReleaseInv, FencedKinds, HeadInv, LeaseTypeOK
<1>h. RowInv'
  BY <1>2, <1>5, <1>6 DEF RowInv, Holds, LeaseTypeOK, HeadInv
<1>i. ClaimInv'
  <2>1. \A j \in HeadIds : j = i \/ Expired(j)
    <3>1. PICK t \in Clock : ~RejectLive(i, t)
      BY Zenon DEF SendClaim
    <3>2. t \in Nat /\ t <= now + Skew
      BY Times DEF Clock, LeaseTypeOK
    <3>3. \A r \in HeadRows : r.exp \in Nat
      BY Zenon DEF HeadRows, LeaseTypeOK
    <3> QED BY <3>1, <3>2, <3>3, Times DEF RejectLive, LivesPast, Expired, LeaseTypeOK
  <2>2. \A j : Expired(j)' = Expired(j)
    BY <1>1, <1>2, <1>11, Zenon DEF Expired
  <2> QED BY <2>1, <2>2, <1>1, <1>3, <1>7, <1>11, HeadIdsAreIds DEF ClaimInv, HeadInv
<1>j. SoleInv'
  BY <1>1, <1>11, HeadIdsAreIds, Zenon DEF SoleInv
<1>k. RunInv'
  BY <1>1, <1>2, <1>7, <1>11, Zenon DEF RunInv, LivesPast
<1>l. HeadTerm <= HeadTerm'
  BY <1>1 DEF HeadInv
<1> QED BY <1>a, <1>b, <1>c, <1>d, <1>e, <1>f, <1>g, <1>h, <1>i, <1>j, <1>k, <1>l, Zenon DEF LeaseKept

(* Sending a release, a fenced statement or an inventory row preserves the   *)
(* invariant.                                                                *)
LEMMA SendOtherKeeps ==
    ASSUME LeaseInv, NEW w \in Writers, NEW c, SendOther(w, c)
    PROVE  LeaseKept
<1> USE DEF LeaseInv
<1>1. HeadTerm' = HeadTerm /\ HeadRows' = HeadRows /\ HeadIds' = HeadIds
  BY SameHead, Zenon DEF SendOther
<1>2. /\ now' = now /\ rows' = rows /\ conf' = conf /\ held' = held /\ claim' = claim
      /\ used' = used /\ next' = next /\ flight' = flight \cup {c}
  BY Zenon DEF SendOther
<1>3. IsStatement(c) /\ c.by = w /\ c.heard /\ c.ends = 0 /\ c.kind # "claim" /\ claim[w] = NoLease
  BY Zenon DEF SendOther, FencedKinds
<1>4. /\ pc[w] # "await" /\ pc'[w] = "await" /\ \A v \in Writers : v # w => pc'[v] = pc[v]
  BY Zenon DEF SendOther, LeaseTypeOK
<1>5. c.kind \in FencedKinds => Holds(w) /\ c.id = held[w].id /\ pc[w] \in FencedKinds
  BY Zenon DEF SendOther, WriterInv, Working, FencedKinds
<1>6. c.kind = "release" => Holds(w) /\ c.id = held[w].id /\ c.term = held[w].term
                            /\ held[w] = [term |-> c.term, id |-> c.id]
  BY DEF SendOther, FencedKinds
<1>7. /\ Claims' = Claims /\ Running' = Running
      /\ Releases' = IF c.kind = "release" THEN Releases \cup {c} ELSE Releases
      /\ FencedOnes' = IF c.kind \in FencedKinds THEN FencedOnes \cup {c} ELSE FencedOnes
  BY <1>2, <1>3 DEF Claims, Releases, FencedOnes, Running
<1>8. \A s \in flight : s.by \in Writers /\ (s.heard => s.by # w)
  BY StatementFields, ListenersWait, <1>4, Zenon
<1>9. Holds(w) => /\ held[w].id \in Ids /\ held[w].id \in used /\ held[w].term \in 1 .. HeadTerm
                  /\ \A s \in Claims \cup FencedOnes : s.id # held[w].id
  BY <1>4, NothingElseInFlight DEF OwnerInv, WriterInv, LeaseTypeOK, Lease, Holds, HeadInv
<1>10. Skew' = Skew /\ \A i \in HeadIds : Established(i)' => Established(i)
  <2>1. Skew' = Skew
    BY <1>2, Zenon DEF Skew
  <2> SUFFICES ASSUME NEW i \in HeadIds, c.kind \in FencedKinds, i = c.id
               PROVE  Established(i)
    BY <2>1, <1>1, <1>2, <1>7, Zenon DEF Established
  <2>2. PICK r \in rows : r.id = i /\ r.term = HeadTerm
    BY Zenon DEF HeadIds, HeadRows
  <2>3. HeadTerm <= held[w].term
    BY <2>2, <1>3, <1>5, Zenon DEF RowInv
  <2>4. held[w].term = HeadTerm
    BY <2>3, <1>5, <1>9 DEF HeadInv
  <2>5. held[w] = [term |-> HeadTerm, id |-> i]
    BY <2>4, <1>5, Zenon DEF LeaseTypeOK, Lease, Holds
  <2> QED BY <2>5, Zenon DEF Established
<1>a. LeaseTypeOK'
  BY <1>2, <1>3, Zenon DEF SendOther, LeaseTypeOK, IsStatement, Steps
<1>b. HeadInv'
  BY <1>1, <1>2, Zenon DEF HeadInv
<1>c. OwnerInv'
  <2>1. c.kind # "inventory" => c.id \in used
    BY <1>5, <1>6, <1>9, ZenonT(40) DEF SendOther
  <2> QED BY <2>1, <1>2, ZenonT(40) DEF OwnerInv, Has, Holds
<1>d. WriterInv'
  BY <1>1, <1>2, <1>3, <1>4, <1>7, SMTT(20) DEF WriterInv, Holds, Working, FencedKinds
<1>e. SentInv'
  <2>1. \A s \in flight : s.heard => pc'[s.by] = "await" /\ s # c
    BY <1>3, <1>4, <1>8, ListenersWait, Zenon
  <2>2. \A s, t \in flight' : s.heard /\ t.heard /\ s.by = t.by => s = t
    BY <1>2, <1>3, <1>8 DEF SentInv
  <2>3. \A s \in flight' :
          /\ s.heard => pc'[s.by] = "await"
          /\ s.heard /\ s.kind = "claim" => claim[s.by] = [term |-> s.term, id |-> s.id]
          /\ s.heard /\ s.kind # "claim" => claim[s.by] = NoLease
          /\ s.heard /\ s.kind = "release" => held[s.by] = [term |-> s.term, id |-> s.id]
          /\ s.heard /\ s.kind \in FencedKinds => Holds(s.by) /\ held[s.by].id = s.id
    BY <2>1, <1>2, <1>3, <1>4, <1>5, <1>6, ZenonT(40) DEF SentInv
  <2> QED BY <2>2, <2>3, <1>2, <1>3 DEF SentInv, Has, Holds
<1>f. OneEachInv'
  BY <1>5, <1>7, <1>9 DEF OneEachInv
<1>g. ReleaseInv'
  <2>1. \A s \in Releases' : s.term \in 1 .. HeadTerm
    BY <1>6, <1>7, <1>9, Zenon DEF ReleaseInv
  <2>2. \A s \in Releases' : \A v \in Writers :
             /\ claim[v].id = s.id => s.term < claim[v].term
             /\ held[v].id = s.id => s.term <= held[v].term
             /\ held[v].id = s.id /\ pc'[v] \in FencedKinds => s.term < held[v].term
    <3>1. CASE c.kind = "release"
      <4>1. \A v \in Writers : held[v].id = c.id \/ claim[v].id = c.id => v = w
        BY <3>1, <1>6, <1>9, Zenon DEF OwnerInv, Has
      <4>2. c.term \in Nat /\ held[w].term = c.term /\ claim[w].id # c.id /\ pc'[w] \notin FencedKinds
        BY <3>1, <1>3, <1>4, <1>6, <1>9, NoLeaseIsNone DEF FencedKinds
      <4>3. \A s \in Releases : \A v \in Writers : pc'[v] \in FencedKinds => pc[v] \in FencedKinds
        BY <1>4, Zenon DEF FencedKinds
      <4> QED BY <3>1, <4>1, <4>2, <4>3, <1>7 DEF ReleaseInv
    <3>2. CASE c.kind # "release"
      BY <3>2, <1>4, <1>7, Zenon DEF ReleaseInv, FencedKinds
    <3> QED BY <3>1, <3>2, Zenon
  <2>3. \A s \in Releases' : \A t \in FencedOnes' : t.id = s.id => s.term < HeadTerm
    BY <1>5, <1>6, <1>7, <1>9 DEF ReleaseInv, HeadInv, FencedKinds
  <2> QED BY <2>1, <2>2, <2>3, <1>1, <1>2, Zenon DEF ReleaseInv
<1>h. RowInv'
  BY <1>2, Zenon DEF RowInv, Holds
<1>i. ClaimInv'
  BY <1>1, <1>2, <1>7, <1>10, Zenon DEF ClaimInv, Expired
<1>j. SoleInv'
  BY <1>1, <1>10, Zenon DEF SoleInv
<1>k. RunInv'
  BY <1>1, <1>2, <1>7, <1>10, Zenon DEF RunInv, LivesPast
<1>l. HeadTerm <= HeadTerm'
  BY <1>1 DEF HeadInv
<1> QED BY <1>a, <1>b, <1>c, <1>d, <1>e, <1>f, <1>g, <1>h, <1>i, <1>j, <1>k, <1>l, Zenon DEF LeaseKept

(* A claim read back as the only one of its term preserves the invariant.    *)
LEMMA ReadBackKeeps ==
    ASSUME LeaseInv, NEW w \in Writers, ReadBackOk(w)
    PROVE  LeaseKept
<1> USE DEF LeaseInv
<1>1. HeadTerm' = HeadTerm /\ HeadRows' = HeadRows /\ HeadIds' = HeadIds
  BY SameHead, Zenon DEF ReadBackOk
<1>2. now' = now /\ flight' = flight /\ rows' = rows /\ used' = used /\ conf' = conf
  BY Zenon DEF ReadBackOk
<1>3. Claims' = Claims /\ Releases' = Releases /\ FencedOnes' = FencedOnes /\ Running' = Running
  BY <1>2, Zenon DEF Claims, Releases, FencedOnes, Running
<1>4. /\ held'[w] = claim[w] /\ claim'[w] = NoLease /\ pc'[w] \in {"ready"} \cup FencedKinds
      /\ pc[w] = "readback"
      /\ \A v \in Writers : v # w => pc'[v] = pc[v] /\ claim'[v] = claim[v] /\ held'[v] = held[v]
  BY Zenon DEF ReadBackOk, LeaseTypeOK
<1>5. PICK r \in rows : r.id = claim[w].id /\ r.term = claim[w].term
  BY Zenon DEF ReadBackOk
<1>6. claim[w] \in Lease /\ claim[w].id \in Ids /\ claim[w].term \in 1 .. HeadTerm
  BY <1>5, NoLeaseIsNone DEF LeaseTypeOK, Lease, HeadInv
<1>7. claim[w] # NoLease
  BY <1>6, NoLeaseIsNone, Zenon
<1>8. claim[w].term = HeadTerm => HeadIds = {claim[w].id}
  BY SMTT(20) DEF ReadBackOk, HeadIds, HeadRows
<1>9. Skew' = Skew /\ \A i \in HeadIds : Established(i)' => Established(i) \/ HeadIds = {i}
  <2>1. \A i \in HeadIds : held'[w] = [term |-> HeadTerm, id |-> i] => HeadIds = {i}
    BY <1>4, <1>8
  <2>2. Skew' = Skew
    BY <1>2, Zenon DEF Skew
  <2> SUFFICES ASSUME NEW i \in HeadIds, Established(i)', HeadIds # {i}
               PROVE  Established(i)
    BY <2>2, Zenon
  <2>3. CASE \E s \in FencedOnes : s.id = i
    BY <2>3, Zenon DEF Established
  <2>4. CASE \E v \in Writers : held'[v] = [term |-> HeadTerm, id |-> i]
    <3>1. PICK v \in Writers : held'[v] = [term |-> HeadTerm, id |-> i]
      BY <2>4, Zenon
    <3>2. v # w
      BY <3>1, <2>1, Zenon
    <3>3. held[v] = [term |-> HeadTerm, id |-> i]
      BY <3>1, <3>2, <1>4, Zenon
    <3> QED BY <3>3, Zenon DEF Established
  <2> QED BY <2>3, <2>4, <1>1, <1>3, Zenon DEF Established
<1>10. \A s \in flight : s.by \in Writers /\ (s.heard => s.by # w)
  BY StatementFields, ListenersWait, <1>4, Zenon
<1>11. \A v \in Writers : \A i \in Ids : Has(v, i)' => Has(v, i)
  BY <1>4, NoLeaseIsNone, Zenon DEF Has
<1>a. LeaseTypeOK'
  BY <1>6, Zenon DEF ReadBackOk, LeaseTypeOK, IsStatement, Steps, Working, FencedKinds
<1>b. HeadInv'
  BY <1>1, <1>2, Zenon DEF HeadInv
<1>c. OwnerInv'
  BY <1>2, <1>4, <1>7, <1>11, Zenon DEF OwnerInv, Holds
<1>d. WriterInv'
  <2> SUFFICES ASSUME NEW v \in Writers
               PROVE  /\ claim'[v] # NoLease /\ held'[v] # NoLease => held'[v].term < claim'[v].term
                      /\ held'[v] # NoLease => held'[v].term <= HeadTerm
                      /\ held'[v] # NoLease /\ held'[v].term = HeadTerm => held'[v].id \in HeadIds
                      /\ pc'[v] \in Working => held'[v] # NoLease
                      /\ claim'[v] # NoLease => pc'[v] \in {"await", "readback"}
                      /\ claim'[v] # NoLease /\ pc'[v] = "await" => \E s \in Claims : s.by = v /\ s.heard
    BY <1>1, <1>3, Zenon DEF WriterInv, Holds
  <2>1. CASE v = w
    BY <2>1, <1>4, <1>6, <1>7, <1>8
  <2>2. CASE v # w
    BY <2>2, <1>4 DEF WriterInv, Holds
  <2> QED BY <2>1, <2>2, Zenon
<1>e. SentInv'
  <2>1. \A s \in flight : s.heard =>
           pc'[s.by] = pc[s.by] /\ claim'[s.by] = claim[s.by] /\ held'[s.by] = held[s.by]
    BY <1>4, <1>10, Zenon
  <2>2. \A s \in flight : s.kind \in FencedKinds \cup {"claim"} => s.id \in Ids
    BY StatementFields, Zenon DEF FencedKinds
  <2>3. \A s, t \in flight' : s.heard /\ t.heard /\ s.by = t.by => s = t
    BY <1>2, Zenon DEF SentInv
  <2> SUFFICES ASSUME NEW s \in flight
               PROVE  /\ s.heard => pc'[s.by] = "await"
                      /\ s.heard /\ s.kind = "claim" => claim'[s.by] = [term |-> s.term, id |-> s.id]
                      /\ s.heard /\ s.kind # "claim" => claim'[s.by] = NoLease
                      /\ s.heard /\ s.kind = "release" => held'[s.by] = [term |-> s.term, id |-> s.id]
                      /\ s.heard /\ s.kind \in FencedKinds => Holds(s.by)' /\ held'[s.by].id = s.id
                      /\ ~s.heard /\ s.kind \in FencedKinds \cup {"claim"} =>
                            \A v \in Writers : ~Has(v, s.id)'
    BY <2>3, <1>2, Zenon DEF SentInv
  <2>4. CASE s.heard
    BY <2>4, <2>1 DEF SentInv, Holds
  <2>5. CASE ~s.heard
    BY <2>5, <2>2, <1>11, Zenon DEF SentInv
  <2> QED BY <2>4, <2>5, Zenon
<1>f. OneEachInv'
  BY <1>3, Zenon DEF OneEachInv
<1>g. ReleaseInv'
  <2>1. \A s \in Releases : s.id \in Ids /\ s.term \in Nat
    BY StatementFields, Zenon DEF Releases
  <2> QED BY <2>1, <1>1, <1>3, <1>4, <1>6, NoLeaseIsNone DEF ReleaseInv
<1>h. RowInv'
  BY <1>2, <1>4, <1>7, NoLeaseIsNone DEF RowInv, Holds, LeaseTypeOK
<1>i. ClaimInv'
  BY <1>1, <1>2, <1>3, <1>9, Zenon DEF ClaimInv, Expired
<1>j. SoleInv'
  BY <1>1, <1>9, Zenon DEF SoleInv
<1>k. RunInv'
  BY <1>1, <1>2, <1>3, <1>9, Zenon DEF RunInv, LivesPast
<1>l. HeadTerm <= HeadTerm'
  BY <1>1 DEF HeadInv
<1> QED BY <1>a, <1>b, <1>c, <1>d, <1>e, <1>f, <1>g, <1>h, <1>i, <1>j, <1>k, <1>l, Zenon DEF LeaseKept

(* The end of a statement that writes no lease row preserves the invariant.  *)
LEMMA EndKeeps ==
    ASSUME LeaseInv, NEW s \in flight, EndStep(s)
    PROVE  LeaseKept
<1> USE DEF LeaseInv
<1>1. HeadTerm' = HeadTerm /\ HeadRows' = HeadRows /\ HeadIds' = HeadIds
  BY SameHead, Zenon DEF EndStep
<1>2. /\ now' = now /\ rows' = rows /\ conf' = conf /\ claim' = claim
      /\ used' = used /\ next' = next /\ flight' = flight \ {s} /\ Skew' = Skew
  BY Zenon DEF EndStep, Skew
<1>3. s.by \in Writers
  BY StatementFields, Zenon
<1>4. /\ Claims' = Claims /\ Releases' = Releases /\ FencedOnes' = FencedOnes \ {s}
      /\ Running' = Running \ {s}
  BY <1>2, Zenon DEF EndStep, Claims, Releases, FencedOnes, Running
<1>5. \A v \in Writers :
        /\ held'[v] \in {held[v], NoLease}
        /\ v # s.by \/ ~s.heard => pc'[v] = pc[v] /\ held'[v] = held[v]
  BY <1>3, Zenon DEF EndStep, LeaseTypeOK
<1>6. s.heard => /\ pc'[s.by] \notin {"await", "readback"} \cup FencedKinds
                 /\ claim[s.by] = NoLease /\ pc[s.by] = "await"
                 /\ pc'[s.by] \in Working => held'[s.by] = held[s.by] /\ Holds(s.by)
  BY <1>3, ZenonT(40) DEF EndStep, SentInv, LeaseTypeOK
<1>7. \A t \in flight' :
        /\ t \in flight /\ t # s /\ t.by \in Writers
        /\ t.kind # "inventory" => t.id \in Ids
        /\ t.heard => ~(s.heard /\ t.by = s.by)
  <2>1. \A t \in flight : s.heard /\ t.heard /\ t.by = s.by => t = s
    BY Zenon DEF SentInv
  <2> QED BY <2>1, <1>2, StatementFields, Zenon
<1>8. \A v \in Writers : \A i \in Ids : Has(v, i)' => Has(v, i)
  BY <1>2, <1>5, NoLeaseIsNone, Zenon DEF Has
<1>9. \A i \in HeadIds : Established(i)' => Established(i)
  BY <1>1, <1>4, <1>5, NoLeaseIsNone, HeadIdsAreIds DEF Established
<1>10. \A v \in Writers : pc'[v] = pc[v] \/ pc'[v] \notin {"await", "readback"} \cup FencedKinds
  BY <1>5, <1>6, Zenon
<1>a. LeaseTypeOK'
  BY <1>2, <1>3 DEF EndStep, LeaseTypeOK, IsStatement
<1>b. HeadInv'
  BY <1>1, <1>2, Zenon DEF HeadInv
<1>c. OwnerInv'
  BY <1>2, <1>5, <1>7, <1>8, Zenon DEF OwnerInv, Holds
<1>d. WriterInv'
  BY <1>1, <1>2, <1>4, <1>5, <1>6, SMTT(20) DEF WriterInv, Holds
<1>e. SentInv'
  <2>1. ASSUME NEW t \in flight', t.heard
        PROVE  pc'[t.by] = pc[t.by] /\ held'[t.by] = held[t.by]
    <3>1. t.by \in Writers /\ ~(s.heard /\ t.by = s.by)
      BY <2>1, <1>7, SMTT(20)
    <3> QED BY <3>1, <1>5, Zenon
  <2>2. \A t \in flight' :
          /\ t.heard => pc'[t.by] = "await"
          /\ t.heard /\ t.kind = "claim" => claim[t.by] = [term |-> t.term, id |-> t.id]
          /\ t.heard /\ t.kind # "claim" => claim[t.by] = NoLease
          /\ t.heard /\ t.kind = "release" => held'[t.by] = [term |-> t.term, id |-> t.id]
          /\ t.heard /\ t.kind \in FencedKinds => held'[t.by] # NoLease /\ held'[t.by].id = t.id
    <3> SUFFICES ASSUME NEW t \in flight', t.heard
                 PROVE  /\ pc'[t.by] = "await"
                        /\ t.kind = "claim" => claim[t.by] = [term |-> t.term, id |-> t.id]
                        /\ t.kind # "claim" => claim[t.by] = NoLease
                        /\ t.kind = "release" => held'[t.by] = [term |-> t.term, id |-> t.id]
                        /\ t.kind \in FencedKinds => held'[t.by] # NoLease /\ held'[t.by].id = t.id
      BY Zenon
    <3>1. t \in flight /\ pc'[t.by] = pc[t.by] /\ held'[t.by] = held[t.by]
      BY <2>1, <1>7, Zenon
    <3> QED BY <3>1 DEF SentInv, Holds
  <2>3. \A t \in flight' : ~t.heard /\ t.kind \in FencedKinds \cup {"claim"} =>
                \A v \in Writers : ~Has(v, t.id)'
    BY <1>7, <1>8, Zenon DEF SentInv, FencedKinds
  <2>4. \A t, u \in flight' : t.heard /\ u.heard /\ t.by = u.by => t = u
    BY <1>7, Zenon DEF SentInv
  <2> QED BY <2>2, <2>3, <2>4, <1>2, Zenon DEF SentInv, Holds
<1>f. OneEachInv'
  BY <1>4, Zenon DEF OneEachInv
<1>g. ReleaseInv'
  <2>1. \A t \in Releases : t.id \in Ids /\ t.term \in Nat
    BY StatementFields, SMTT(20) DEF Releases
  <2> QED BY <2>1, <1>1, <1>2, <1>4, <1>5, <1>10, NoLeaseIsNone DEF ReleaseInv
<1>h. RowInv'
  BY <1>2, <1>5, Zenon DEF RowInv, Holds
<1>i. ClaimInv'
  BY <1>1, <1>2, <1>4, <1>9, Zenon DEF ClaimInv, Expired
<1>j. SoleInv'
  BY <1>1, <1>9, Zenon DEF SoleInv
<1>k. RunInv'
  BY <1>1, <1>2, <1>4, Zenon DEF RunInv, LivesPast
<1>l. HeadTerm <= HeadTerm'
  BY <1>1 DEF HeadInv
<1> QED BY <1>a, <1>b, <1>c, <1>d, <1>e, <1>f, <1>g, <1>h, <1>i, <1>j, <1>k, <1>l, Zenon DEF LeaseKept

(* The passing of time preserves the invariant.                              *)
LEMMA TimeKeeps ==
    ASSUME LeaseInv, TimeStep
    PROVE  LeaseKept
<1> USE DEF LeaseInv
<1>1. HeadTerm' = HeadTerm /\ HeadRows' = HeadRows /\ HeadIds' = HeadIds
  BY SameHead, Zenon DEF TimeStep
<1>2. /\ rows' = rows /\ conf' = conf /\ claim' = claim /\ held' = held /\ used' = used
      /\ next' = next /\ pc' = pc /\ flight' = flight /\ Skew' = Skew /\ now' = now + 1
      /\ now \in Nat /\ Skew \in Nat
  BY Times, Zenon DEF TimeStep, Skew, LeaseTypeOK
<1>3. Claims' = Claims /\ Releases' = Releases /\ FencedOnes' = FencedOnes /\ Running' = Running
  BY <1>2, Zenon DEF Claims, Releases, FencedOnes, Running
<1>4. \A i : (Established(i)' = Established(i)) /\ (Expired(i) => Expired(i)')
  <2>1. \A r \in HeadRows : r.exp \in Nat
    BY Zenon DEF HeadRows, LeaseTypeOK
  <2>2. \A i : Established(i)' = Established(i)
    BY <1>1, <1>2, <1>3, Zenon DEF Established
  <2>3. \A i : Expired(i) => Expired(i)'
    BY <2>1, <1>1, <1>2 DEF Expired
  <2> QED BY <2>2, <2>3, Zenon
<1>a. LeaseTypeOK'
  BY <1>2 DEF LeaseTypeOK, IsStatement
<1>b. HeadInv' /\ OneEachInv' /\ SoleInv'
  BY <1>1, <1>2, <1>3, <1>4, SMTT(20) DEF HeadInv, OneEachInv, SoleInv
<1>c. OwnerInv' /\ SentInv'
  BY <1>2, SMTT(20) DEF OwnerInv, SentInv, Has, Holds
<1>d. WriterInv' /\ ReleaseInv' /\ RowInv'
  BY <1>1, <1>2, <1>3, Zenon DEF WriterInv, ReleaseInv, RowInv, Holds
<1>e. ClaimInv'
  BY <1>1, <1>3, <1>4, Zenon DEF ClaimInv
<1>f. RunInv'
  <2>1. \A s \in Running : s.ends \in Nat
    BY StatementFields, Zenon DEF Running
  <2> QED BY <2>1, <1>1, <1>2, <1>3 DEF RunInv, LivesPast, TimeStep
<1>g. HeadTerm <= HeadTerm'
  BY <1>1 DEF HeadInv
<1> QED BY <1>a, <1>b, <1>c, <1>d, <1>e, <1>f, <1>g, Zenon DEF LeaseKept

(* Collecting lease rows below a head read earlier preserves the invariant.  *)
LEMMA CollectKeeps ==
    ASSUME LeaseInv, NEW term, CollectStep(term)
    PROVE  LeaseKept
<1> USE DEF LeaseInv
<1>1. HeadTerm' = HeadTerm
  <2>1. CASE rows' = rows
    BY <2>1, SameHead, Zenon
  <2>2. CASE rows' = {r \in rows : r.term >= term}
    <3> DEFINE S == {0} \cup {r.term : r \in rows'}
    <3>1. S \in SUBSET Int /\ \A x \in S : x <= HeadTerm
      BY <2>2 DEF HeadInv, LeaseTypeOK
    <3>2. HeadTerm \in S
      BY <2>2 DEF CollectStep, HeadInv, LeaseTypeOK
    <3>3. Max(S) = HeadTerm
      BY <3>1, <3>2, MaxIs, Zenon
    <3> QED BY <3>3, Zenon DEF HeadTerm
  <2> QED BY <2>1, <2>2, Zenon DEF CollectStep
<1>2. rows' \subseteq rows /\ HeadRows' = HeadRows /\ HeadIds' = HeadIds
  <2>1. rows' \subseteq rows
    BY Zenon DEF CollectStep
  <2>2. HeadRows' = HeadRows
    BY <2>1, <1>1 DEF CollectStep, HeadRows, HeadInv
  <2> QED BY <2>1, <2>2, Zenon DEF HeadIds
<1>3. /\ conf' = conf /\ claim' = claim /\ held' = held /\ used' = used
      /\ next' = next /\ pc' = pc /\ flight' = flight /\ Skew' = Skew /\ now' = now
  BY Zenon DEF CollectStep, Skew
<1>4. Claims' = Claims /\ Releases' = Releases /\ FencedOnes' = FencedOnes /\ Running' = Running
  BY <1>3, Zenon DEF Claims, Releases, FencedOnes, Running
<1>5. \A i : (Established(i)' = Established(i)) /\ (Expired(i)' = Expired(i))
  BY <1>1, <1>2, <1>3, <1>4, Zenon DEF Established, Expired
<1>a. LeaseTypeOK'
  BY <1>2, <1>3, Zenon DEF LeaseTypeOK, IsStatement
<1>b. HeadInv'
  <2>1. HeadTerm = 0 \/ \E r \in rows' : r.term = HeadTerm
    BY <1>1, <1>2, Zenon DEF HeadInv, HeadRows
  <2> QED BY <2>1, <1>1, <1>2, Zenon DEF HeadInv
<1>c. OneEachInv' /\ SoleInv'
  BY <1>2, <1>4, <1>5, SMTT(20) DEF OneEachInv, SoleInv
<1>d. OwnerInv' /\ SentInv'
  <2>1. \A r \in rows' : r.id \in used'
    BY <1>2, <1>3, Zenon DEF OwnerInv
  <2>2. /\ \A s \in flight' : s.kind # "inventory" => s.id \in used'
        /\ \A w \in Writers : Holds(w)' => held'[w].id \in used'
        /\ \A w \in Writers : claim'[w] # NoLease => claim'[w].id \in used'
    BY <1>3, SMTT(20) DEF OwnerInv, Holds
  <2>3. \A v, w \in Writers : \A i \in Ids : Has(v, i)' /\ Has(w, i)' => v = w
    BY <1>3, SMTT(20) DEF OwnerInv, Has
  <2>4. SentInv'
    BY <1>3, SMTT(20) DEF SentInv, Has, Holds
  <2> QED BY <2>1, <2>2, <2>3, <2>4, Zenon DEF OwnerInv
<1>e. WriterInv' /\ ReleaseInv' /\ RowInv'
  BY <1>1, <1>2, <1>3, <1>4, SMTT(20) DEF WriterInv, ReleaseInv, RowInv, Holds
<1>f. ClaimInv' /\ RunInv'
  BY <1>1, <1>2, <1>3, <1>4, <1>5, Zenon DEF ClaimInv, RunInv, LivesPast
<1>g. HeadTerm <= HeadTerm'
  BY <1>1 DEF HeadInv
<1> QED BY <1>a, <1>b, <1>c, <1>d, <1>e, <1>f, <1>g, Zenon DEF LeaseKept

-----------------------------------------------------------------------------
(* A lease row lands.                                                        *)

(* What a lease row that lands makes of the head: it takes it over, joins    *)
(* it, or comes too late.                                                    *)
LEMMA StampedHead ==
    ASSUME LeaseTypeOK, HeadInv, NEW s, s.term \in 1 .. HeadTerm + 1, s.id \in Ids,
           NEW e \in Nat, Stamp(s, e)
    PROVE  LET new == [term |-> s.term, id |-> s.id, exp |-> e] IN
           /\ rows' \subseteq [term : Nat \ {0}, id : Ids, exp : Nat]
           /\ HeadTerm' = IF s.term > HeadTerm THEN s.term ELSE HeadTerm
           /\ HeadRows' = IF s.term > HeadTerm THEN {new}
                          ELSE IF s.term = HeadTerm THEN HeadRows \cup {new} ELSE HeadRows
           /\ HeadIds' = IF s.term > HeadTerm THEN {s.id}
                         ELSE IF s.term = HeadTerm THEN HeadIds \cup {s.id} ELSE HeadIds
           /\ \A r \in rows' : \/ r.id = s.id /\ r.term = s.term
                               \/ \E q \in rows : r.id = q.id /\ r.term = q.term
           /\ \A r \in rows' : r.term <= HeadTerm'
           /\ \E r \in rows' : r.term = HeadTerm'
<1> DEFINE new == [term |-> s.term, id |-> s.id, exp |-> e]
           all == rows \cup {new}
           top == IF s.term > HeadTerm THEN s.term ELSE HeadTerm
           Low(r) == IF r.term < top THEN [r EXCEPT !.exp = 0] ELSE r
<1>1. all \subseteq [term : Nat \ {0}, id : Ids, exp : Nat] /\ HeadTerm \in Nat /\ top \in Nat \ {0}
  BY DEF LeaseTypeOK, HeadInv
<1>2. (\A r \in all : r.term <= top) /\ \E r \in all : r.term = top
  <2>1. new \in all /\ new.term = s.term /\ \A r \in rows : r.term \in Nat /\ r.term <= HeadTerm
    BY <1>1, Zenon DEF HeadInv
  <2>2. \A r \in all : r.term <= top
    BY <2>1, <1>1
  <2>3. CASE s.term > HeadTerm
    BY <2>1, <2>2, <2>3, Zenon
  <2>4. CASE ~(s.term > HeadTerm)
    <3>1. PICK r \in rows : r.term = HeadTerm
      BY <2>4, <1>1, Zenon DEF HeadInv
    <3> QED BY <3>1, <2>2, <2>4, Zenon
  <2> QED BY <2>2, <2>3, <2>4, Zenon
<1>3. Max({r.term : r \in all}) = top
  <2> DEFINE S == {r.term : r \in all}
  <2>1. S \in SUBSET Int /\ top \in S /\ \A x \in S : x <= top
    BY <1>1, <1>2
  <2> HIDE DEF top, all
  <2> QED BY <2>1, MaxIs, Zenon
<1>4. rows' = {Low(r) : r \in all}
  BY <1>3, ZenonT(30) DEF Stamp
<1> HIDE DEF top
<1>5. \A r \in all : /\ Low(r) \in [term : Nat \ {0}, id : Ids, exp : Nat]
                     /\ Low(r).term = r.term /\ Low(r).id = r.id
                     /\ r.term = top => Low(r) = r
  BY <1>1
<1>6. rows' \subseteq [term : Nat \ {0}, id : Ids, exp : Nat]
  BY <1>4, <1>5, Zenon
<1>7. /\ \A r \in rows' : \E q \in all : r.id = q.id /\ r.term = q.term
      /\ \A r \in rows' : r.term <= top
      /\ \E r \in rows' : r.term = top
  <2>1. \A r \in rows' : \E q \in all : r.id = q.id /\ r.term = q.term
    BY <1>4, <1>5, Zenon
  <2>2. \E r \in rows' : r.term = top
    <3>1. PICK q \in all : q.term = top
      BY <1>2, Zenon
    <3> QED BY <3>1, <1>4, <1>5, Zenon
  <2> QED BY <2>1, <2>2, <1>2, Zenon
<1>8. HeadTerm' = top
  <2> DEFINE S == {0} \cup {r.term : r \in rows'}
  <2>1. S \in SUBSET Int /\ top \in S /\ \A x \in S : x <= top
    BY <1>1, <1>6, <1>7
  <2>2. Max(S) = top
    BY <2>1, MaxIs, Zenon
  <2> QED BY <2>2, Zenon DEF HeadTerm
<1>9. HeadRows' = {r \in all : r.term = top}
  <2>1. \A r \in rows' : r.term = top => r \in all
    BY <1>4, <1>5
  <2>2. \A r \in all : r.term = top => r \in rows'
    BY <1>4, <1>5, Zenon
  <2> QED BY <2>1, <2>2, <1>8, Zenon DEF HeadRows
<1>10. HeadRows' = IF s.term > HeadTerm THEN {new}
                   ELSE IF s.term = HeadTerm THEN HeadRows \cup {new} ELSE HeadRows
  <2>1. CASE s.term > HeadTerm
    BY <2>1, <1>1, <1>9 DEF HeadInv, top
  <2>2. CASE ~(s.term > HeadTerm)
    BY <2>2, <1>1, <1>9 DEF HeadInv, top, HeadRows
  <2> QED BY <2>1, <2>2, Zenon
<1>11. HeadIds' = IF s.term > HeadTerm THEN {s.id}
                  ELSE IF s.term = HeadTerm THEN HeadIds \cup {s.id} ELSE HeadIds
  <2>1. new.id = s.id /\ HeadIds' = {r.id : r \in HeadRows'}
    BY Zenon DEF HeadIds
  <2>2. CASE s.term > HeadTerm
    BY <2>1, <2>2, <1>10, Zenon
  <2>3. CASE s.term = HeadTerm
    <3>1. HeadRows' = HeadRows \cup {new} /\ ~(s.term > HeadTerm)
      BY <2>3, <1>1, <1>10
    <3> QED BY <3>1, <2>1, <2>3, Zenon DEF HeadIds
  <2>4. CASE ~(s.term > HeadTerm) /\ s.term # HeadTerm
    BY <2>1, <2>4, <1>10, Zenon DEF HeadIds
  <2> QED BY <2>2, <2>3, <2>4, Zenon
<1> QED BY <1>6, <1>7, <1>8, <1>10, <1>11, SMTT(30) DEF top

(* A claim that lands, however late, preserves the invariant.                *)
LEMMA LandClaimKeeps ==
    ASSUME LeaseInv, NEW s \in flight, LandClaim(s)
    PROVE  LeaseKept
<1> USE DEF LeaseInv
<1>1. /\ now' = now /\ conf' = conf /\ claim' = claim /\ held' = held
      /\ used' = used /\ next' = next /\ flight' = flight \ {s} /\ Skew' = Skew
  BY Zenon DEF LandClaim, Skew
<1>2. /\ s \in Claims /\ s.kind = "claim" /\ s.by \in Writers /\ s.id \in Ids /\ s.id \in used
      /\ s.term \in 1 .. HeadTerm + 1 /\ s.heard \in BOOLEAN
  BY StatementFields, Zenon DEF LandClaim, Claims, ClaimInv, OwnerInv
<1>3. PICK e \in Nat : Stamp(s, e)
  <2>1. PICK t \in Clock : Stamp(s, t + TTL)
    BY Zenon DEF LandClaim
  <2>2. t + TTL \in Nat
    BY Times DEF Clock, LeaseTypeOK
  <2> QED BY <2>1, <2>2, Zenon
<1> DEFINE new == [term |-> s.term, id |-> s.id, exp |-> e]
<1>4. /\ rows' \subseteq [term : Nat \ {0}, id : Ids, exp : Nat]
      /\ HeadTerm' = IF s.term > HeadTerm THEN s.term ELSE HeadTerm
      /\ HeadRows' = IF s.term > HeadTerm THEN {new}
                     ELSE IF s.term = HeadTerm THEN HeadRows \cup {new} ELSE HeadRows
      /\ HeadIds' = IF s.term > HeadTerm THEN {s.id}
                    ELSE IF s.term = HeadTerm THEN HeadIds \cup {s.id} ELSE HeadIds
      /\ \A r \in rows' : \/ r.id = s.id /\ r.term = s.term
                          \/ \E q \in rows : r.id = q.id /\ r.term = q.term
      /\ \A r \in rows' : r.term <= HeadTerm'
      /\ \E r \in rows' : r.term = HeadTerm'
  BY <1>2, <1>3, StampedHead, Zenon
<1>5. new.id = s.id /\ new.term = s.term /\ new.exp = e /\ HeadTerm \in Nat /\ HeadTerm' >= HeadTerm /\ HeadTerm' \in Nat
  BY <1>2, <1>4 DEF HeadInv
<1> HIDE DEF new
<1>6. \A v \in Writers : v # s.by \/ ~s.heard => pc'[v] = pc[v]
  BY <1>2, Zenon DEF LandClaim, LeaseTypeOK
<1>7. s.heard => pc'[s.by] = "readback" /\ pc[s.by] = "await" /\ claim[s.by] = [term |-> s.term, id |-> s.id]
  BY <1>2, Zenon DEF LandClaim, LeaseTypeOK, SentInv
<1>8. /\ Claims' = Claims \ {s} /\ Releases' = Releases /\ FencedOnes' = FencedOnes
      /\ Running' = Running
  BY <1>1, <1>2, Zenon DEF Claims, Releases, FencedOnes, Running, RunInv, FencedKinds
<1>9. \A w \in Writers : Has(w, s.id) => s.heard /\ w = s.by
  <2>1. s.heard => Has(s.by, s.id)
    BY <1>2, SenderHasId, Zenon
  <2> QED BY <2>1, <1>2, Zenon DEF SentInv, OwnerInv
<1>10. \A t \in FencedOnes : t.id # s.id
  BY <1>2, Zenon DEF OneEachInv, FencedOnes, FencedKinds
<1>11. \A t \in flight' : /\ t \in flight /\ t # s /\ t.by \in Writers
                          /\ (t.heard => ~(s.heard /\ t.by = s.by))
  <2>1. \A t \in flight : s.heard /\ t.heard /\ t.by = s.by => t = s
    BY ZenonT(40) DEF SentInv
  <2> QED BY <2>1, <1>1, StatementFields, Zenon
<1>12. s.term = HeadTerm => ~Established(s.id)
  <2> SUFFICES ASSUME s.term = HeadTerm, NEW w \in Writers, held[w] = [term |-> HeadTerm, id |-> s.id]
               PROVE  FALSE
    BY <1>10, Zenon DEF Established
  <2>1. held[w].id = s.id /\ held[w].term = HeadTerm
    OBVIOUS
  <2>2. Has(w, s.id) /\ Holds(w)
    BY <2>1, <1>2, NoLeaseIsNone, Zenon DEF Has, Holds
  <2>3. claim[w] = [term |-> s.term, id |-> s.id]
    BY <2>2, <1>7, <1>9, Zenon
  <2>4. claim[w].id = s.id /\ claim[w].term = s.term
    BY <2>3
  <2>5. claim[w] # NoLease
    BY <2>4, <1>2, NoLeaseIsNone, Zenon
  <2> QED BY <2>1, <2>2, <2>4, <2>5, <1>5 DEF WriterInv
<1>13. HeadTerm' = HeadTerm => \A i : Established(i)' = Established(i)
  BY <1>1, <1>8, Zenon DEF Established
<1>a. LeaseTypeOK'
  BY <1>1, <1>2, <1>4, Zenon DEF LandClaim, LeaseTypeOK, IsStatement, Steps
<1>b. HeadInv'
  BY <1>1, <1>4, <1>5, ZenonT(40) DEF HeadInv, LeaseTypeOK
<1>c. OwnerInv'
  BY <1>1, <1>2, <1>4, SMTT(30) DEF OwnerInv, Has, Holds
<1>d. WriterInv'
  <2> SUFFICES ASSUME NEW v \in Writers
               PROVE  /\ Holds(v) => held[v].term <= HeadTerm'
                      /\ Holds(v) /\ held[v].term = HeadTerm' => held[v].id \in HeadIds'
                      /\ pc'[v] \in Working => Holds(v)
                      /\ claim[v] # NoLease => pc'[v] \in {"await", "readback"}
                      /\ claim[v] # NoLease /\ pc'[v] = "await" =>
                            \E t \in Claims' : t.by = v /\ t.heard
    BY <1>1, Zenon DEF WriterInv, Holds
  <2>1. Holds(v) => held[v].term <= HeadTerm /\ held[v].term \in Nat
    BY ZenonT(40) DEF WriterInv, Holds, LeaseTypeOK, Lease
  <2>2. Holds(v) /\ held[v].term = HeadTerm' => held[v].id \in HeadIds'
    BY <2>1, <1>2, <1>4, <1>5 DEF WriterInv
  <2>3. /\ pc'[v] \in Working => Holds(v)
        /\ claim[v] # NoLease => pc'[v] \in {"await", "readback"}
    BY <1>6, <1>7, Zenon DEF WriterInv, Working, FencedKinds
  <2>4. claim[v] # NoLease /\ pc'[v] = "await" => \E t \in Claims' : t.by = v /\ t.heard
    BY <1>6, <1>7, <1>8, ZenonT(40) DEF WriterInv
  <2> QED BY <2>1, <2>2, <2>3, <2>4, <1>5
<1>e. SentInv'
  <2>1. \A t \in flight' : t.heard => pc'[t.by] = "await"
    BY <1>6, <1>11, ZenonT(40) DEF SentInv
  <2> QED BY <2>1, <1>1, <1>11 DEF SentInv, Has, Holds
<1>f. OneEachInv'
  BY <1>8, Zenon DEF OneEachInv
<1>g. ReleaseInv'
  <2>1. \A v \in Writers : pc'[v] \in FencedKinds => pc[v] \in FencedKinds
    BY <1>6, <1>7, Zenon DEF FencedKinds
  <2>2. \A t \in Releases : t.term \in 1 .. HeadTerm
    BY Zenon DEF ReleaseInv
  <2> QED BY <2>1, <2>2, <1>1, <1>5, <1>8 DEF ReleaseInv
<1>h. RowInv'
  <2> SUFFICES ASSUME NEW w \in Writers, NEW r \in rows'
               PROVE  /\ Holds(w) /\ held[w].id = r.id /\ claim[w] = NoLease => r.term <= held[w].term
                      /\ claim[w].id = r.id => r.term <= claim[w].term
    BY <1>1, Zenon DEF RowInv, Holds
  <2>1. CASE \E q \in rows : r.id = q.id /\ r.term = q.term
    BY <2>1, Zenon DEF RowInv
  <2>2. CASE r.id = s.id /\ r.term = s.term
    <3>1. CASE ~Has(w, s.id)
      BY <2>2, <3>1, ZenonT(40) DEF Has
    <3>2. CASE Has(w, s.id)
      <4>1. claim[w].term = s.term /\ claim[w].id = s.id
        BY <3>2, <1>7, <1>9
      <4>2. claim[w] # NoLease
        BY <4>1, <1>2, NoLeaseIsNone, Zenon
      <4> QED BY <2>2, <4>1, <4>2, <1>2, <1>5
    <3> QED BY <3>1, <3>2, Zenon
  <2> QED BY <2>1, <2>2, <1>4, Zenon
<1>i. ClaimInv'
  <2> SUFFICES ASSUME NEW t \in Claims, t # s
               PROVE  /\ t.term \in 1 .. HeadTerm' + 1
                      /\ t.term = HeadTerm' + 1 =>
                           \A i \in HeadIds' : i = t.id \/ Expired(i)' \/ (HeadIds' # {i} /\ ~Established(i)')
    BY <1>8, Zenon DEF ClaimInv
  <2>1. t.term \in 1 .. HeadTerm + 1
    BY Zenon DEF ClaimInv
  <2> SUFFICES ASSUME t.term = HeadTerm' + 1, NEW i \in HeadIds'
               PROVE  i = t.id \/ Expired(i)' \/ (HeadIds' # {i} /\ ~Established(i)')
    BY <2>1, <1>5, SMTT(30)
  <2>2. HeadTerm' = HeadTerm /\ ~(s.term > HeadTerm)
    BY <2>1, <1>2, <1>4, <1>5
  <2>3. HeadRows \subseteq HeadRows' /\ HeadIds \subseteq HeadIds'
    BY <2>2, <1>4, Zenon
  <2>4. CASE i \in HeadIds
    <3>1. i = t.id \/ Expired(i) \/ (HeadIds # {i} /\ ~Established(i))
      BY <2>2, <2>4, Zenon DEF ClaimInv
    <3>2. Expired(i) => Expired(i)'
      BY <2>3, <1>1, Zenon DEF Expired
    <3>3. HeadIds # {i} => HeadIds' # {i}
      BY <2>3, <2>4, Zenon
    <3> QED BY <3>1, <3>2, <3>3, <2>2, <1>13, Zenon
  <2>5. CASE i \notin HeadIds
    <3>1. i = s.id /\ s.term = HeadTerm
      BY <2>2, <2>5, <1>4, Zenon
    <3>2. PICK r \in rows : r.term = HeadTerm
      BY <3>1, <1>2 DEF HeadInv
    <3>3. r.id \in HeadIds
      BY <3>2, Zenon DEF HeadIds, HeadRows
    <3> QED BY <3>1, <3>3, <2>2, <2>3, <2>5, <1>12, <1>13, Zenon
  <2> QED BY <2>4, <2>5, Zenon
<1>j. SoleInv'
  <2>1. CASE s.term > HeadTerm
    BY <2>1, <1>4, Zenon DEF SoleInv
  <2>2. CASE ~(s.term > HeadTerm)
    BY <2>2, <1>4, <1>12, <1>13, Zenon DEF SoleInv
  <2> QED BY <2>1, <2>2, Zenon
<1>k. RunInv'
  <2> SUFFICES ASSUME NEW t \in Running
               PROVE  t.id \in HeadIds' /\ LivesPast(t.id, t.ends + Skew)'
    BY <1>1, <1>8, Zenon DEF RunInv, LivesPast
  <2>1. /\ t \in FencedOnes /\ now <= t.ends /\ t.id \in HeadIds /\ t.ends \in Nat
        /\ \A r \in HeadRows : r.id = t.id => r.exp > t.ends + Skew
    BY StatementFields, Zenon DEF RunInv, Running, FencedOnes, LivesPast
  <2>2. t.id # s.id /\ Established(t.id)
    BY <2>1, <1>10, Zenon DEF Established
  <2>3. ~(s.term > HeadTerm)
    <3> SUFFICES ASSUME s.term = HeadTerm + 1
                 PROVE  FALSE
      BY <1>2, <1>5
    <3>1. Expired(t.id)
      BY <2>1, <2>2, <1>2, Zenon DEF ClaimInv
    <3>2. PICK r \in HeadRows : r.id = t.id /\ r.exp <= now + Skew
      BY <3>1, Zenon DEF Expired
    <3>3. r.exp \in Nat /\ now \in Nat
      BY <3>2, Zenon DEF HeadRows, LeaseTypeOK
    <3> QED BY <3>2, <3>3, <2>1, Times
  <2> QED BY <2>1, <2>2, <2>3, <1>1, <1>4, <1>5, Zenon DEF LivesPast
<1>l. HeadTerm <= HeadTerm'
  BY <1>5, Zenon
<1> QED BY <1>a, <1>b, <1>c, <1>d, <1>e, <1>f, <1>g, <1>h, <1>i, <1>j, <1>k, <1>l, Zenon DEF LeaseKept

(* A release that lands, however late, preserves the invariant.              *)
LEMMA LandReleaseKeeps ==
    ASSUME LeaseInv, NEW s \in flight, LandRelease(s)
    PROVE  LeaseKept
<1> USE DEF LeaseInv
<1>1. /\ now' = now /\ conf' = conf /\ claim' = claim
      /\ used' = used /\ next' = next /\ flight' = flight \ {s} /\ Skew' = Skew
  BY Zenon DEF LandRelease, Skew
<1>2. /\ s \in Releases /\ s.kind = "release" /\ s.by \in Writers /\ s.id \in Ids /\ s.id \in used
      /\ s.term \in 1 .. HeadTerm /\ s.heard \in BOOLEAN
  BY StatementFields, Zenon DEF LandRelease, Releases, ReleaseInv, OwnerInv
<1>3. PICK e \in Nat : Stamp(s, e) /\ e <= now + Skew
  <2>1. PICK t \in Clock : Stamp(s, t)
    BY Zenon DEF LandRelease
  <2>2. t \in Nat /\ t <= now + Skew
    BY Times DEF Clock, LeaseTypeOK
  <2> QED BY <2>1, <2>2, Zenon
<1> DEFINE new == [term |-> s.term, id |-> s.id, exp |-> e]
<1>4. /\ rows' \subseteq [term : Nat \ {0}, id : Ids, exp : Nat]
      /\ HeadTerm' = HeadTerm /\ HeadTerm \in Nat
      /\ HeadRows' = IF s.term = HeadTerm THEN HeadRows \cup {new} ELSE HeadRows
      /\ HeadIds' = IF s.term = HeadTerm THEN HeadIds \cup {s.id} ELSE HeadIds
      /\ \A r \in rows' : \/ r.id = s.id /\ r.term = s.term
                          \/ \E q \in rows : r.id = q.id /\ r.term = q.term
      /\ \A r \in rows' : r.term <= HeadTerm'
      /\ \E r \in rows' : r.term = HeadTerm'
  <2>1. HeadTerm \in Nat /\ s.term \in 1 .. HeadTerm + 1 /\ ~(s.term > HeadTerm)
    BY <1>2 DEF HeadInv
  <2> QED BY <2>1, <1>2, <1>3, StampedHead, Zenon
<1>5. new.id = s.id /\ new.term = s.term /\ new.exp = e
  BY Zenon
<1> HIDE DEF new
<1>6. \A v \in Writers :
        /\ held'[v] \in {held[v], NoLease}
        /\ v # s.by \/ ~s.heard => pc'[v] = pc[v] /\ held'[v] = held[v]
  BY <1>2, Zenon DEF LandRelease, LeaseTypeOK
<1>7. s.heard => pc'[s.by] = "idle" /\ pc[s.by] = "await" /\ claim[s.by] = NoLease
  BY <1>2, Zenon DEF LandRelease, LeaseTypeOK, SentInv
<1>8. /\ Claims' = Claims /\ Releases' = Releases \ {s} /\ FencedOnes' = FencedOnes
      /\ Running' = Running
  BY <1>1, <1>2, Zenon DEF Claims, Releases, FencedOnes, Running, RunInv, FencedKinds
<1>9. \A v \in Writers : \A i \in Ids : Has(v, i)' => Has(v, i)
  BY <1>1, <1>6, NoLeaseIsNone, ZenonT(40) DEF Has
<1>10. s.term = HeadTerm => \A t \in FencedOnes : t.id # s.id
  BY <1>2, <1>4 DEF ReleaseInv
<1>11. \A t \in flight' : /\ t \in flight /\ t # s /\ t.by \in Writers
                          /\ (t.heard => ~(s.heard /\ t.by = s.by))
                          /\ (t.kind # "inventory" => t.id \in Ids)
  <2>1. \A t \in flight : s.heard /\ t.heard /\ t.by = s.by => t = s
    BY Zenon DEF SentInv
  <2> QED BY <2>1, <1>1, StatementFields, ZenonT(40)
<1>12. \A i \in Ids : Established(i)' => Established(i)
  BY <1>4, <1>6, <1>8, NoLeaseIsNone DEF Established
<1>13. HeadRows \subseteq HeadRows' /\ HeadIds \subseteq HeadIds'
  BY <1>4, Zenon
<1>a. LeaseTypeOK'
  BY <1>1, <1>2, <1>4, Zenon DEF LandRelease, LeaseTypeOK, IsStatement, Steps
<1>b. HeadInv'
  BY <1>1, <1>4, Zenon DEF HeadInv
<1>c. OwnerInv'
  BY <1>1, <1>2, <1>4, <1>6, <1>9, ZenonT(40) DEF OwnerInv, Holds
<1>d. WriterInv'
  BY <1>1, <1>4, <1>6, <1>7, <1>8, <1>13, SMTT(20) DEF WriterInv, Holds, Working, FencedKinds
<1>e. SentInv'
  <2>1. ASSUME NEW t \in flight', t.heard
        PROVE  t \in flight /\ pc'[t.by] = pc[t.by] /\ held'[t.by] = held[t.by]
    <3>1. t.by \in Writers /\ ~(s.heard /\ t.by = s.by) /\ t \in flight
      BY <2>1, <1>11, ZenonT(40)
    <3> QED BY <3>1, <1>6, Zenon
  <2>2. \A t \in flight' :
          /\ t.heard => pc'[t.by] = "await"
          /\ t.heard /\ t.kind = "claim" => claim[t.by] = [term |-> t.term, id |-> t.id]
          /\ t.heard /\ t.kind # "claim" => claim[t.by] = NoLease
          /\ t.heard /\ t.kind = "release" => held'[t.by] = [term |-> t.term, id |-> t.id]
          /\ t.heard /\ t.kind \in FencedKinds => held'[t.by] # NoLease /\ held'[t.by].id = t.id
    <3> SUFFICES ASSUME NEW t \in flight', t.heard
                 PROVE  /\ pc'[t.by] = "await"
                        /\ t.kind = "claim" => claim[t.by] = [term |-> t.term, id |-> t.id]
                        /\ t.kind # "claim" => claim[t.by] = NoLease
                        /\ t.kind = "release" => held'[t.by] = [term |-> t.term, id |-> t.id]
                        /\ t.kind \in FencedKinds => held'[t.by] # NoLease /\ held'[t.by].id = t.id
      BY Zenon
    <3>1. t \in flight /\ pc'[t.by] = pc[t.by] /\ held'[t.by] = held[t.by]
      BY <2>1, Zenon
    <3> QED BY <3>1 DEF SentInv, Holds
  <2>3. \A t \in flight' : ~t.heard /\ t.kind \in FencedKinds \cup {"claim"} =>
                \A v \in Writers : ~Has(v, t.id)'
    BY <1>9, <1>11, Zenon DEF SentInv, FencedKinds
  <2>4. \A t, u \in flight' : t.heard /\ u.heard /\ t.by = u.by => t = u
    BY <1>11, Zenon DEF SentInv
  <2> QED BY <2>2, <2>3, <2>4, <1>1, Zenon DEF SentInv, Holds
<1>f. OneEachInv'
  BY <1>8, ZenonT(40) DEF OneEachInv
<1>g. ReleaseInv'
  <2>1. \A v \in Writers : pc'[v] \in FencedKinds => pc[v] \in FencedKinds
    BY <1>6, <1>7, Zenon DEF FencedKinds
  <2>2. \A t \in Releases : t.id \in Ids /\ t.term \in Nat
    BY StatementFields, Zenon DEF Releases
  <2> QED BY <2>1, <2>2, <1>1, <1>4, <1>6, <1>8, NoLeaseIsNone DEF ReleaseInv
<1>h. RowInv'
  <2> SUFFICES ASSUME NEW w \in Writers, NEW r \in rows'
               PROVE  /\ held'[w] # NoLease /\ held'[w].id = r.id /\ claim[w] = NoLease
                            => r.term <= held'[w].term
                      /\ claim[w].id = r.id => r.term <= claim[w].term
    BY <1>1, Zenon DEF RowInv, Holds
  <2>1. CASE \E q \in rows : r.id = q.id /\ r.term = q.term
    BY <2>1, <1>6 DEF RowInv, Holds
  <2>2. CASE r.id = s.id /\ r.term = s.term
    <3>1. /\ held[w].id = s.id => s.term <= held[w].term
          /\ claim[w].id = s.id => s.term < claim[w].term
      BY <1>2, Zenon DEF ReleaseInv
    <3>2. claim[w].term \in Nat /\ s.term \in Nat
      BY <1>2, NoLeaseIsNone DEF LeaseTypeOK, Lease
    <3> QED BY <2>2, <3>1, <3>2, <1>6
  <2> QED BY <2>1, <2>2, <1>4, Zenon
<1>i. ClaimInv'
  <2> SUFFICES ASSUME NEW t \in Claims, t.term = HeadTerm + 1, NEW i \in HeadIds'
               PROVE  i = t.id \/ Expired(i)' \/ (HeadIds' # {i} /\ ~Established(i)')
    BY <1>4, <1>8, Zenon DEF ClaimInv
  <2>1. CASE i \in HeadIds
    <3>1. i = t.id \/ Expired(i) \/ (HeadIds # {i} /\ ~Established(i))
      BY <2>1, Zenon DEF ClaimInv
    <3>2. Expired(i) => Expired(i)'
      BY <1>1, <1>13, Zenon DEF Expired
    <3>3. HeadIds # {i} => HeadIds' # {i}
      BY <2>1, <1>13, Zenon
    <3>4. i \in Ids
      BY <2>1, HeadIdsAreIds, Zenon
    <3> QED BY <3>1, <3>2, <3>3, <3>4, <1>12, Zenon
  <2>2. CASE i \notin HeadIds
    <3>1. i = s.id /\ new \in HeadRows'
      BY <2>2, <1>4, Zenon
    <3>2. Expired(i)'
      BY <3>1, <1>1, <1>3, <1>5, Zenon DEF Expired
    <3> QED BY <3>2, Zenon
  <2> QED BY <2>1, <2>2, Zenon
<1>j. SoleInv'
  <2>1. \A i \in HeadIds' : Established(i)' => i \in HeadIds /\ Established(i)
    <3> SUFFICES ASSUME NEW i \in HeadIds', Established(i)'
                 PROVE  i \in HeadIds /\ Established(i)
      BY Zenon
    <3>1. i \in Ids
      BY <1>2, <1>4, HeadIdsAreIds, Zenon
    <3>2. Established(i)
      BY <3>1, <1>12, Zenon
    <3>3. ASSUME i = s.id, s.term = HeadTerm
          PROVE  i \in HeadIds
      <4>1. PICK w \in Writers : held[w] = [term |-> HeadTerm, id |-> i]
        BY <3>2, <3>3, <1>10, Zenon DEF Established
      <4>2. Holds(w) /\ held[w].term = HeadTerm /\ held[w].id = i
        BY <4>1, <3>1, NoLeaseIsNone DEF Holds
      <4> QED BY <4>2, Zenon DEF WriterInv
    <3> QED BY <3>2, <3>3, <1>4, Zenon
  <2> QED BY <2>1, Zenon DEF SoleInv
<1>k. RunInv'
  <2> SUFFICES ASSUME NEW t \in Running
               PROVE  t.id \in HeadIds' /\ LivesPast(t.id, t.ends + Skew)'
    BY <1>1, <1>8, Zenon DEF RunInv, LivesPast
  <2>1. /\ t \in FencedOnes /\ t.id \in HeadIds
        /\ \A r \in HeadRows : r.id = t.id => r.exp > t.ends + Skew
    BY Zenon DEF RunInv, Running, FencedOnes, LivesPast
  <2>2. s.term = HeadTerm => t.id # s.id
    BY <2>1, <1>10, Zenon
  <2> QED BY <2>1, <2>2, <1>1, <1>4, <1>5, <1>13, Zenon DEF LivesPast
<1>l. HeadTerm <= HeadTerm'
  BY <1>4, Zenon DEF HeadInv
<1> QED BY <1>a, <1>b, <1>c, <1>d, <1>e, <1>f, <1>g, <1>h, <1>i, <1>j, <1>k, <1>l, Zenon DEF LeaseKept

(* What Unheard makes of a statement.                                        *)
Hush(w, s) == IF s.by = w THEN [s EXCEPT !.heard = FALSE] ELSE s

(* A statement nobody listens to is otherwise the same.                      *)
LEMMA HushedIsTheSame ==
    ASSUME LeaseTypeOK, NEW w \in Writers
    PROVE  /\ Unheard(w) = {Hush(w, s) : s \in flight}
           /\ \A s \in flight :
                 /\ IsStatement(Hush(w, s)) /\ Hush(w, s).kind = s.kind /\ Hush(w, s).by = s.by
                 /\ Hush(w, s).term = s.term /\ Hush(w, s).id = s.id /\ Hush(w, s).ends = s.ends
                 /\ Hush(w, s).heard <=> s.heard /\ s.by # w
                 /\ Hush(w, s).heard => Hush(w, s) = s
<1>1. Unheard(w) = {Hush(w, s) : s \in flight}
  BY Zenon DEF Unheard, Hush
<1>2. ASSUME NEW s \in flight
      PROVE  /\ IsStatement(Hush(w, s)) /\ Hush(w, s).kind = s.kind /\ Hush(w, s).by = s.by
             /\ Hush(w, s).term = s.term /\ Hush(w, s).id = s.id /\ Hush(w, s).ends = s.ends
             /\ Hush(w, s).heard <=> s.heard /\ s.by # w
             /\ Hush(w, s).heard => Hush(w, s) = s
  <2>1. IsStatement(s)
    BY Zenon DEF LeaseTypeOK
  <2> QED BY <2>1, Zenon DEF Hush, IsStatement
<1> QED BY <1>1, <1>2, Zenon

(* A writer that stops listening preserves the invariant.                    *)
LEMMA AbandonKeeps ==
    ASSUME LeaseInv, NEW w \in Writers, Abandon(w)
    PROVE  LeaseKept
<1> USE DEF LeaseInv
<1>1. HeadTerm' = HeadTerm /\ HeadRows' = HeadRows /\ HeadIds' = HeadIds
  BY SameHead, Zenon DEF Abandon
<1>2. /\ now' = now /\ rows' = rows /\ conf' = conf /\ used' = used /\ Skew' = Skew
      /\ flight' = {Hush(w, s) : s \in flight}
  BY HushedIsTheSame, Zenon DEF Abandon, Skew
<1>3. \A s \in flight :
        /\ IsStatement(Hush(w, s)) /\ Hush(w, s).kind = s.kind /\ Hush(w, s).by = s.by
        /\ Hush(w, s).term = s.term /\ Hush(w, s).id = s.id /\ Hush(w, s).ends = s.ends
        /\ Hush(w, s).heard <=> s.heard /\ s.by # w
        /\ Hush(w, s).heard => Hush(w, s) = s
  BY HushedIsTheSame, Zenon
<1>4. /\ Claims' = {Hush(w, s) : s \in Claims} /\ Releases' = {Hush(w, s) : s \in Releases}
      /\ FencedOnes' = {Hush(w, s) : s \in FencedOnes} /\ Running' = {Hush(w, s) : s \in Running}
  BY <1>2, <1>3 DEF Claims, Releases, FencedOnes, Running
<1>5. /\ claim'[w] = NoLease /\ pc'[w] \in {"idle", "ready"}
      /\ \A v \in Writers :
            /\ held'[v] \in {held[v], NoLease}
            /\ v # w => pc'[v] = pc[v] /\ held'[v] = held[v] /\ claim'[v] = claim[v]
  BY Zenon DEF Abandon, LeaseTypeOK
<1>6. \A v \in Writers : \A i \in Ids : Has(v, i)' => Has(v, i)
  BY <1>5, NoLeaseIsNone, Zenon DEF Has
<1>7. \/ held'[w] = NoLease
      \/ /\ claim[w] = NoLease
         /\ \A s \in flight : s.by = w /\ s.heard => s.kind \in {"release", "inventory"}
  <2>1. CASE held' = [held EXCEPT ![w] = NoLease]
    BY <2>1, Zenon DEF LeaseTypeOK
  <2>2. ASSUME NEW s \in flight, s.by = w, s.heard, s.kind \in {"release", "inventory"}
        PROVE  claim[w] = NoLease /\ \A t \in flight : t.by = w /\ t.heard => t = s
    BY <2>2, ZenonT(40) DEF SentInv
  <2> QED BY <2>1, <2>2, ZenonT(40) DEF Abandon
<1>8. \A i \in HeadIds : Established(i)' => Established(i)
  <2>1. \A i : (\E s \in FencedOnes' : s.id = i) => \E s \in FencedOnes : s.id = i
    BY <1>3, <1>4 DEF FencedOnes
  <2> QED BY <2>1, <1>1, <1>5, NoLeaseIsNone, HeadIdsAreIds, SMTT(30) DEF Established
<1>9. \A s \in flight : s.by \in Writers /\ s.heard \in BOOLEAN /\ (s.kind # "inventory" => s.id \in Ids)
  BY StatementFields, Zenon
<1>a. LeaseTypeOK'
  <2>1. \A s \in flight' : IsStatement(s)
    BY <1>2, <1>3, Zenon
  <2> QED BY <2>1, <1>2, Zenon DEF Abandon, LeaseTypeOK, IsStatement, Steps
<1>b. HeadInv'
  BY <1>1, <1>2, ZenonT(40) DEF HeadInv
<1>c. OwnerInv'
  <2>1. \A r \in rows' : r.id \in used'
    BY <1>2, Zenon DEF OwnerInv
  <2>2. \A s \in flight' : s.kind # "inventory" => s.id \in used'
    BY <1>2, <1>3 DEF OwnerInv
  <2>3. \A v \in Writers : held'[v] # NoLease => held'[v].id \in used'
    BY <1>2, <1>5, Zenon DEF OwnerInv, Holds
  <2>4. \A v \in Writers : claim'[v] # NoLease => claim'[v].id \in used'
    BY <1>2, <1>5, Zenon DEF OwnerInv
  <2>5. ASSUME NEW v \in Writers, NEW u \in Writers, NEW i \in Ids, Has(v, i)', Has(u, i)'
        PROVE  v = u
    BY <2>5, <1>6, Zenon DEF OwnerInv
  <2> QED BY <2>1, <2>2, <2>3, <2>4, <2>5, Zenon DEF OwnerInv, Holds
<1>d. WriterInv'
  <2> SUFFICES ASSUME NEW v \in Writers
               PROVE  /\ claim'[v] # NoLease /\ held'[v] # NoLease => held'[v].term < claim'[v].term
                      /\ held'[v] # NoLease => held'[v].term <= HeadTerm
                      /\ held'[v] # NoLease /\ held'[v].term = HeadTerm => held'[v].id \in HeadIds
                      /\ pc'[v] \in Working => held'[v] # NoLease
                      /\ claim'[v] # NoLease => pc'[v] \in {"await", "readback"}
                      /\ claim'[v] # NoLease /\ pc'[v] = "await" => \E s \in Claims' : s.by = v /\ s.heard
    BY <1>1, Zenon DEF WriterInv, Holds
  <2>1. CASE v = w
    BY <2>1, <1>5, ZenonT(40) DEF WriterInv, Holds, Working, FencedKinds
  <2>2. CASE v # w
    <3>1. (\E s \in Claims : s.by = v /\ s.heard) => \E s \in Claims' : s.by = v /\ s.heard
      BY <2>2, <1>3, <1>4, SMTT(30) DEF Claims
    <3> QED BY <3>1, <2>2, <1>5, SMTT(30) DEF WriterInv, Holds
  <2> QED BY <2>1, <2>2, Zenon
<1>e. SentInv'
  <2>1. ASSUME NEW t \in flight', t.heard
        PROVE  t \in flight /\ t.by \in Writers /\ t.by # w
    <3>1. PICK s \in flight : t = Hush(w, s)
      BY <1>2, ZenonT(40)
    <3> QED BY <3>1, <2>1, <1>3, <1>9
  <2>2. \A t \in flight' :
          /\ t.heard => pc'[t.by] = "await"
          /\ t.heard /\ t.kind = "claim" => claim'[t.by] = [term |-> t.term, id |-> t.id]
          /\ t.heard /\ t.kind # "claim" => claim'[t.by] = NoLease
          /\ t.heard /\ t.kind = "release" => held'[t.by] = [term |-> t.term, id |-> t.id]
          /\ t.heard /\ t.kind \in FencedKinds => held'[t.by] # NoLease /\ held'[t.by].id = t.id
    <3> SUFFICES ASSUME NEW t \in flight', t.heard
                 PROVE  /\ pc'[t.by] = "await"
                        /\ t.kind = "claim" => claim'[t.by] = [term |-> t.term, id |-> t.id]
                        /\ t.kind # "claim" => claim'[t.by] = NoLease
                        /\ t.kind = "release" => held'[t.by] = [term |-> t.term, id |-> t.id]
                        /\ t.kind \in FencedKinds => held'[t.by] # NoLease /\ held'[t.by].id = t.id
      BY Zenon
    <3>1. /\ t \in flight /\ pc'[t.by] = pc[t.by] /\ held'[t.by] = held[t.by]
          /\ claim'[t.by] = claim[t.by]
      BY <2>1, <1>5, Zenon
    <3> QED BY <3>1 DEF SentInv, Holds
  <2>3. ASSUME NEW t \in flight', ~t.heard, t.kind \in FencedKinds \cup {"claim"}, NEW v \in Writers
        PROVE  ~Has(v, t.id)'
    <3>1. PICK s \in flight : t = Hush(w, s)
      BY <1>2, Zenon
    <3>2. s.id = t.id /\ s.kind = t.kind /\ s.id \in Ids /\ s.by \in Writers
      BY <3>1, <2>3, <1>3, <1>9, Zenon DEF FencedKinds
    <3>3. CASE ~s.heard
      BY <3>2, <3>3, <2>3, <1>6, Zenon DEF SentInv
    <3>4. CASE s.heard
      <4>1. s.by = w
        BY <3>1, <3>4, <2>3, <1>3, Zenon
      <4>2. Has(w, s.id)
        BY <3>2, <3>4, <2>3, <4>1, SenderHasId, Zenon
      <4>3. held'[w] = NoLease
        BY <3>2, <3>4, <2>3, <4>1, <1>7, Zenon DEF FencedKinds
      <4>4. ~Has(w, s.id)'
        BY <3>2, <4>3, <1>5, NoLeaseIsNone, Zenon DEF Has
      <4> QED BY <4>2, <4>4, <3>2, <1>6, Zenon DEF OwnerInv
    <3> QED BY <3>3, <3>4, Zenon
  <2>4. \A t, u \in flight' : t.heard /\ u.heard /\ t.by = u.by => t = u
    BY <2>1, ZenonT(40) DEF SentInv
  <2> QED BY <2>2, <2>3, <2>4 DEF SentInv, Holds
<1>f. OneEachInv'
  BY <1>3, <1>4, SMTT(30) DEF OneEachInv, Claims, FencedOnes
<1>g. ReleaseInv'
  <2>1. \A s \in Releases' : \E t \in Releases : s.id = t.id /\ s.term = t.term /\ t.id \in Ids /\ t.term \in Nat
    BY <1>3, <1>4, <1>9, StatementFields, SMTT(30) DEF Releases
  <2>2. \A s \in FencedOnes' : \E t \in FencedOnes : s.id = t.id
    BY <1>3, <1>4 DEF FencedOnes
  <2>3. \A v \in Writers : pc'[v] \in FencedKinds => pc[v] \in FencedKinds
    BY <1>5, ZenonT(40) DEF FencedKinds
  <2> QED BY <2>1, <2>2, <2>3, <1>1, <1>5, NoLeaseIsNone, SMTT(30) DEF ReleaseInv
<1>h. RowInv'
  BY <1>2, <1>5, <1>7, NoLeaseIsNone DEF RowInv, Holds, LeaseTypeOK
<1>i. ClaimInv'
  <2>1. \A s \in Claims' : \E t \in Claims : s.id = t.id /\ s.term = t.term
    BY <1>3, <1>4 DEF Claims
  <2>2. \A i : Expired(i)' = Expired(i)
    BY <1>1, <1>2, Zenon DEF Expired
  <2> QED BY <2>1, <2>2, <1>1, <1>8, ZenonT(40) DEF ClaimInv
<1>j. SoleInv'
  BY <1>1, <1>8, Zenon DEF SoleInv
<1>k. RunInv'
  <2>1. \A s \in Running' : \E t \in Running : s.id = t.id /\ s.kind = t.kind /\ s.ends = t.ends
    BY <1>3, <1>4 DEF Running
  <2> QED BY <2>1, <1>1, <1>2, Zenon DEF RunInv, LivesPast
<1>l. HeadTerm <= HeadTerm'
  BY <1>1 DEF HeadInv
<1> QED BY <1>a, <1>b, <1>c, <1>d, <1>e, <1>f, <1>g, <1>h, <1>i, <1>j, <1>k, <1>l, Zenon DEF LeaseKept

(* Admitting a statement its fence lets pass preserves the invariant.        *)
LEMMA AdmitKeeps ==
    ASSUME LeaseInv, NEW s \in flight, Admit(s)
    PROVE  LeaseKept
<1> USE DEF LeaseInv
<1> DEFINE a == [s EXCEPT !.ends = now + PublishTimeout]
<1>1. HeadTerm' = HeadTerm /\ HeadRows' = HeadRows /\ HeadIds' = HeadIds
  BY SameHead, Zenon DEF Admit
<1>2. /\ now' = now /\ rows' = rows /\ conf' = conf /\ claim' = claim /\ held' = held
      /\ used' = used /\ next' = next /\ pc' = pc /\ flight' = (flight \ {s}) \cup {a} /\ Skew' = Skew
  BY Zenon DEF Admit, Skew
<1>3. s.kind \in FencedKinds /\ s.ends = 0 /\ s \in FencedOnes
  BY Zenon DEF Admit, FencedOnes
<1>4. /\ IsStatement(a) /\ a.kind = s.kind /\ a.by = s.by /\ a.id = s.id /\ a.term = s.term
      /\ a.heard = s.heard /\ a.ends = now + PublishTimeout
  <2>1. IsStatement(s)
    BY Zenon DEF LeaseTypeOK
  <2>2. now + PublishTimeout \in Nat
    BY Times DEF LeaseTypeOK
  <2> QED BY <2>1, <2>2, Zenon DEF IsStatement
<1>5. /\ Claims' = Claims /\ Releases' = Releases /\ FencedOnes' = (FencedOnes \ {s}) \cup {a}
      /\ Running' \subseteq Running \cup {a}
  BY <1>2, <1>3, <1>4, Zenon DEF Claims, Releases, FencedOnes, Running, FencedKinds
<1>6. \A i : Established(i)' = Established(i)
  BY <1>1, <1>2, <1>3, <1>4, <1>5, ZenonT(40) DEF Established
<1>a. LeaseTypeOK'
  BY <1>2, <1>4, Zenon DEF LeaseTypeOK, IsStatement
<1>b. HeadInv'
  BY <1>1, <1>2, Zenon DEF HeadInv
<1>c. OwnerInv'
  BY <1>2, <1>4, Zenon DEF OwnerInv, Has, Holds
<1>d. WriterInv'
  BY <1>1, <1>2, <1>5, Zenon DEF WriterInv, Holds
<1>e. SentInv'
  <2>1. \A t \in flight' : \E u \in flight :
          /\ t.heard = u.heard /\ t.by = u.by /\ t.kind = u.kind /\ t.term = u.term /\ t.id = u.id
          /\ (t = u /\ u # s) \/ (t = a /\ u = s)
    BY <1>2, <1>4, Zenon
  <2> QED BY <2>1, <1>2 DEF SentInv, Has, Holds
<1>f. OneEachInv'
  <2>1. \A t \in (Claims \cup FencedOnes) \ {s} : t.id # a.id
    BY <1>3, <1>4, Zenon DEF OneEachInv
  <2>2. s \notin Claims
    BY <1>3, Zenon DEF Claims, FencedKinds
  <2>3. (Claims \cup FencedOnes)' = ((Claims \cup FencedOnes) \ {s}) \cup {a}
    BY <2>2, <1>5, Zenon
  <2> QED BY <2>1, <2>3, Zenon DEF OneEachInv
<1>g. ReleaseInv'
  BY <1>1, <1>2, <1>3, <1>4, <1>5, ZenonT(40) DEF ReleaseInv
<1>h. RowInv'
  BY <1>2, Zenon DEF RowInv, Holds
<1>i. ClaimInv'
  BY <1>1, <1>2, <1>5, <1>6, Zenon DEF ClaimInv, Expired
<1>j. SoleInv'
  BY <1>1, <1>6, Zenon DEF SoleInv
<1>k. RunInv'
  <2>1. PICK t \in Clock : Fence(s.id, t)
    BY Zenon DEF Admit
  <2>2. t \in Nat /\ now <= t
    BY Times DEF Clock, LeaseTypeOK
  <2>3. s.id \in HeadIds /\ \A r \in HeadRows : r.id = s.id => r.exp > t + PublishTimeout + Skew
    BY <2>1, Zenon DEF Fence, Leads, LivesPast
  <2>4. \A r \in HeadRows : r.exp \in Nat
    BY Zenon DEF HeadRows, LeaseTypeOK
  <2>5. LivesPast(s.id, now + PublishTimeout + Skew) /\ now <= now + PublishTimeout
    BY <2>2, <2>3, <2>4, Times DEF LivesPast, LeaseTypeOK
  <2> QED BY <2>3, <2>5, <1>1, <1>2, <1>3, <1>4, <1>5, Zenon DEF RunInv, LivesPast
<1>l. HeadTerm <= HeadTerm'
  BY <1>1 DEF HeadInv
<1> QED BY <1>a, <1>b, <1>c, <1>d, <1>e, <1>f, <1>g, <1>h, <1>i, <1>j, <1>k, <1>l, Zenon DEF LeaseKept
=============================================================================
