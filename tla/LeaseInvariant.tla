--------------------------- MODULE LeaseInvariant ---------------------------
(***************************************************************************)
(* The inductive invariant behind OneFencedStatement: why the lease admits *)
(* one publisher although claims land late, writers crash or give up with   *)
(* statements in flight, and nobody's clock is right.                       *)
(***************************************************************************)
EXTENDS PublisherLease

Lease == [term : Nat \ {0}, id : Ids]
FencedKinds == {"manifest", "watermark"}
Kinds == {"claim", "release", "inventory"} \cup FencedKinds
Working == {"allocate", "insert", "owner", "renew", "manifest", "watermark", "count", "published"}
Steps == {"idle", "ready", "await", "readback"} \cup Working

(* A statement is a record of its fields; what a publish carries is free.   *)
IsStatement(s) ==
    s \in [kind : Kinds, by : Writers, term : Nat, id : Ids \cup {-1}, version : {s.version},
           pub : {s.pub}, packs : {s.packs}, heard : BOOLEAN, ends : Nat]

LeaseTypeOK ==
    /\ conf \in Scenarios /\ now \in Nat
    /\ rows \subseteq [term : Nat \ {0}, id : Ids, exp : Nat] /\ used \subseteq Ids
    /\ held \in [Writers -> Lease \cup {NoLease}] /\ claim \in [Writers -> Lease \cup {NoLease}]
    /\ next \in [Writers -> {"ready"} \cup FencedKinds] /\ pc \in [Writers -> Steps]
    /\ \A s \in flight : IsStatement(s)

(* The head term is the highest there is.                                   *)
HeadInv ==
    /\ HeadTerm \in Nat /\ \A r \in rows : r.term <= HeadTerm
    /\ HeadTerm = 0 \/ \E r \in rows : r.term = HeadTerm

Claims == {s \in flight : s.kind = "claim"}
Releases == {s \in flight : s.kind = "release"}
FencedOnes == {s \in flight : s.kind \in FencedKinds}

(* Whoever uses an id drew it, and is the only one to use it.               *)
Has(w, i) == held[w].id = i \/ claim[w].id = i
OwnerInv ==
    /\ \A r \in rows : r.id \in used
    /\ \A s \in flight : s.kind # "inventory" => s.id \in used
    /\ \A w \in Writers : Holds(w) => held[w].id \in used
    /\ \A w \in Writers : claim[w] # NoLease => claim[w].id \in used
    /\ \A v, w \in Writers : \A i \in Ids : Has(v, i) /\ Has(w, i) => v = w

(* A writer claims only above the lease it has, and works only with one.    *)
WriterInv ==
    \A w \in Writers :
       /\ claim[w] # NoLease /\ Holds(w) => held[w].term < claim[w].term
       /\ Holds(w) => held[w].term <= HeadTerm
       /\ Holds(w) /\ held[w].term = HeadTerm => held[w].id \in HeadIds
       /\ pc[w] \in Working => Holds(w)
       /\ claim[w] # NoLease => pc[w] \in {"await", "readback"}
       /\ claim[w] # NoLease /\ pc[w] = "await" => \E s \in Claims : s.by = w /\ s.heard

(* A writer waits for one statement, which it sent with the lease it has;   *)
(* what it no longer listens to carries an id it has given up.              *)
SentInv ==
    /\ \A s \in flight :
          /\ s.heard => pc[s.by] = "await"
          /\ s.heard /\ s.kind = "claim" => claim[s.by] = [term |-> s.term, id |-> s.id]
          /\ s.heard /\ s.kind # "claim" => claim[s.by] = NoLease
          /\ s.heard /\ s.kind = "release" => held[s.by] = [term |-> s.term, id |-> s.id]
          /\ s.heard /\ s.kind \in FencedKinds => Holds(s.by) /\ held[s.by].id = s.id
          /\ ~s.heard /\ s.kind \in FencedKinds \cup {"claim"} =>
                \A w \in Writers : ~Has(w, s.id)
    /\ \A s, t \in flight : s.heard /\ t.heard /\ s.by = t.by => s = t

(* Of one id at most one claim or fenced statement is in flight.            *)
OneEachInv ==
    \A s, t \in Claims \cup FencedOnes : s.id = t.id => s = t

(* A release in flight is older than the lease its id publishes under.      *)
ReleaseInv ==
    \A s \in Releases :
       /\ s.term \in 1 .. HeadTerm
       /\ \A w \in Writers :
             /\ claim[w].id = s.id => s.term < claim[w].term
             /\ held[w].id = s.id => s.term <= held[w].term
             /\ held[w].id = s.id /\ pc[w] \in FencedKinds => s.term < held[w].term
       /\ \A t \in FencedOnes : t.id = s.id => s.term < HeadTerm

(* An id has no row above the lease, or the claim, it is held by.           *)
RowInv ==
    \A w \in Writers : \A r \in rows :
       /\ Holds(w) /\ held[w].id = r.id /\ claim[w] = NoLease => r.term <= held[w].term
       /\ claim[w].id = r.id => r.term <= claim[w].term

(* A claim that would take the head over was sent past it: of each claimant *)
(* of the head the lease had run out, or it came too late to be alone.      *)
Expired(i) == \E r \in HeadRows : r.id = i /\ r.exp <= now + Skew
Established(i) ==
    \/ \E w \in Writers : held[w] = [term |-> HeadTerm, id |-> i]
    \/ \E s \in FencedOnes : s.id = i
ClaimInv ==
    \A s \in Claims :
       /\ s.term \in 1 .. HeadTerm + 1
       /\ s.term = HeadTerm + 1 =>
             \A i \in HeadIds : i = s.id \/ Expired(i) \/ (HeadIds # {i} /\ ~Established(i))

(* One claimant of the head at most read its term back as its own.          *)
SoleInv == \A i, j \in HeadIds : Established(i) /\ Established(j) => i = j

(* A running statement is the head's, whose lease outlives it on any clock. *)
RunInv ==
    \A s \in Running :
       /\ s.kind \in FencedKinds /\ now <= s.ends
       /\ s.id \in HeadIds /\ LivesPast(s.id, s.ends + Skew)

LeaseInv ==
    /\ LeaseTypeOK /\ HeadInv /\ OwnerInv /\ WriterInv /\ SentInv /\ OneEachInv
    /\ ReleaseInv /\ RowInv /\ ClaimInv /\ SoleInv /\ RunInv

(* What a step leaves behind: the invariant, and no head below the last one. *)
LeaseKept == LeaseInv' /\ HeadTerm <= HeadTerm'

---------------------------------------------------------------------------
(* Every step of CatalogPublish is one of these, as the lease sees it.       *)

(* A writer goes on by itself, possibly without its lease.                  *)
LocalStep(w) ==
    /\ pc[w] # "await"
    /\ \E x \in Steps \ ({"await", "readback"} \cup FencedKinds) :
         /\ pc' = [pc EXCEPT ![w] = x]
         /\ \/ held' = held /\ claim[w] = NoLease /\ (x \in Working => Holds(w))
            \/ held' = [held EXCEPT ![w] = NoLease] /\ x \notin Working
    /\ claim' = [claim EXCEPT ![w] = NoLease]
    /\ next' \in [Writers -> {"ready"} \cup FencedKinds]
    /\ UNCHANGED <<conf, now, rows, used, flight>>

(* It claims the next term, under its own id or a fresh one.                *)
SendClaim(w, i) ==
    /\ pc[w] # "await" /\ claim[w] = NoLease
    /\ i \in Ids /\ IF Holds(w) THEN held[w].id = i ELSE i \notin used
    /\ \E t \in Clock : ~RejectLive(i, t)
    /\ claim' = [claim EXCEPT ![w] = [term |-> HeadTerm + 1, id |-> i]]
    /\ flight' = flight \cup {LeaseStatement("claim", w, [term |-> HeadTerm + 1, id |-> i])}
    /\ pc' = [pc EXCEPT ![w] = "await"]
    /\ next' \in [Writers -> {"ready"} \cup FencedKinds]
    /\ used' = used \cup {i}
    /\ UNCHANGED <<conf, now, rows, held>>

(* It sends another statement, under the lease it has.                      *)
SendOther(w, s) ==
    /\ pc[w] # "await" /\ claim[w] = NoLease
    /\ IsStatement(s) /\ s.by = w /\ s.heard /\ s.ends = 0
    /\ \/ s.kind = "release" /\ Holds(w) /\ held[w] = [term |-> s.term, id |-> s.id]
          /\ pc[w] = "ready"
       \/ s.kind \in FencedKinds /\ pc[w] \in FencedKinds /\ s.id = held[w].id
       \/ s.kind = "inventory"
    /\ flight' = flight \cup {s} /\ pc' = [pc EXCEPT ![w] = "await"]
    /\ UNCHANGED <<conf, now, rows, used, held, claim, next>>

(* Its claim stands alone at its term: it is the lease.                      *)
ReadBackOk(w) ==
    /\ pc[w] = "readback"
    /\ {r.id : r \in {x \in rows : x.term = claim[w].term}} = {claim[w].id}
    /\ held' = [held EXCEPT ![w] = claim[w]] /\ claim' = [claim EXCEPT ![w] = NoLease]
    /\ pc' = [pc EXCEPT ![w] = next[w]]
    /\ next' \in [Writers -> {"ready"} \cup FencedKinds]
    /\ UNCHANGED <<conf, now, rows, used, flight>>

(* A publish or inventory statement is over, and its writer, if it waits,    *)
(* goes on, possibly without its lease.                                      *)
EndStep(s) ==
    /\ s \in flight /\ s.kind \notin {"claim", "release"}
    /\ flight' = flight \ {s}
    /\ \/ ~s.heard /\ pc' = pc /\ held' = held
       \/ s.heard /\ \E x \in Steps \ ({"await", "readback"} \cup FencedKinds) :
             /\ pc' = [pc EXCEPT ![s.by] = x]
             /\ \/ held' = held /\ (x \in Working => s.kind \in FencedKinds)
                \/ held' = [held EXCEPT ![s.by] = NoLease] /\ x \notin Working
    /\ UNCHANGED <<conf, now, rows, used, claim, next>>

(* A writer stops listening, and forgets its lease unless it waited for a    *)
(* release or an inventory row.                                              *)
Abandon(w) ==
    /\ flight' = Unheard(w)
    /\ \/ held' = [held EXCEPT ![w] = NoLease] /\ pc' = [pc EXCEPT ![w] = "idle"]
       \/ /\ \E s \in flight : s.by = w /\ s.heard /\ s.kind \in {"release", "inventory"}
          /\ held' = held /\ pc' = [pc EXCEPT ![w] = "ready"]
    /\ claim' = [claim EXCEPT ![w] = NoLease]
    /\ next' \in [Writers -> {"ready"} \cup FencedKinds]
    /\ UNCHANGED <<conf, now, rows, used>>

(* The server admits a fenced statement.                                     *)
Admit(s) ==
    /\ s \in FencedOnes /\ s.ends = 0
    /\ \E t \in Clock : Fence(s.id, t)
    /\ flight' = (flight \ {s}) \cup {[s EXCEPT !.ends = now + PublishTimeout]}
    /\ UNCHANGED <<conf, now, rows, used, held, claim, next, pc>>

(* Time passes.                                                              *)
TimeStep ==
    /\ \A s \in Running : s.ends > now
    /\ now' = now + 1
    /\ UNCHANGED <<conf, rows, used, held, claim, next, pc, flight>>

(* The collector deletes lease rows below a head it read, or a step does     *)
(* not concern the lease.                                                    *)
CollectStep(term) ==
    /\ term \in 0 .. HeadTerm
    /\ rows' = rows \/ rows' = {r \in rows : r.term >= term}
    /\ UNCHANGED <<conf, now, used, held, claim, next, pc, flight>>

(* A claim lands.                                                            *)
LandClaim(s) ==
    /\ s \in Claims
    /\ \E t \in Clock : Stamp(s, t + TTL)
    /\ flight' = flight \ {s}
    /\ pc' = IF s.heard THEN [pc EXCEPT ![s.by] = "readback"] ELSE pc
    /\ UNCHANGED <<conf, now, used, held, claim, next>>

(* A release lands.                                                          *)
LandRelease(s) ==
    /\ s \in Releases
    /\ \E t \in Clock : Stamp(s, t)
    /\ flight' = flight \ {s}
    /\ held' = IF s.heard THEN [held EXCEPT ![s.by] = NoLease] ELSE held
    /\ pc' = IF s.heard THEN [pc EXCEPT ![s.by] = "idle"] ELSE pc
    /\ UNCHANGED <<conf, now, used, claim, next>>
=============================================================================
