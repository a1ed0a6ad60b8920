--------------------------- MODULE SnapshotLog ---------------------------
(***************************************************************************)
(* What the capture catalog promises its readers: an append-only log of    *)
(* snapshots.  Each publish adds one version, above every version before   *)
(* it, and a published version never changes what it admits.  The reader   *)
(* pins a version and trusts exactly this; CatalogPublish implements it.   *)
(***************************************************************************)
EXTENDS Integers

VARIABLE log    \* published version -> the packs its manifest admits

Empty == [v \in {} |-> {}]
Newest == IF DOMAIN log = {} THEN 0
        ELSE CHOOSE v \in DOMAIN log : \A u \in DOMAIN log : u <= v

Add(v, packs) ==
    /\ v > Newest
    /\ log' = [u \in DOMAIN log \cup {v} |-> IF u = v THEN packs ELSE log[u]]

Publish == \E v \in DOMAIN log' : Add(v, log'[v])

Spec == log = Empty /\ [][Publish]_log
=============================================================================
