------------------------------ MODULE MCSpool ------------------------------
(* Instances of SpoolUpload for TLC.                                        *)
EXTENDS SpoolUpload

(* "c" is the small pack; "d" is a different pack under the pack_id of "a". *)
Sizes == [p \in Packs |-> IF p = "c" THEN 1 ELSE 2]
Ids == [p \in Packs |-> CASE p \in {"a", "d"} -> 1 [] p = "b" -> 2 [] OTHER -> 3]

Deploy(packs, stagers, n) ==
    [maxBytes |-> 4, packs |-> packs, stagers |-> stagers,
     stages |-> n, crashes |-> 1, faults |-> 1,
     inFlight |-> 2, workers |-> {"w1"}, cancels |-> 0]

(* Two stagers racing on a spool of two bytes; two upload workers under the *)
(* in-flight cap; two packs of one pack_id staged one after the other.      *)
Racing == [Deploy({"a", "c"}, {"s1", "s2"}, 3) EXCEPT !.maxBytes = 2]
Uploading == [Deploy({"a", "b", "c"}, {"s1"}, 2) EXCEPT !.inFlight = 3, !.workers = {"w1", "w2"}]
OneId == [Deploy({"a", "d"}, {"s1"}, 3) EXCEPT !.cancels = 1]
MCScenarios == {Racing, Uploading, OneId}
=============================================================================
