------------------------------ MODULE MCReader ------------------------------
(* Instances of Hydration for TLC.                                          *)
EXTENDS Hydration

MCContents == <<<<1, 2>>, <<2, 3>>, <<1, 3>>>>
MCPayloadBytes == <<3, 2, 5>>

Walk == [consistent |-> TRUE, limits |-> {1}, filters |-> {{1, 2, 3}, {1, 3}}, inline |-> 2,
         packs |-> {1, 2}, versions |-> 3, rewrites |-> 3, readers |-> {"r1"}, calls |-> 1,
         gap |-> 0, cachePacks |-> 1, cacheBytes |-> 20, budgets |-> {}]
Select3 == [Walk EXCEPT !.limits = {2, 3}, !.filters = {{1, 2, 3}}, !.packs = Packs, !.versions = 2,
              !.rewrites = 3]
Lagging == [Walk EXCEPT !.consistent = FALSE, !.packs = Packs, !.versions = 2, !.rewrites = 2,
              !.limits = {3}]
Hydrating == [Walk EXCEPT !.versions = 1, !.rewrites = 2, !.readers = Readers, !.limits = {3},
                !.packs = Packs, !.filters = {{1, 2, 3}}, !.inline = 1, !.calls = 2,
                !.budgets = {[requests |-> 3, bytes |-> 30]}]
MCSafety == {Walk, Select3, Lagging, Hydrating, [Hydrating EXCEPT !.gap = 2, !.cachePacks = 2, !.cacheBytes = 30]}
=============================================================================
