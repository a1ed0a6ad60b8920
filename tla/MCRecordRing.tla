---------------------------- MODULE MCRecordRing ----------------------------
(* Model-checking instances of RecordRing.                                  *)
EXTENDS RecordRing

Item(r, c) == [res |-> r, reclaim |-> c]
MixedPlans == {<<Item(2, TRUE)>>, <<Item(1, FALSE), Item(2, TRUE)>>, <<Item(4, FALSE)>>}
TightPlans == {<<Item(2, FALSE)>>}
SmallPlans == {<<Item(2, TRUE)>>, <<Item(1, FALSE)>>}

Deploy(p, plans, n) ==
    [policy |-> p, plans |-> plans, budget |-> FALSE, gated |-> FALSE, faults |-> FALSE,
     records |-> n, flushes |-> 2]

\* A stall budget under both policies, with records larger than the rings and
\* (under "raise") failing copies; a step-gated drain; a step that begins after
\* a skipped one while the discarded payloads are still under way; and a stuck
\* sink, with a record in the worker's hands, one in staging and one in the
\* ring, that a fourth one waits for.
Raising == [Deploy("raise", MixedPlans, 2) EXCEPT !.budget = TRUE, !.faults = TRUE]
Disabling == [Deploy("disable", MixedPlans, 2) EXCEPT !.budget = TRUE, !.flushes = 1]
Gated == [Deploy("raise", SmallPlans, 2) EXCEPT !.gated = TRUE, !.flushes = 1]
Skipped == [Deploy("disable", TightPlans, 3) EXCEPT !.budget = TRUE, !.flushes = 3]
Stuck == [Deploy("disable", TightPlans, 4) EXCEPT !.budget = TRUE, !.flushes = 1]
MCScenarios == {Raising, Disabling, Gated, Skipped, Stuck}
=============================================================================
