------------------------------- MODULE MCRing -------------------------------
(* Instances of Ring for TLC. *)
EXTENDS RingInvariant

\* Steps of one tensor; of an empty tensor before two units; of two tensors;
\* and steps larger than the rings in tensors or in bytes.
MCPlans == {<<1>>, <<0, 2>>, <<1, 2>>, <<1, 1, 2>>, <<1, 4>>}

Bound(plans, n) ==
    [plans |-> plans, eager |-> {FALSE}, hooks |-> n, mayFail |-> FALSE,
     leaks |-> 0, warmups |-> 0, barriers |-> 0, timed |-> FALSE, asyncs |-> 0]

\* Reserved steps with abandoned reservations and a warmup run.
Steps == [Bound({<<1>>, <<0, 2>>, <<1, 2>>}, 4) EXCEPT !.leaks = 1, !.warmups = 1]
\* The eager safety net and CPU-direct tensors.
Eager == [Bound({<<1>>, <<1, 1, 2>>, <<1, 4>>}, 3) EXCEPT !.eager = BOOLEAN, !.leaks = 1]
\* An abandoned reservation that leaves an eager tensor no slot.
Abandoned == [Bound({<<1>>, <<1, 2>>}, 2) EXCEPT !.eager = BOOLEAN, !.leaks = 1]
\* Delivery barriers of a second thread, without a timeout and with one.
Barriers == [Bound({<<1>>, <<1, 2>>}, 3) EXCEPT !.barriers = 2]
Timed == [Bound({<<1>>, <<1, 2>>}, 2) EXCEPT !.barriers = 2, !.timed = TRUE]
\* A failing copy, a barrier and an asynchronous flush.
Failing == [Bound({<<1>>, <<1, 2>>}, 2) EXCEPT !.mayFail = TRUE, !.barriers = 1, !.asyncs = 1]
MCScenarios == {Steps, Eager, Abandoned, Barriers, Timed, Failing}
=============================================================================
