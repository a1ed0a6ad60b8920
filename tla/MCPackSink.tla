----------------------------- MODULE MCPackSink -----------------------------
(* Instances of PackSink for TLC.                                           *)
EXTENDS PackSinkInvariant

Rec(scope, bytes, id) == [scope |-> scope, bytes |-> bytes, id |-> id]

RouteTwo == [a |-> 1, b |-> 2]
RouteOne == [a |-> 1, b |-> 1]

(* Two scopes on two pairs; scope a's second record may meet its first in   *)
(* the open pack.                                                           *)
TwoScopes == <<Rec("a", 1, 1), Rec("b", 1, 2), Rec("a", 1, 3)>>

(* Admission passes the second record, which fits no pack once framed.      *)
TooBig == <<Rec("a", 1, 1), Rec("a", 4, 2), Rec("a", 1, 3)>>

(* A repeated capture id, then another scope on the same pair.              *)
Repeats == <<Rec("a", 1, 1), Rec("a", 1, 1), Rec("b", 1, 2)>>

Conf(workers, route, script) ==
    [workers |-> workers, route |-> route, script |-> script, queueRecords |-> 1,
     block |-> TRUE, timed |-> FALSE, faults |-> FALSE, flushes |-> 1, releases |-> 1]

(* Blocking admission on two pairs; flushes that time out and ride on each  *)
(* other's barriers, or on the release's, while a packer or a stager fails; *)
(* drop-newest admission of a sink that is released and acquired again.     *)
TwoPairs == Conf(2, RouteTwo, TwoScopes)
Timed == [Conf(1, RouteOne, Repeats) EXCEPT !.timed = TRUE, !.faults = TRUE, !.flushes = 2,
                                                    !.releases = 0]
Released == [Timed EXCEPT !.flushes = 1, !.releases = 1]
Dropping == [Conf(1, RouteOne, TooBig) EXCEPT !.block = FALSE, !.releases = 2, !.queueRecords = 2]
(* No finite timeout: every wait must end by a notification.                *)
Untimed == [Conf(1, RouteOne, Repeats) EXCEPT !.faults = TRUE]
MCScenarios == {TwoPairs, Timed, Released, Dropping, Untimed}
=============================================================================
