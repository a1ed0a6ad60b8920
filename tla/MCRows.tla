------------------------------- MODULE MCRows -------------------------------
(* Instances of RowPlanners for TLC: two requests, two HookPoints, tokens    *)
(* 0..3, thresholds small enough that rules are dropped, the pool is         *)
(* compacted, long window lists are searched and row tables overflow.        *)
EXTENDS RowPlanners

MCSelections == {All, Default, {1}}
MCWindowSets ==
    {<<>>, <<<<<<1, 3>>, <<0, 2>>>>, <<<<2, 3>>>>>>,
     <<<<>>, <<<<0, 1>>, <<2, Unbounded>>>>>>}
MCRanges == {<<0, 2>>, <<1, 4>>}

Planning == [default |-> {}, named |-> TRUE, gap |-> 0, maxSegs |-> 2, ruleMax |-> 1,
             ruleFactor |-> 1, poolMax |-> 3, changes |-> 2, arms |-> 0]
OneSegment == [Planning EXCEPT !.maxSegs = 1, !.default = All, !.changes = 1, !.gap = 1,
                               !.named = FALSE]
Arming == [Planning EXCEPT !.changes = 0, !.arms = 5]

MCScenarios == {Planning, OneSegment, Arming}
=============================================================================
