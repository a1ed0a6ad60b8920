------------------------------ MODULE MCToggle ------------------------------
(***************************************************************************)
(* Small workers for NodeToggle.                                           *)
(***************************************************************************)
EXTENDS NodeToggle, TLC

\* The graphs are interchangeable: every property is an invariant, and no
\* definition names a graph.
Symmetry == Permutations(Graphs)

Base == [full |-> Hooks, captures |-> {Hooks}, presets |-> {{"h1"}, {}},
         excludes |-> FALSE, device |-> FALSE, table |-> FALSE, foreign |-> FALSE,
         engines |-> {"e1"}, sessions |-> 2, execs |-> 2, faults |-> 0]

\* Re-instantiated graphs.
Reinstantiated == [Base EXCEPT !.sessions = 1]

\* A CUDA call fails: with re-instantiated graphs, and with two sets of hooks.
Faulty == [Base EXCEPT !.presets = {{"h1"}}, !.sessions = 1, !.faults = 1]
FaultySets == [Base EXCEPT !.execs = 1, !.faults = 1]

\* Partial-model captures, kept out of the registry or not.
Excluding == [Base EXCEPT !.captures = {Hooks, {"h1"}}, !.presets = {{"h1"}}, !.excludes = TRUE,
                !.execs = 1]
Careless == [Excluding EXCEPT !.excludes = FALSE]

\* Two engines one after the other, and a graph without producers.
Succession == [Base EXCEPT !.captures = {Hooks, {}}, !.presets = {{"h1"}},
                 !.engines = {"e1", "e2"}, !.execs = 1]

\* Hooks that no graph has captured.
Missing == [Base EXCEPT !.full = {"h1"}, !.captures = {{"h1"}}, !.presets = {Hooks, {"h2"}},
              !.execs = 1]

\* Row tables gate every producer; segments are device-updatable.
Tables == [Excluding EXCEPT !.table = TRUE, !.execs = 2]
Updatable == [Tables EXCEPT !.device = TRUE, !.sessions = 1, !.faults = 1]

\* Another copy of the package has put its class in place.
Foreign == [Base EXCEPT !.foreign = TRUE, !.engines = {"e1", "e2"}]

ToggleScenarios == {Reinstantiated, Faulty, FaultySets, Excluding, Careless, Succession, Missing, Tables,
                    Updatable, Foreign}
=============================================================================
