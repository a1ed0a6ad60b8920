--------------------------- MODULE ToggleRegistry ---------------------------
(***************************************************************************)
(* The engine's registry of captured producer nodes                        *)
(* (native/csrc/ring/toggle_registry.cu), one record per engine, as the    *)
(* operators node_toggle.py calls on it under its mutex.                   *)
(*                                                                         *)
(* The registry's version only grows, and callers compare it for equality  *)
(* with a version they kept, so the model keeps with each memo whether the *)
(* version still is the one it was made at: every operator here but        *)
(* SetEnabled, ApplyAll and EnsureCurrent bumps it.  Likewise `applied`    *)
(* holds the graphs whose applied version is the target version.           *)
(***************************************************************************)
EXTENDS Naturals, FiniteSets

CONSTANTS Graphs, Hooks

NoNodes == [g \in Graphs |-> {}]

EmptyRegistry ==
    [nodes     |-> NoNodes,                    \* reg_nodes_: hooks with a node, by graph
     bound     |-> [g \in Graphs |-> 0],       \* reg_exec_: the exec, 0 when not bound
     last      |-> NoNodes,                    \* nodes whose last_enabled is set
     known     |-> NoNodes,                    \* nodes whose state_known is set
     enabled   |-> {},                         \* enabled_hooks_
     active    |-> FALSE,                      \* toggle_active_
     applied   |-> {},                         \* graphs at the target version
     anomaly   |-> FALSE,                      \* anomaly_ > 0
     recording |-> FALSE,                      \* toggle_capture_
     device    |-> FALSE,                      \* device_mode_
     planned   |-> {},                         \* graphs with device-updatable nodes
     uploaded  |-> {}]                         \* <<graph, exec>> uploaded once

RegisteredGraphs(r) == {g \in Graphs : r.nodes[g] # {}}
BoundGraphs(r) == {g \in Graphs : r.bound[g] # 0}
RegisteredHooks(r) == UNION {r.nodes[g] : g \in Graphs}

Uniform(r) == Cardinality({r.nodes[g] : g \in RegisteredGraphs(r)}) <= 1
Complete(r) == RegisteredGraphs(r) = BoundGraphs(r)
IsReady(r, g) == g \in RegisteredGraphs(r) \cap BoundGraphs(r)
IsEnabled(r, h) == r.active => h \in r.enabled \cap RegisteredHooks(r)

\* register_node for every producer of one capture.
Register(r, g, hooks) ==
    [r EXCEPT !.nodes[g] = hooks, !.last[g] = hooks, !.known[g] = hooks]

\* upload_device_graph_locked has an upload to make.
NeedsUpload(r, g, exec) == g \in r.planned /\ <<g, exec>> \notin r.uploaded

\* bind_exec that takes the old exec's node state for the new one's.
BindKeeps(r, g, exec, fails) ==
    [r EXCEPT !.bound[g] = exec, !.applied = @ \ {g}, !.anomaly = @ \/ fails,
              !.uploaded = IF g \in r.planned /\ ~fails THEN @ \cup {<<g, exec>>} ELSE @]

\* bind_exec: nothing recorded for another exec describes this one.  An upload
\* that fails is an anomaly.
BindExec(r, g, exec, fails) ==
    LET other == r.bound[g] \notin {0, exec}
        fresh == IF other
                 THEN [r EXCEPT !.applied = @ \ {g}, !.known[g] = {},
                                !.uploaded = @ \ {<<g, r.bound[g]>>}]
                 ELSE r
    IN [fresh EXCEPT !.bound[g] = exec, !.anomaly = @ \/ fails,
                     !.uploaded = IF g \in r.planned /\ ~fails THEN @ \cup {<<g, exec>>} ELSE @]

SetEnabled(r, hooks) == [r EXCEPT !.enabled = hooks, !.active = TRUE, !.applied = {}]

\* The nodes an apply has to set: their state is unknown or not the wanted one.
Touched(r, g) ==
    {h \in r.nodes[g] : ~(h \in r.known[g] /\ (h \in r.last[g]) = (h \in r.enabled))}

\* Setting every touched node of one graph, as apply_all and ensure_current do.
Applied(r, g) ==
    [r EXCEPT !.last[g] = r.nodes[g] \cap r.enabled, !.known[g] = r.nodes[g],
              !.applied = @ \cup {g}]

\* The nodes of bound graphs that apply_all sets, as pairs.
Wanted(r) == {p \in BoundGraphs(r) \X Hooks : p[2] \in Touched(r, p[1])}

\* apply_all: goes on past the nodes `bad` whose call fails, keeps the state of
\* every node it did set, and counts the graphs as current if none failed.
ApplyAll(r, bad) ==
    LET done(g) == {h \in Hooks : <<g, h>> \in Wanted(r) \ bad}
    IN [r EXCEPT !.last = [g \in Graphs |-> (@[g] \ done(g)) \cup (done(g) \cap r.enabled)],
                 !.known = [g \in Graphs |-> @[g] \cup done(g)],
                 !.applied = IF bad = {} THEN BoundGraphs(r) ELSE @]

\* ensure_current has work to do.
IsStale(r, g) == r.active /\ g \notin r.applied /\ IsReady(r, g)

\* clear: every bound node back on, everything forgotten.
Disabled(r, g) ==
    IF r.bound[g] = 0 THEN {} ELSE {h \in r.nodes[g] : ~(h \in r.known[g] /\ h \in r.last[g])}
=============================================================================
