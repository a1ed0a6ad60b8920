----------------------------- MODULE NodeToggle -----------------------------
(***************************************************************************)
(* Runtime CUDA-graph node toggling (node_toggle.py) and the step seam of  *)
(* RingTransport (transport/ring.py) that it feeds, in one serving worker: *)
(* capture windows, the patched torch.cuda.CUDAGraph with its stamps and   *)
(* its replay guard, monitoring sessions, and one NodeToggleController per *)
(* transport.                                                              *)
(*                                                                         *)
(* A step publishes metadata for a set of hooks, reserves ring space for a *)
(* set, and its producers write payloads for a set.  The worker is one     *)
(* thread, so each call is one action; a step is two, because its metadata *)
(* is out before the graph replays.                                        *)
(*                                                                         *)
(* What the integration promises, in the words of docs/node-toggle.md and  *)
(* the docstrings: it clears the controller before a recapture, opens      *)
(* windows and activates hooks for the active transport's engine, binds    *)
(* full-model graphs and binds them before an eager activation, creates    *)
(* its graphs while the patch is installed, and replays a toggled graph on *)
(* gated steps only (any step under the table gate).  The framework may    *)
(* re-instantiate a graph at any time.                                     *)
(***************************************************************************)
EXTENDS ToggleRegistry, Sequences

CONSTANTS Engines, Scenarios

\* The hooks a full-model capture holds, those captures may hold, the sets the
\* integration enables, whether windows get an exclude_capture
\* predicate, device-side toggling, the per-HookPoint table gate, whether another
\* copy of the package has put its own class in place; and the bounds: the
\* engines there are, sessions, execs of one graph, failing CUDA calls.
ConfFields == {"full", "captures", "presets", "excludes", "device", "table", "foreign",
               "engines", "sessions", "execs", "faults"}

ASSUME ScenariosAssumption ==
    \A c \in Scenarios : DOMAIN c = ConfFields /\ c.full \subseteq Hooks

None == "none"

VARIABLES
    conf,       \* the deployment, which never changes
    reg,        \* engine -> its registry
    graph,      \* graph -> the CUDAGraph object and its _dmi_ stamps
    live,       \* graph -> its current exec: [on: enabled nodes, uploaded]
    sessions,   \* every _Session made: [engine, bound]
    current,    \* _SESSIONS: engine -> a session's number, 0 for none
    window,     \* _WINDOW.engine
    patch,      \* [class: torch.cuda.CUDAGraph, mine: _PATCHED_CLASS]
    guard,      \* _REPLAY_GUARD
    ctrl,       \* engine -> its transport's controller
    active,     \* the active transport's engine
    step,       \* the step in flight: [gated, reserved, published]
    fate,       \* how the last step or replay ended
    count       \* [transports: those activated, faults]

vars == <<conf, reg, graph, live, sessions, current, window, patch, guard, ctrl,
          active, step, fate, count>>
registryVars == <<reg, live>>
sessionVars == <<sessions, current, window, patch, guard>>

\* `valid` says that _guard_valid_version is the registry's version; `cache`
\* maps enabled sets to effective sets at that version; `torn`, an auxiliary
\* field, says that an eager apply failed and that its set is still in place.
NewController == [gate |-> FALSE, lazy |-> FALSE, effective |-> {}, valid |-> FALSE, cache |-> {},
                  torn |-> FALSE]

NewGraph == [class |-> "none", captured |-> FALSE, has |-> {}, ring |-> None,
             updatable |-> FALSE, exec |-> 0,
             owner |-> 0, excluded |-> FALSE, producers |-> "unknown", boundExec |-> 0,
             boundTo |-> None, uploadVia |-> None, uploadedExec |-> 0]

NoStep == [open |-> FALSE, gated |-> TRUE, reserved |-> {}, published |-> {}]
NoFate == [kind |-> "none", graph |-> None, uploaded |-> TRUE, torn |-> FALSE,
           reserved |-> {}, published |-> {}, written |-> {}]

Init ==
    /\ conf \in Scenarios
    /\ reg = [e \in Engines |-> EmptyRegistry]
    /\ graph = [g \in Graphs |-> NewGraph]
    /\ live = [g \in Graphs |-> [on |-> {}, uploaded |-> FALSE]]
    /\ sessions = <<>> /\ current = [e \in Engines |-> 0] /\ window = None
    /\ patch = [class |-> IF conf.foreign THEN "foreign" ELSE "original", mine |-> None]
    /\ guard = FALSE
    /\ ctrl = [e \in Engines |-> NewController]
    /\ active = None /\ step = NoStep /\ fate = NoFate
    /\ count = [transports |-> {}, faults |-> 0]

\* The worker is alive (a raise out of a replay ends it), and between two steps.
Alive == fate.kind \notin {"refused", "failed"}
Idle == Alive /\ ~step.open

\* One CUDA call more fails.
Fault == count.faults < conf.faults /\ count' = [count EXCEPT !.faults = @ + 1]
FaultIf(fails) == IF fails THEN Fault ELSE UNCHANGED count

\* toggle_registry_version moved: both memos are out of date.  BumpsNothing is a
\* registry that changes under the same version.
Bumped(c) == [c EXCEPT !.valid = FALSE, !.cache = {}]
Bump(e) == ctrl' = [ctrl EXCEPT ![e] = Bumped(@)]

-----------------------------------------------------------------------------
(* Sessions and the process-global patch.                                  *)

NewSession(e) == [engine |-> e, bound |-> {}]
LiveSessions(c) == {e \in Engines : c[e] # 0}

\* owns_engine, for the owner stamped on a graph.
Owned(g) == graph[g].owner # 0
OwnedBy(g, e) == Owned(g) /\ sessions[graph[g].owner].engine = e

\* The bound graphs of _session_for(e).
SessionBound(e) == IF current[e] = 0 THEN {} ELSE sessions[current[e]].bound

\* restore_cudagraph_patch, which disarms the guard first: only the class this
\* copy put in place is taken back.
RestorePatch ==
    /\ guard' = FALSE
    /\ patch' = [class |-> IF patch.mine = "toggle" /\ patch.class = "toggle"
                           THEN "original" ELSE patch.class,
                 mine |-> None]

\* install_cudagraph_patch: a keep-graph class in place, this copy's or another
\* copy's, stays.
InstallPatch ==
    LET class == IF patch.class = "original" THEN "toggle" ELSE patch.class
    IN patch' = [class |-> class, mine |-> class]

\* end_session that leaves the guard armed.
EndsArmed(e) ==
    /\ current' = [current EXCEPT ![e] = 0]
    /\ IF LiveSessions(current') = {}
       THEN patch' = [class |-> IF conf.foreign THEN "foreign" ELSE "original", mine |-> None]
       ELSE UNCHANGED patch
    /\ UNCHANGED <<sessions, guard>>

\* end_session on a table of sessions: the last one to end restores the class
\* and disarms the guard.
EndSession(e) ==
    /\ current' = [current EXCEPT ![e] = 0]
    /\ IF LiveSessions(current') = {} THEN RestorePatch ELSE UNCHANGED <<patch, guard>>
    /\ UNCHANGED sessions

\* _start_session and install_cudagraph_patch.
StartSession(e) ==
    /\ sessions' = Append(sessions, NewSession(e))
    /\ current' = [current EXCEPT ![e] = Len(sessions) + 1]
    /\ InstallPatch
    /\ UNCHANGED guard

ForgetWindow(e) == window' = IF window = e THEN None ELSE window

\* ring.activate: a transport is activated once, by the engine that made it, and
\* may replace another engine's.
ActivateTransport(e) ==
    /\ Idle /\ window = None /\ e \in conf.engines \ count.transports
    /\ active' = e
    /\ count' = [count EXCEPT !.transports = @ \cup {e}]
    /\ UNCHANGED <<conf, registryVars, sessionVars, graph, ctrl, step, fate>>

\* ring.deactivate.
Deactivate ==
    /\ Idle /\ active # None
    /\ active' = None
    /\ ForgetWindow(active)
    /\ EndSession(active)
    /\ UNCHANGED <<conf, registryVars, graph, ctrl, step, fate, count>>

\* clear_toggle_registry: nodes it disabled on bound execs come back on.  A node
\* set through the handle of a destroyed exec changes nothing.
ClearRegistry(e) ==
    /\ reg' = [reg EXCEPT ![e] = EmptyRegistry]
    /\ live' = [g \in Graphs |->
                  IF reg[e].bound[g] = graph[g].exec
                  THEN [live[g] EXCEPT !.on = @ \cup Disabled(reg[e], g)] ELSE live[g]]

\* begin_capture_window.
BeginWindow(e) ==
    /\ Idle /\ active = e /\ ~ctrl[e].gate /\ Len(sessions) < conf.sessions
    /\ live' = [g \in Graphs |->
                  IF reg[e].bound[g] = graph[g].exec
                  THEN [live[g] EXCEPT !.on = @ \cup Disabled(reg[e], g)] ELSE live[g]]
    /\ reg' = [reg EXCEPT ![e] = [EmptyRegistry EXCEPT !.device = conf.device, !.recording = TRUE]]
    /\ window' = e
    /\ StartSession(e)
    /\ ctrl' = [ctrl EXCEPT ![e] = [Bumped(@) EXCEPT !.torn = FALSE]]
    /\ UNCHANGED <<conf, graph, active, step, fate, count>>

\* end_capture_window.
EndWindow(e) ==
    /\ Idle /\ window = e
    /\ reg' = [reg EXCEPT ![e].recording = FALSE]
    /\ ForgetWindow(e)
    /\ IF current[e] # 0 /\ SessionBound(e) = {}
       THEN EndSession(e)
       ELSE UNCHANGED <<sessions, current, patch, guard>>
    /\ Bump(e)
    /\ UNCHANGED <<conf, live, graph, active, step, fate, count>>

\* NodeToggleController.clear.
Clear(e) ==
    /\ Idle /\ e \in count.transports
    /\ ClearRegistry(e)
    /\ ForgetWindow(e)
    /\ EndSession(e)
    /\ ctrl' = [ctrl EXCEPT ![e] = NewController]
    /\ UNCHANGED <<conf, graph, active, step, fate, count>>

-----------------------------------------------------------------------------
(* ToggleCUDAGraph: creation, capture and instantiation.                   *)

\* The framework constructs a graph of this copy's class (a graph of another
\* copy's class answers to that copy's window and guard).
CreateGraph(g) ==
    /\ Idle /\ graph[g].class = "none" /\ patch.class = "toggle"
    /\ graph' = [graph EXCEPT ![g].class = "toggle"]
    /\ UNCHANGED <<conf, registryVars, sessionVars, ctrl, active, step, fate, count>>

\* exclude_capture(): the framework's partial-model captures.
Excludes(hooks) == conf.excludes /\ window # None /\ hooks \notin {{}, conf.full}

\* _probe_engine finds an engine to read the launch counter of.
Probe == window # None \/ active # None \/ LiveSessions(current) # {}

\* _captured_producers: the launch counter moved, or nodes were recorded.
CapturedProducers(hooks) ==
    IF hooks # {} THEN "yes" ELSE IF Probe THEN "no" ELSE "unknown"

\* capture_begin, the model's producers, capture_end.  The producers of a capture
\* launch into the active engine, which records their nodes while recording is
\* on, and in device mode makes them device-updatable while it is off.  When the
\* upload fails capture_end raises, and the graph is captured all the same.
Capture(g, hooks, odd, fails) ==
    LET out == Excludes(hooks)
        e == active
        rec == e # None /\ hooks # {} /\ reg[e].recording /\ ~out
        planned == e # None /\ hooks # {} /\ reg[e].device /\ ~rec
        producers == CapturedProducers(hooks)
        upload == window # None /\ reg[window].device /\ producers # "no"
        seen == IF rec THEN [Register(reg[e], g, hooks) EXCEPT !.anomaly = @ \/ odd]
                ELSE IF planned THEN [reg[e] EXCEPT !.planned = @ \cup {g}] ELSE reg[e]
    IN /\ Idle /\ graph[g].class # "none" /\ ~graph[g].captured
       /\ hooks # {} => active # None
       /\ (odd => rec) /\ (fails => upload /\ planned) /\ FaultIf(fails)
       /\ graph' = [graph EXCEPT ![g] =
             [@ EXCEPT !.captured = TRUE, !.has = hooks, !.updatable = planned,
                       !.ring = IF hooks = {} THEN None ELSE e,
                       !.owner = IF window = None THEN 0 ELSE current[window],
                       !.excluded = out, !.producers = producers,
                       !.exec = IF upload THEN 1 ELSE 0,
                       !.uploadVia = IF upload THEN window ELSE None,
                       !.uploadedExec = IF upload /\ ~fails THEN 1 ELSE 0]]
       /\ live' = [live EXCEPT ![g] = [on |-> hooks, uploaded |-> upload /\ planned /\ ~fails]]
       /\ reg' = IF e = None THEN reg
                 ELSE [reg EXCEPT ![e] = IF upload /\ planned /\ ~fails
                                         THEN [seen EXCEPT !.uploaded = @ \cup {<<g, 1>>}] ELSE seen]
       /\ IF e # None /\ (rec \/ planned \/ out) THEN Bump(e) ELSE UNCHANGED ctrl
       /\ UNCHANGED <<conf, sessionVars, active, step, fate>>

\* capture_begin raised: node recording, if it was suspended, is on again.
CaptureFails(g, hooks) ==
    /\ Idle /\ graph[g].class # "none" /\ ~graph[g].captured
    /\ Excludes(hooks) /\ Bump(window)
    /\ UNCHANGED <<conf, registryVars, sessionVars, graph, active, step, fate, count>>

\* graph.instantiate() by the framework: a new exec, under a handle not seen
\* before, with every node on.
Instantiate(g) ==
    /\ Alive /\ graph[g].captured /\ graph[g].exec < conf.execs
    /\ graph' = [graph EXCEPT ![g].exec = @ + 1]
    /\ live' = [live EXCEPT ![g] = [on |-> graph[g].has, uploaded |-> FALSE]]
    /\ UNCHANGED <<conf, reg, sessionVars, ctrl, active, step, fate, count>>

\* _current_exec: instantiates a graph that has no exec yet.
CurrentExec(g) == IF graph[g].exec = 0 THEN 1 ELSE graph[g].exec

\* bind_graph, past its two refusals.  It takes the exec for uploaded, also when
\* the upload failed.
BindGraph(e, g, fails) ==
    LET x == CurrentExec(g)
        renewed == IF OwnedBy(g, e) THEN graph[g].owner ELSE Len(sessions) + 1
        s == IF current[e] # 0 THEN current[e] ELSE renewed
        made == IF s > Len(sessions) THEN Append(sessions, NewSession(e)) ELSE sessions
    IN /\ Idle /\ active = e /\ (ctrl[e].gate => ctrl[e].lazy)
       /\ graph[g].captured /\ graph[g].has = conf.full /\ ~graph[g].excluded
       /\ Len(made) <= conf.sessions
       /\ (fails => NeedsUpload(reg[e], g, x)) /\ FaultIf(fails)
       /\ reg' = [reg EXCEPT ![e] = BindExec(@, g, x, fails)]
       /\ live' = [live EXCEPT ![g].uploaded = @ \/ <<g, x>> \in reg'[e].uploaded]
       /\ graph' = [graph EXCEPT ![g] = [@ EXCEPT !.exec = x, !.boundExec = x, !.boundTo = e,
                                                  !.uploadedExec = x]]
       /\ sessions' = [made EXCEPT ![s].bound = @ \cup {g}]
       /\ current' = [current EXCEPT ![e] = s]
       /\ IF current[e] = 0 THEN InstallPatch ELSE UNCHANGED patch
       /\ Bump(e)
       /\ UNCHANGED <<conf, window, guard, active, step, fate>>

-----------------------------------------------------------------------------
(* The controller.                                                         *)

\* _validate_registry's four checks.
RegistrySound(r) ==
    /\ BoundGraphs(r) # {} /\ RegisteredGraphs(r) # {}
    /\ Uniform(r) /\ Complete(r) /\ ~r.anomaly

\* _validate_registry: only a pass is memoized.
Validates(e) == ctrl[e].valid \/ RegistrySound(reg[e])

\* _recompute: active AND enabled AND captured, memoized.
Effective(e, hooks) ==
    LET hit == {m \in ctrl[e].cache : m.pairs = hooks}
    IN IF hit # {} THEN (CHOOSE m \in hit : TRUE).specs
       ELSE {h \in hooks : IsEnabled(SetEnabled(reg[e], hooks), h)}

Recomputed(e, hooks, lazy) ==
    [gate |-> TRUE, lazy |-> lazy, effective |-> Effective(e, hooks), valid |-> TRUE,
     torn |-> FALSE,
     cache |-> ctrl[e].cache \cup {[pairs |-> hooks, specs |-> Effective(e, hooks)]}]

\* The nodes of live execs after apply_all has set all but the `bad` ones
\* through the registry's handles.
SetNodes(r, bad) ==
    [g \in Graphs |->
        IF r.bound[g] # 0 /\ r.bound[g] = graph[g].exec
        THEN LET done == {h \in Hooks : <<g, h>> \in Wanted(r) \ bad}
             IN [live[g] EXCEPT !.on = (@ \ done) \cup (done \cap r.enabled)]
        ELSE live[g]]

\* set_active_hooks or set_active_hooks_lazy on a registry that validates.
SetActiveHooks(e, hooks, lazy) ==
    LET r == SetEnabled(reg[e], hooks)
    IN /\ reg' = [reg EXCEPT ![e] = IF lazy THEN r ELSE ApplyAll(r, {})]
       /\ live' = IF lazy THEN live ELSE SetNodes(r, {})
       /\ ctrl' = [ctrl EXCEPT ![e] = Recomputed(e, hooks, lazy)]
       /\ UNCHANGED count

\* set_active_hooks whose apply_toggle failed on some nodes: the caller gets an
\* exception.  The enabled set is in, the other nodes are set, and the gate is
\* what it was.
ApplyFails(e, hooks) ==
    LET r == SetEnabled(reg[e], hooks)
    IN \E bad \in SUBSET Wanted(r) \ {{}} :
          /\ Fault
          /\ reg' = [reg EXCEPT ![e] = ApplyAll(r, bad)]
          /\ live' = SetNodes(r, bad)
          /\ ctrl' = [ctrl EXCEPT ![e].valid = TRUE, ![e].torn = TRUE]

\* set_active_hooks[_lazy], which refuses a registry that does not validate.
Set(e, hooks, lazy) ==
    IF Validates(e)
    THEN SetActiveHooks(e, hooks, lazy) \/ (~lazy /\ ApplyFails(e, hooks))
    ELSE UNCHANGED <<registryVars, ctrl, count>>

\* node_toggle.activate: arms the guard, then the set goes in or is refused.
Activate(e, hooks, lazy) ==
    /\ Idle /\ active = e /\ BoundGraphs(reg[e]) # {}
    /\ guard' = TRUE
    /\ Set(e, hooks, lazy)
    /\ UNCHANGED <<conf, graph, sessions, current, window, patch, active, step, fate>>

\* A per-step reconfiguration of an active gate.
Reconfigure(e, hooks, lazy) ==
    /\ Idle /\ active = e /\ ctrl[e].gate
    /\ Set(e, hooks, lazy)
    /\ UNCHANGED <<conf, graph, sessionVars, active, step, fate>>

-----------------------------------------------------------------------------
(* Steps.                                                                  *)

\* RingTransport.effective_specs and specs_for_step.
EffectiveSpecs(e) == IF ctrl[e].gate THEN ctrl[e].effective ELSE Hooks
SpecsForStep(e, gated) == IF gated \/ conf.table THEN EffectiveSpecs(e) ELSE Hooks

\* plan_step reserves for a set of its own reading.
Planned(e, gated) == IF ctrl[e].gate THEN SpecsForStep(e, gated) ELSE Hooks

\* set_gated_step, plan_step, pre_push_all_metas.
BeginStep(gated) ==
    /\ Idle /\ active # None
    /\ step' = [open |-> TRUE, gated |-> gated, reserved |-> Planned(active, gated),
                published |-> SpecsForStep(active, gated)]
    /\ fate' = NoFate
    /\ UNCHANGED <<conf, registryVars, sessionVars, graph, ctrl, active, count>>

Finished(written) ==
    [NoFate EXCEPT !.kind = "done", !.torn = ctrl[active].torn, !.reserved = step.reserved,
                   !.published = step.published, !.written = written]

\* The forward runs outside any graph; on a gated step through the safety net of
\* HookPoint.forward, which asks the engine for every hook.
RunEager ==
    LET gates == ctrl[active].gate /\ (step.gated \/ conf.table)
    IN /\ step.open
       /\ fate' = Finished(IF gates THEN {h \in Hooks : IsEnabled(reg[active], h)} ELSE Hooks)
       /\ step' = NoStep
       /\ UNCHANGED <<conf, registryVars, sessionVars, graph, ctrl, active, count>>

\* _guard_applies.
GuardApplies(g) ==
    /\ Owned(g) => OwnedBy(g, active)
    /\ g \in SessionBound(active) \/ graph[g].producers # "no"

\* ToggleCUDAGraph.replay takes the guarded path.
Guarded(g) == guard /\ active # None /\ ctrl[active].gate /\ GuardApplies(g)

\* _rebind_if_reinstantiated binds a new exec.
Rebinds(g) ==
    graph[g].boundExec # 0 /\ graph[g].boundTo = active /\ CurrentExec(g) # graph[g].boundExec

\* gated_step_requires_registry.
RequiresRegistry == step.gated /\ ~conf.table

\* _guarded_replay raises before it replays.
Refuses(g) ==
    IF graph[g].excluded THEN RequiresRegistry
    ELSE LET r == IF Rebinds(g) THEN BindExec(reg[active], g, CurrentExec(g), FALSE) ELSE reg[active]
         IN ~IsReady(r, g)

\* The node state a replay finds, and what it makes of the registry `old`: a
\* guarded replay binds a new exec (of a graph with recorded nodes, so there is
\* nothing to upload), and brings the graph up to date when the gate is lazy or
\* the exec new.
Brought(g, old) ==
    LET re == Rebinds(g)
        r == IF re THEN BindExec(old, g, CurrentExec(g), FALSE) ELSE old
        ensure == (re \/ ctrl[active].lazy) /\ IsStale(r, g)
    IN [reg |-> IF ensure THEN Applied(r, g) ELSE r,
        on |-> IF ensure THEN (live[g].on \ Touched(r, g)) \cup (Touched(r, g) \cap r.enabled)
               ELSE live[g].on,
        rebound |-> re]

\* Only capture_end uploads.
UploadsOnce(g) == FALSE

\* _upload_for_device_toggle on replay: the engine uploads an exec that holds
\* device-updatable nodes and is not recorded as uploaded.
UploadsNow(g) ==
    LET u == graph[g].uploadVia
    IN u # None /\ CurrentExec(g) # graph[g].uploadedExec
       /\ NeedsUpload(reg[u], g, CurrentExec(g))

\* The hooks that write into the active engine's ring when g's nodes `on` run.  A
\* partial-model graph leaves the other hooks to the eager part of the forward;
\* under the table gate a disabled row stops its producer.
Writes(g, on) ==
    LET all == on \cup (IF graph[g].has = conf.full THEN {} ELSE Hooks \ graph[g].has)
    IN IF conf.table /\ ctrl[active].gate THEN all \cap step.published ELSE all

\* A graph whose producers write the active engine's ring.
Monitored(g) == graph[g].ring # None /\ graph[g].ring = active

\* The integration replays a toggled graph on gated steps, and without a gate
\* only graphs that hold every hook or are segments.
Dispatches(g) ==
    /\ step.open
    /\ ctrl[active].gate => step.gated \/ conf.table \/ graph[g].has # conf.full
    /\ ~ctrl[active].gate => conf.full = Hooks \/ graph[g].has # conf.full

\* ToggleCUDAGraph.replay of the step's graph, or of some other graph.
Replay(g) ==
    LET guarded == Guarded(g)
        x == CurrentExec(g)
        via == graph[g].uploadVia
        upload == UploadsNow(g)
        loaded == IF upload THEN [reg EXCEPT ![via].uploaded = @ \cup {<<g, x>>}] ELSE reg
        brought == Brought(g, loaded[active])
        plain == guarded => graph[g].excluded
        rebound == ~plain /\ brought.rebound
        on == IF plain THEN live[g].on ELSE brought.on
    IN /\ Alive /\ graph[g].captured /\ active # None
       /\ Monitored(g) => Dispatches(g)
       /\ ~guarded \/ ~Refuses(g)
       /\ reg' = IF plain THEN loaded ELSE [loaded EXCEPT ![active] = brought.reg]
       /\ live' = [live EXCEPT ![g] = [on |-> on, uploaded |-> @.uploaded \/ upload]]
       /\ graph' = [graph EXCEPT ![g] =
             [@ EXCEPT !.exec = x,
                       !.boundExec = IF rebound THEN x ELSE @,
                       !.uploadedExec = IF rebound \/ via # None THEN x ELSE @]]
       /\ IF rebound THEN Bump(active) ELSE UNCHANGED ctrl
       /\ IF Monitored(g)
          THEN /\ fate' = [Finished(Writes(g, on)) EXCEPT !.graph = g, !.uploaded = live'[g].uploaded]
               /\ step' = NoStep
          ELSE /\ fate' = [NoFate EXCEPT !.graph = g, !.uploaded = live'[g].uploaded]
               /\ UNCHANGED step
       /\ UNCHANGED <<conf, sessionVars, active, count>>

\* The replay's upload fails, the guard refuses the replay, or its
\* ensure_graph_current fails: an exception out of the forward.
ReplayRaises(g) ==
    /\ Alive /\ graph[g].captured /\ active # None
    /\ Monitored(g) => Dispatches(g)
    /\ \E kind \in {"refused", "failed"} :
          /\ fate' = [NoFate EXCEPT !.kind = kind, !.graph = g]
          /\ \/ UploadsNow(g) /\ kind = "failed" /\ Fault
             \/ Guarded(g) /\ Refuses(g) /\ kind = "refused" /\ UNCHANGED count
             \/ /\ Guarded(g) /\ ~Refuses(g) /\ ~graph[g].excluded
                /\ Brought(g, reg[active]).reg.applied # reg[active].applied
                /\ kind = "failed" /\ Fault
    /\ step' = NoStep
    /\ UNCHANGED <<conf, registryVars, sessionVars, graph, ctrl, active>>

Next ==
    \/ \E e \in Engines : ActivateTransport(e) \/ BeginWindow(e) \/ EndWindow(e) \/ Clear(e)
    \/ Deactivate
    \/ \E g \in Graphs : CreateGraph(g) \/ Instantiate(g) \/ Replay(g) \/ ReplayRaises(g)
    \/ \E g \in Graphs, hooks \in conf.captures : CaptureFails(g, hooks)
    \/ \E g \in Graphs, fails \in BOOLEAN :
          \/ \E hooks \in conf.captures, odd \in BOOLEAN : Capture(g, hooks, odd, fails)
          \/ \E e \in Engines : BindGraph(e, g, fails)
    \/ \E e \in Engines, hooks \in conf.presets, lazy \in BOOLEAN :
          Activate(e, hooks, lazy) \/ Reconfigure(e, hooks, lazy)
    \/ \E gated \in BOOLEAN : BeginStep(gated)
    \/ RunEager

Spec == Init /\ [][Next]_vars

-----------------------------------------------------------------------------
(* Properties.                                                             *)

\* The three lanes agree: a step that ran to its end reserved ring space,
\* published metadata and wrote payloads for one and the same set of hooks,
\* however the gate, the captured graphs and their execs changed before it.  An
\* eager apply that failed on some node leaves the device lane torn from the
\* other two, which still agree with each other; the next set that goes in, a
\* clear or a new capture window heals it, whatever nodes had failed.
LanesAgree ==
    fate.kind = "done" => /\ fate.reserved = fate.published
                          /\ fate.torn \/ fate.written = fate.published

\* The process-global patch of torch.cuda.CUDAGraph is in place exactly while
\* some session lives, another copy's class is never taken away, the guard is
\* armed only while a session lives, and it is armed whenever the active
\* transport's gate filters metadata.  And it refuses no one else's graph: a
\* graph it refused captured producers, or could not be told not to have, in no
\* other engine's session, and is not registered and bound as it stands.
PatchIsOwned ==
    LET open == LiveSessions(current) # {}
        refused == graph[fate.graph]
    IN /\ (patch.mine # None) = open
       /\ patch.class = IF conf.foreign THEN "foreign" ELSE IF open THEN "toggle" ELSE "original"
       /\ guard => open
       /\ (active # None /\ ctrl[active].gate) => guard
       /\ fate.kind = "refused" =>
             /\ refused.has # {} \/ refused.producers = "unknown" \/ refused.boundTo = active
             /\ Owned(fate.graph) => OwnedBy(fate.graph, active)
             /\ ~IsReady(reg[active], fate.graph)

\* An exec with device-updatable nodes that has launched was uploaded first, for
\* captures made in a device-mode window and until the registry forgets them:
\* at capture_end, or by the replay that finds a new exec, also after an upload
\* failed there.  Only when bind_graph's own upload failed does a replay launch
\* an exec that was not uploaded, and then the registry counts an anomaly, so
\* that no set of hooks can be activated on it.
UploadedBeforeLaunch ==
    LET q == graph[fate.graph]
    IN (Alive /\ fate.graph # None)
         => (q.updatable /\ q.uploadVia # None /\ fate.graph \in reg[q.uploadVia].planned
                => fate.uploaded \/ reg[q.uploadVia].anomaly)
=============================================================================
