---------------------------- MODULE RowPlanners ----------------------------
(***************************************************************************)
(* The planners that serve a worker's steps (hook_rows.py) and what they   *)
(* keep between steps.  HookRowPlanner keeps the request groups of one     *)
(* request order, and is replaced when the demand changes.                 *)
(* PackedDemandPlanner lives on: it keeps every request's compiled rule in *)
(* a pool, recompiled when the request's demand entries are other objects, *)
(* compacted when mostly dead, and the batch of the last request order and *)
(* demand.  A HookPoint's gather producer is armed for one attachment.     *)
(*                                                                         *)
(* The serving thread calls plan() once per step.  A refused layout        *)
(* changes nothing and is left out.  HookPoints are 1..NumHooks, in the    *)
(* order of keys.                                                          *)
(***************************************************************************)
EXTENDS HookRows

CONSTANTS
    Requests,       \* request ids
    NumHooks,       \* HookPoints
    Selections,     \* what a demand's hooks entry may be
    WindowSets,     \* what a demand's windows entry may be: hook -> raw windows
    Ranges,         \* token ranges a request may be scheduled for
    Scenarios       \* the configurations and bounds of a behaviour

Hooks == 1..NumHooks
All == {0}          \* hooks = None: every HookPoint
Default == {-1}     \* a request without an entry
NoOrder == <<"none">>
NoKey == [ids |-> NoOrder, ident |-> 0]

\* The default selection; whether the integration names its demand object; the
\* padding rows before each request and at the end; row-table segments; rules
\* kept before _maintain drops some, and times the batch they must exceed; pool
\* pieces kept before it compacts; demand and attachment changes there are.
Fields == {"default", "named", "gap", "maxSegs", "ruleMax", "ruleFactor", "poolMax", "changes",
           "arms"}

ASSUME PlannerAssumption ==
    /\ NumHooks \in Nat \ {0} /\ \A c \in Scenarios : DOMAIN c = Fields
    /\ \A s \in Selections \ {All, Default} : s \subseteq Hooks
    /\ \A w \in WindowSets : DOMAIN w \subseteq Hooks

VARIABLES
    conf,
    demand,     \* request -> [hooks, windows, hid, wid], an entry and its identity
    ident,      \* identity of the demand object
    grouped,    \* HookRowPlanner: [order, cold, groups]
    packed,     \* PackedDemandPlanner: [rules, pool, live, key, batch]
    out,        \* the last step planned: [layout, total, grouped, packed]
    point,      \* a HookPoint: [row, tensor, strip, saved, table, heads]
    own,        \* the strip mode set for it: [tensor, strip]
    attachment, \* its attachment, numbered; 0 when detached
    arms        \* attachment changes so far

plannerVars == <<demand, ident, grouped, packed, out>>
pointVars == <<point, own, attachment, arms>>
vars == <<conf, plannerVars, pointVars>>

NoEntry == [hooks |-> Default, windows |-> <<>>, hid |-> 0, wid |-> 0]
NewGrouped == [order |-> NoOrder, cold |-> TRUE, groups |-> <<>>]
NewPacked == [rules |-> <<>>, pool |-> <<>>, live |-> 0, key |-> NoKey, batch |-> <<>>]
NewPoint == [row |-> FALSE, tensor |-> FALSE, strip |-> 0, saved |-> -1, table |-> 0, heads |-> 0]
NoStep == [layout |-> <<>>, total |-> 0, grouped |-> <<>>, packed |-> <<>>]
-----------------------------------------------------------------------------
(* What a request wants.                                                    *)

Resolved(hooks) == LET s == IF hooks = Default THEN conf.default ELSE hooks
                   IN IF s = All THEN Hooks ELSE s

\* compile_request_rule: the pieces of a demand, by HookPoint and window.
CompileRequestRule(hooks, windows) ==
    LET spans(h) == IF h \in DOMAIN windows THEN CanonicalTokenWindows(windows[h])
                    ELSE <<<<0, Unbounded>>>>
        piece(h) == [i \in DOMAIN spans(h) |-> [h |-> h, ws |-> spans(h)[i][1], we |-> spans(h)[i][2]]]
    IN FlattenSeq([h \in Hooks |-> IF h \in Resolved(hooks) THEN piece(h) ELSE <<>>])

\* compile_token_windows, canonical windows by HookPoint and request.
ByHook(h) ==
    [r \in Requests |-> IF h \in DOMAIN demand[r].windows
                        THEN CanonicalTokenWindows(demand[r].windows[h]) ELSE NoWindows]
-----------------------------------------------------------------------------
(* HookRowPlanner.                                                          *)

\* The scheduled requests of HookPoint h, as positions of the order.
Mask(order, h) == {i \in DOMAIN order : h \in Resolved(demand[order[i]].hooks)}

\* Mutant: HookPoints are grouped by their requests alone.
GroupedByMask(order, g, h) == Mask(order, g) = Mask(order, h)

\* Two HookPoints are one group when requests and windows agree.
SameGroup(order, g, h) == Mask(order, g) = Mask(order, h) /\ ByHook(g) = ByHook(h)

\* _group: HookPoint -> its group's requests and windows.
Group(order) ==
    LET first(h) == CHOOSE g \in Hooks : SameGroup(order, g, h)
                                         /\ \A f \in Hooks : SameGroup(order, f, h) => g <= f
    IN [h \in Hooks |-> [indices |-> Mask(order, first(h)), windows |-> ByHook(first(h))]]

\* plan_hook_groups, and the warm path over kept groups.
GroupPlans(groups, layout, total) ==
    LET chosen(h) == FlattenSeq([i \in DOMAIN layout |->
                                    IF i \in groups[h].indices THEN <<layout[i]>> ELSE <<>>])
    IN [h \in Hooks |-> PlanSelectedRows(chosen(h), total, conf.maxSegs, groups[h].windows)]

\* plan: groups are kept once an order repeats, and go with it.
WarmGroups(order) ==
    IF order # grouped.order \/ grouped.cold THEN Group(order) ELSE grouped.groups

PlannedGroups(order) ==
    IF order # grouped.order THEN [order |-> order, cold |-> TRUE, groups |-> <<>>]
    ELSE [order |-> order, cold |-> FALSE, groups |-> WarmGroups(order)]
-----------------------------------------------------------------------------
(* PackedDemandPlanner.                                                     *)

\* The rules, moved one after another to a fresh pool.
Repooled(rules, pool) ==
    FoldLeft(LAMBDA new, r :
                [rules |-> [new.rules EXCEPT ![r].start = Len(new.pool)],
                 pool |-> new.pool \o SubSeq(pool, rules[r].start + 1, rules[r].start + rules[r].n)],
             [rules |-> rules, pool |-> <<>>], SetToSeq(DOMAIN rules))

PiecesOf(rules) == FoldLeft(LAMBDA n, r : n + rules[r].n, 0, SetToSeq(DOMAIN rules))

Compacted(p) ==
    IF Len(p.pool) > conf.poolMax /\ Len(p.pool) > 2 * p.live
    THEN LET moved == Repooled(p.rules, p.pool)
         IN [p EXCEPT !.rules = moved.rules, !.pool = moved.pool]
    ELSE p

\* _maintain: the rules of requests gone for long, then the pool's dead pieces.
Maintained(p, ids) ==
    LET many == Cardinality(DOMAIN p.rules)
        keep == [r \in DOMAIN p.rules \cap ToSet(ids) |-> p.rules[r]]
    IN Compacted(IF many > conf.ruleMax /\ many > conf.ruleFactor * Len(ids)
                 THEN [p EXCEPT !.rules = keep, !.live = PiecesOf(keep)] ELSE p)

\* _compile: the rule goes to the end of the pool.
Compiled(p, r) ==
    LET rule == CompileRequestRule(demand[r].hooks, demand[r].windows)
        entry == [hid |-> demand[r].hid, wid |-> demand[r].wid, start |-> Len(p.pool), n |-> Len(rule)]
        old == IF r \in DOMAIN p.rules THEN p.rules[r].n ELSE 0
    IN [p EXCEPT !.rules = [x \in DOMAIN @ \cup {r} |-> IF x = r THEN entry ELSE @[x]],
                 !.pool = @ \o rule, !.live = @ + Len(rule) - old]

\* A rule is compiled again when its request's entries are other objects.
Stale(p, r) ==
    r \notin DOMAIN p.rules \/ p.rules[r].hid # demand[r].hid \/ p.rules[r].wid # demand[r].wid

\* _build_batch: the rules of the order, each with its position, sorted by
\* HookPoint; and the planner after it.
WithRules(p, ids) ==
    FoldLeft(LAMBDA q, r : IF Stale(q, r) THEN Compiled(q, r) ELSE q, Maintained(p, ids), ids)

BatchOf(p, ids) ==
    LET rule(b) == [i \in 1..p.rules[ids[b]].n |->
                       LET e == p.pool[p.rules[ids[b]].start + i]
                       IN [h |-> e.h, b |-> b, ws |-> e.ws, we |-> e.we]]
        flat == FlattenSeq([b \in DOMAIN ids |-> rule(b)])
    IN FlattenSeq([h \in Hooks |-> SelectSeq(flat, LAMBDA e : e.h = h)])

\* Mutant: the batch is kept by its order alone.
BatchKeptByOrder(p, ids, key) == key # NoKey /\ ids = p.key.ids

\* The batch of the same order and demand object is used again.
BatchKept(p, ids, key) == key # NoKey /\ key = p.key

PlannedPacked(ids, key) ==
    IF BatchKept(packed, ids, key) THEN packed
    ELSE LET p == WithRules(packed, ids)
         IN [p EXCEPT !.key = key, !.batch = BatchOf(p, ids)]
-----------------------------------------------------------------------------
Init ==
    /\ conf \in Scenarios
    /\ demand = [r \in Requests |-> NoEntry] /\ ident = 1
    /\ grouped = NewGrouped /\ packed = NewPacked /\ out = NoStep
    /\ point = NewPoint /\ own = [tensor |-> FALSE, strip |-> 0]
    /\ attachment = 0 /\ arms = 0

\* A request's entries change, one or both, and with them the demand object;
\* the integration installs a new HookRowPlanner.
ChangeDemand ==
    /\ ident <= conf.changes /\ out = NoStep
    /\ \E r \in Requests : \/ \E hooks \in Selections, windows \in WindowSets :
                                demand' = [demand EXCEPT ![r] = [hooks |-> hooks, windows |-> windows,
                                              hid |-> IF hooks = Default THEN 0 ELSE ident,
                                              wid |-> IF windows = <<>> THEN 0 ELSE ident]]
                           \/ \E windows \in WindowSets \ {<<>>} :
                                demand' = [demand EXCEPT ![r].windows = windows, ![r].wid = ident]
    /\ ident' = ident + 1
    /\ grouped' = NewGrouped
    /\ UNCHANGED <<conf, packed, out, pointVars>>

\* The layouts of a step: a request order, with ranges, behind padding.
Layout(ids, range) ==
    FoldLeft(LAMBDA rows, r :
                LET end == IF rows = <<>> THEN 0 ELSE Last(rows).off + Last(rows).hi - Last(rows).lo
                IN Append(rows, [rid |-> r, lo |-> range[r][1], hi |-> range[r][2],
                                 off |-> end + conf.gap, pos |-> Len(rows)]),
             <<>>, ids)

TotalRows(layout) ==
    IF layout = <<>> THEN conf.gap
    ELSE Last(layout).off + Last(layout).hi - Last(layout).lo + conf.gap

\* plan() of both planners for one step.
PlanStep ==
    /\ out = NoStep
    /\ \E S \in SUBSET Requests : \E ids \in SetToSeqs(S), range \in [S -> Ranges] :
         LET layout == Layout(ids, range)
             total == TotalRows(layout)
             key == IF conf.named THEN [ids |-> ids, ident |-> ident] ELSE NoKey
         IN /\ CheckedLayout(layout, total)
            /\ packed' = PlannedPacked(ids, key)
            /\ grouped' = PlannedGroups(ids)
            /\ out' = [layout |-> layout, total |-> total,
                       grouped |-> GroupPlans(WarmGroups(ids), layout, total),
                       packed |-> PackedPlans(layout, packed'.batch, NumHooks, total, conf.maxSegs)]
    /\ UNCHANGED <<conf, demand, ident, pointVars>>

\* The step is over; its plans are not kept.
EndStep == out # NoStep /\ out' = NoStep /\ UNCHANGED <<conf, demand, ident, grouped, packed, pointVars>>
-----------------------------------------------------------------------------
(* A HookPoint's attachment.                                                *)

\* clear_hook_gather: the stride gather replaced comes back.
GatherCleared(p) ==
    [p EXCEPT !.strip = IF p.saved # -1 THEN p.saved ELSE @, !.saved = -1, !.table = 0]

\* clear_hook_row_features.
FeaturesCleared(p) == GatherCleared([p EXCEPT !.heads = 0])

Arms == arms < conf.arms /\ out = NoStep /\ arms' = arms + 1 /\ UNCHANGED <<conf, plannerVars>>

\* install_ring_hooks, of a row spec, a head spec or both.
InstallRingHooks ==
    /\ Arms
    /\ attachment' = arms + 1
    /\ \E row \in BOOLEAN : point' = [FeaturesCleared(point) EXCEPT !.row = row]
    /\ UNCHANGED own

\* uninstall_ring_hooks.
UninstallRingHooks ==
    /\ Arms /\ attachment # 0
    /\ attachment' = 0
    /\ point' = [FeaturesCleared(point) EXCEPT !.row = FALSE]
    /\ UNCHANGED own

\* configure_hook_padding_strip, which an integration calls before it arms
\* gather: static, or the prefix of a row count.
ConfigureHookPaddingStrip ==
    /\ Arms /\ point.table = 0
    /\ \E t \in BOOLEAN : /\ own' = [tensor |-> t, strip |-> IF t THEN 1 ELSE 0]
                          /\ point' = [point EXCEPT !.tensor = t, !.strip = own'.strip]
    /\ UNCHANGED attachment

\* Mutant: the stride is saved at every arming.
GatherArmedSavingAlways(p, table) == [p EXCEPT !.saved = p.strip, !.table = table, !.strip = 2]

\* configure_hook_gather: the first arming saves the stride it replaces.
GatherArmed(p, table) ==
    [p EXCEPT !.saved = IF p.saved = -1 THEN p.strip ELSE @, !.table = table, !.strip = 2]

ConfigureHookGather ==
    /\ Arms /\ attachment # 0
    /\ \/ point' = GatherArmed(point, attachment)
       \/ point' = GatherCleared(point)
    /\ UNCHANGED <<own, attachment>>

\* configure_hook_heads, clear_hook_heads.
ConfigureHookHeads ==
    /\ Arms /\ attachment # 0
    /\ \E h \in {0, attachment} : point' = [point EXCEPT !.heads = h]
    /\ UNCHANGED <<own, attachment>>

Attaches ==
    \/ InstallRingHooks \/ UninstallRingHooks \/ ConfigureHookPaddingStrip
    \/ ConfigureHookGather \/ ConfigureHookHeads

Next == ChangeDemand \/ PlanStep \/ EndStep \/ Attaches

Spec == Init /\ [][Next]_vars
-----------------------------------------------------------------------------
\* _hook_request_layouts: what the consumer is told of HookPoint h.
HookRequestLayout(plan) == plan.pieces

\* The tokens HookPoint h is asked for, from the demand itself.
Demanded(h) ==
    {<<out.layout[i].rid, t>> : <<i, t>> \in
        {<<j, u>> \in (DOMAIN out.layout) \X (0..Unbounded) :
            LET row == out.layout[j] e == demand[row.rid]
            IN /\ row.lo <= u /\ u < row.hi /\ h \in Resolved(e.hooks)
               /\ h \in DOMAIN e.windows =>
                    \E k \in DOMAIN e.windows[h] : e.windows[h][k][1] <= u /\ u < e.windows[h][k][2]}}

\* The row of the tensor a token is in.
RowOf(rid, t) ==
    LET i == CHOOSE j \in DOMAIN out.layout : out.layout[j].rid = rid
    IN out.layout[i].off + t - out.layout[i].lo

\* From the one task its row table publishes, a plan's pieces read back exactly
\* the wanted tokens, each once, each from its own row.
Delivers(plan, wanted) ==
    LET tasks == Gathered(EncodeRowTable(plan, conf.maxSegs))
        payload == tasks[1]
        reads == HookRequestLayout(plan)
        tokens(i) == {<<reads[i].rid, t>> : t \in reads[i].lo..(reads[i].hi - 1)}
    IN /\ Len(tasks) = 1 /\ plan.count = Len(payload)
       /\ UNION {tokens(i) : i \in DOMAIN reads} = wanted
       /\ \A i, j \in DOMAIN reads : i # j => tokens(i) \cap tokens(j) = {}
       /\ \A i \in DOMAIN reads : \A t \in reads[i].lo..(reads[i].hi - 1) :
             payload[reads[i].dst + t - reads[i].lo + 1] = RowOf(reads[i].rid, t)

\* What a step delivers is what was asked for: with the grouped planner's plans
\* (plan_hook_groups, kept groups) the consumer reads back exactly the tokens
\* each request demands of each HookPoint -- merged runs, clipped windows,
\* padding and the full-payload fallback included -- and with full_row_plan
\* every scheduled token.
RowsAreDemanded ==
    out # NoStep =>
        /\ \A h \in Hooks : Delivers(out.grouped[h], Demanded(h))
        /\ Delivers(FullRowPlan(out.layout, out.total),
                    UNION {{<<out.layout[i].rid, t>> : t \in out.layout[i].lo..(out.layout[i].hi - 1)} :
                             i \in DOMAIN out.layout})

\* PackedDemandPlanner returns the very plans of the reference planner, through
\* kept batches, recompiled and dropped rules, and compactions of its pool.
PlannersAgree == out # NoStep => out.packed = out.grouped

\* The row features of a HookPoint belong to one attachment: no gather table
\* or heads of an earlier one is ever armed, and with gather disarmed the
\* HookPoint has its own strip stride back, however often it was re-armed.
FeaturesAreTheAttachments ==
    /\ point.table \in {0, attachment} /\ point.heads \in {0, attachment}
    /\ point.table = 0 => point.strip = own.strip /\ point.tensor = own.tensor
=============================================================================
