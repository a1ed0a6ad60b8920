------------------------------ MODULE HookRows ------------------------------
(***************************************************************************)
(* Request-row plans (hook_rows.py): which rows of a step's activation     *)
(* tensor a HookPoint copies, and how the consumer attributes the packed   *)
(* result to requests.  The plan of one HookPoint is computed here twice,  *)
(* as the code does: row by row (_plan_selected_rows) and over the arrays  *)
(* of all HookPoints at once (PackedDemandPlanner.plan).                   *)
(*                                                                         *)
(* A layout lists the scheduled requests of a step: [rid, lo, hi, off,     *)
(* pos] holds tokens lo..hi-1 of rid in rows off... of the tensor.  A      *)
(* window is <<start, end>>, half open, None as an end being Unbounded.    *)
(***************************************************************************)
EXTENDS Integers, Sequences, FiniteSets, SequencesExt

CONSTANTS
    Unbounded,      \* _UNBOUNDED, past every token
    LongWindows     \* window lists longer than this are searched by bisection

ASSUME RowsAssumption == Unbounded \in Nat \ {0} /\ LongWindows \in Nat \ {0}

NoWindows == <<<<-1, -1>>>>      \* no window list: every position

Larger(a, b) == IF a >= b THEN a ELSE b
Smaller(a, b) == IF a <= b THEN a ELSE b
-----------------------------------------------------------------------------
\* canonical_token_windows: sorted by start, overlapping and adjacent ones
\* united.
UniteWindow(merged, w) ==
    IF merged # <<>> /\ w[1] <= Last(merged)[2]
    THEN Append(Front(merged), <<Last(merged)[1], Larger(Last(merged)[2], w[2])>>)
    ELSE Append(merged, w)

CanonicalTokenWindows(windows) ==
    FoldLeft(UniteWindow, <<>>, SortSeq(windows, LAMBDA v, w : v[1] < w[1]))

\* _checked_layout: scheduled spans are not empty, in order, and inside.
CheckedLayout(layout, total) ==
    \A i \in DOMAIN layout :
        /\ layout[i].hi > layout[i].lo
        /\ layout[i].off >= IF i = 1 THEN 0
                            ELSE layout[i-1].off + layout[i-1].hi - layout[i-1].lo
        /\ layout[i].off + layout[i].hi - layout[i].lo <= total
-----------------------------------------------------------------------------
(* A plan: the runs of source rows copied, the rows they pack to, and the   *)
(* pieces [rid, lo, hi, dst, src, pos] the consumer reads back.             *)
EmptyRows == [segs |-> <<>>, count |-> 0, pieces |-> <<>>, fallback |-> FALSE]

\* full_payload: every row is copied, and pieces are where they were.
FullPayload(plan, total) ==
    [plan EXCEPT !.segs = <<<<0, total>>>>, !.count = total,
                 !.pieces = [i \in DOMAIN @ |-> [@[i] EXCEPT !.dst = plan.pieces[i].src]]]

\* A list longer than LongWindows is entered at the last window that starts
\* at or before the scheduled range, or not at all.
Reached(row, windows) ==
    IF Len(windows) <= LongWindows THEN windows
    ELSE IF windows[1][1] >= row.hi \/ Last(windows)[2] <= row.lo THEN <<>>
    ELSE LET before == Cardinality({i \in DOMAIN windows : windows[i][1] <= row.lo})
         IN SubSeq(windows, Larger(1, before), Len(windows))

\* The windows of a row, clipped to its scheduled range.
Clipped(row, windows) ==
    IF windows = NoWindows THEN <<<<row.lo, row.hi>>>>
    ELSE LET reached == Reached(row, windows)
             clips == [i \in DOMAIN reached |-> <<Larger(reached[i][1], row.lo),
                                                  Smaller(reached[i][2], row.hi)>>]
         IN SelectSeq(clips, LAMBDA w : w[1] < w[2])

\* One piece more: its run extends the last one if it follows it.
AddPiece(plan, row, w) ==
    LET source == row.off + w[1] - row.lo
        length == w[2] - w[1]
        segs == plan.segs
    IN [plan EXCEPT
          !.segs = IF segs # <<>> /\ Last(segs)[1] + Last(segs)[2] = source
                   THEN Append(Front(segs), <<Last(segs)[1], Last(segs)[2] + length>>)
                   ELSE Append(segs, <<source, length>>),
          !.count = @ + length,
          !.pieces = Append(@, [rid |-> row.rid, lo |-> w[1], hi |-> w[2], dst |-> plan.count,
                                src |-> source, pos |-> row.pos])]

\* A plan of more runs than the row table holds falls back to every row.
Fits(plan, total, maxSegs) ==
    IF Len(plan.segs) > maxSegs THEN [FullPayload(plan, total) EXCEPT !.fallback = TRUE] ELSE plan

\* _plan_selected_rows; windows: rid -> its canonical windows or NoWindows.
PlanSelectedRows(chosen, total, maxSegs, windows) ==
    LET AddRow(plan, row) ==
            FoldLeft(LAMBDA q, w : AddPiece(q, row, w), plan, Clipped(row, windows[row.rid]))
    IN Fits(FoldLeft(AddRow, EmptyRows, chosen), total, maxSegs)

\* full_row_plan: the producer that gathers nothing.
FullRowPlan(layout, total) ==
    LET everywhere == [r \in {layout[i].rid : i \in DOMAIN layout} |-> NoWindows]
        plan == PlanSelectedRows(layout, total, total, everywhere)
    IN IF plan.segs = <<>> THEN plan ELSE FullPayload(plan, total)
-----------------------------------------------------------------------------
(* PackedDemandPlanner.plan after its checks, over the batch's rules: a     *)
(* sequence of [h, b, ws, we], HookPoint h of scheduled request b selecting *)
(* tokens ws..we-1, sorted by HookPoint.                                    *)

\* The rules clipped to the scheduled ranges, empty ones dropped.
Kept(layout, batch) ==
    LET clip(e) == [h |-> e.h, b |-> e.b, lo |-> Larger(e.ws, layout[e.b].lo),
                    hi |-> Smaller(e.we, layout[e.b].hi)]
    IN SelectSeq([i \in DOMAIN batch |-> clip(batch[i])], LAMBDA e : e.lo < e.hi)

\* The exclusive running sum of the sizes.
Exclusive(kept) ==
    FoldLeft(LAMBDA sums, e : Append(sums, Last(sums) + e.hi - e.lo), <<0>>, kept)

SourceOf(layout, e) == layout[e.b].off + e.lo - layout[e.b].lo

\* A piece begins a run at another HookPoint, or away from the one before it.
BeginsRun(layout, kept, i) ==
    \/ i = 1 \/ kept[i].h # kept[i-1].h
    \/ SourceOf(layout, kept[i]) # SourceOf(layout, kept[i-1]) + kept[i-1].hi - kept[i-1].lo

\* The pieces and runs of HookPoint h, at r0..r1 of the arrays.
PackedRows(layout, kept, h, total, maxSegs) ==
    LET mine == {i \in DOMAIN kept : kept[i].h = h}
        r0 == CHOOSE i \in mine : \A j \in mine : i <= j
        r1 == r0 + Cardinality(mine) - 1
        excl == Exclusive(kept)
        starts == SetToSortSeq({i \in mine : BeginsRun(layout, kept, i)}, <)
        ends(j) == IF j = Len(starts) THEN r1 + 1 ELSE starts[j+1]
        piece(i) == [rid |-> layout[kept[i].b].rid, lo |-> kept[i].lo, hi |-> kept[i].hi,
                     dst |-> excl[i] - excl[r0], src |-> SourceOf(layout, kept[i]),
                     pos |-> layout[kept[i].b].pos]
    IN Fits([segs |-> [j \in DOMAIN starts |-> <<SourceOf(layout, kept[starts[j]]),
                                                excl[ends(j)] - excl[starts[j]]>>],
             count |-> excl[r1+1] - excl[r0],
             pieces |-> [i \in 1..Cardinality(mine) |-> piece(r0 + i - 1)],
             fallback |-> FALSE], total, maxSegs)

\* A HookPoint shares the plan of one of equal shape, requests and ranges.
SharesPlan(kept, g, h) ==
    LET of(k) == SelectSeq(kept, LAMBDA e : e.h = k)
    IN [i \in DOMAIN of(g) |-> [of(g)[i] EXCEPT !.h = 0]]
         = [i \in DOMAIN of(h) |-> [of(h)[i] EXCEPT !.h = 0]]

\* The plan of each of the n HookPoints.
PackedPlans(layout, batch, n, total, maxSegs) ==
    LET kept == Kept(layout, batch)
        present == {kept[i].h : i \in DOMAIN kept}
        shared(h) == CHOOSE g \in present :
                        /\ SharesPlan(kept, g, h)
                        /\ \A f \in present : SharesPlan(kept, f, h) => g <= f
    IN [h \in 1..n |-> IF h \in present THEN PackedRows(layout, kept, shared(h), total, maxSegs)
                       ELSE EmptyRows]
-----------------------------------------------------------------------------
\* rows=None, no plan for the step: unlike an empty plan it publishes nothing.
Disabled == [EmptyRows EXCEPT !.count = -1]

\* encode_row_table: the number of runs, then the runs; -1 for no plan.
EncodeRowTable(plan, maxSegs) ==
    [i \in 1..(1 + 2 * maxSegs) |->
        IF i = 1 THEN IF plan = Disabled THEN -1 ELSE Len(plan.segs)
        ELSE IF i \div 2 > Len(plan.segs) THEN 0
        ELSE plan.segs[i \div 2][IF i % 2 = 0 THEN 1 ELSE 2]]

\* What producer_gather publishes for a row table: no task, or one of the
\* source rows it packs.
Gathered(table) ==
    IF table[1] = -1 THEN <<>>
    ELSE <<FlattenSeq([j \in 1..table[1] |-> [i \in 1..table[2*j+1] |-> table[2*j] + i - 1]])>>
=============================================================================
