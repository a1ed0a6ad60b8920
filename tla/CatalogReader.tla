--------------------------- MODULE CatalogReader ---------------------------
(***************************************************************************)
(* Reading the capture catalog: search, its cursors and get_by_ids of      *)
(* ClickHouseCaptureCatalog (clickhouse_reader.py, cursor.py), over the     *)
(* snapshots a SnapshotLog publishes.  The writers go on: descriptor rows   *)
(* are written before their snapshot is published, written again when a     *)
(* pack is indexed again, and collapsed by merges; a replica lags behind.   *)
(*                                                                         *)
(* A capture is a number, in the order of _SORT_KEY; a pack is a number, in *)
(* the order of (store_id, pack_id).  One capture may lie in several packs. *)
(***************************************************************************)
EXTENDS Integers, Sequences, FiniteSets, FiniteSetsExt, SequencesExt

CONSTANTS
    Readers, Packs, Captures,
    Contents,    \* pack -> its captures, in the order of its footer
    Scenarios    \* configurations and bounds of a behaviour

(* ClickHouseReaderConfig.consistent_snapshot_reads; the page limits and     *)
(* filters (a filter stands for the captures it matches) of the queries; the *)
(* ids one inline list can hold; and bounds: the packs, versions, writes of  *)
(* a pack's rows, readers and their calls.                                   *)
CatalogFields == {"consistent", "limits", "filters", "inline", "packs", "versions",
                  "rewrites", "readers", "calls"}

VARIABLES
    conf,
    log,        \* SnapshotLog's
    rows,       \* the descriptor table: [capture, pack, version]
    replica,    \* [log, rows] as a replica that lags behind has them
    rd          \* reader -> the calls it is in, and what they returned

Log == INSTANCE SnapshotLog

ASSUME CatalogAssumption ==
    /\ Packs \subseteq Nat /\ Captures \subseteq Nat
    /\ \A p \in Packs : Contents[p] \in Seq(Captures)
    /\ \A c \in Scenarios : CatalogFields \subseteq DOMAIN c

---------------------------------------------------------------------------
(* The writers.                                                             *)
Rows(p, v) == {[capture |-> Contents[p][i], pack |-> p, version |-> v] : i \in DOMAIN Contents[p]}

(* An indexing pass writes a pack's descriptors at the version it allocated *)
(* and may end without publishing it, or find it overtaken.                 *)
WriteDescriptors ==
    /\ \E p \in conf.packs, v \in (1 .. conf.versions) \ DOMAIN log :
         rows' = rows \cup Rows(p, v)
    /\ rows' # rows
    /\ Cardinality({<<x.pack, x.version>> : x \in rows'}) <= conf.rewrites
    /\ UNCHANGED <<conf, log, replica, rd>>
PublishSnapshot ==
    /\ \E v \in 1 .. conf.versions, packs \in SUBSET conf.packs :
         /\ \A p \in packs : Rows(p, v) \subseteq rows
         /\ Log!Add(v, packs)
    /\ UNCHANGED <<conf, rows, replica, rd>>

(* A merge keeps the highest version of a capture in one pack (the table's  *)
(* sort key ends with store_id and pack_id).                                *)
Merge ==
    /\ \E x, y \in rows : /\ x.capture = y.capture /\ x.pack = y.pack
                          /\ x.version < y.version
                          /\ rows' = rows \ {x}
    /\ UNCHANGED <<conf, log, replica, rd>>
Replicate ==
    /\ \/ replica' = [replica EXCEPT !.log = log]
       \/ ~conf.consistent /\ replica' = [replica EXCEPT !.rows = rows]
    /\ replica' # replica
    /\ UNCHANGED <<conf, log, rows, rd>>

---------------------------------------------------------------------------
(* _published_head: a deciding read is sequentially consistent, another may *)
(* come from the replica.                                                   *)
HeadOf(l) == Max({0} \cup DOMAIN l)
PlainHead == {HeadOf(log), HeadOf(replica.log)}
DecidingHead == {HeadOf(log)}

(* What a query of descriptors can see: bounded_read_settings.              *)
Tables == {[log |-> log, rows |-> rows]} \cup IF conf.consistent THEN {} ELSE {replica}

(* member_versions: when each pack was first published, at or below the     *)
(* pin; and _snapshot, its join with the descriptor rows.                   *)
MemberVersions(l, w) ==
    [p \in UNION {l[v] : v \in {u \in DOMAIN l : u <= w}} |->
        Min({v \in DOMAIN l : v <= w /\ p \in l[v]})]
Snapshot(t, w) == {x \in t.rows : x.pack \in DOMAIN MemberVersions(t.log, w)}

(* _projection: one row per capture, the argMax of _RESOLUTION_ORDER, which *)
(* is (member_version, store_id, pack_id, index_version).                   *)
(* Mutant: the newest descriptor row wins.                                  *)
ResolvesAfterNewest(x, y, members) == x.version > y.version
ResolvesAfter(x, y, members) ==
    \/ members[x.pack] > members[y.pack]
    \/ members[x.pack] = members[y.pack] /\ x.pack > y.pack
    \/ x.pack = y.pack /\ x.version > y.version
Descriptor(x) == [capture |-> x.capture, pack |-> x.pack]
Projection(t, w, captures) ==
    LET found == {x \in Snapshot(t, w) : x.capture \in captures}
        members == MemberVersions(t.log, w)
        Best(c) == CHOOSE x \in found : x.capture = c /\ \A y \in found :
                      y.capture = c /\ y # x => ~ResolvesAfter(y, x, members)
    IN {Descriptor(Best(c)) : c \in {x.capture : x \in found}}
Ordered(items) == SetToSortSeq(items, LAMBDA x, y : x.capture < y.capture)

(* _filters: the query's own, and what lies after the cursor's key.         *)
Matching(filter, after) == {c \in filter : c > after}

(* A page: search's query of limit + 1 rows after the cursor's key.         *)
(* Mutant: the cursor is the first row left out.                            *)
NextCursorSkips(found, limit) ==
    IF Len(found) > limit THEN found[limit + 1].capture ELSE 0
NextCursor(found, limit) ==
    IF Len(found) > limit THEN found[limit].capture ELSE 0
Page(t, w, filter, after, limit) ==
    LET found == Ordered(Projection(t, w, Matching(filter, after))) IN
    [items |-> SubSeq(found, 1, IF Len(found) < limit THEN Len(found) ELSE limit),
     next |-> NextCursor(found, limit)]

NoCall == [pc |-> "idle", calls |-> 0, filter |-> {}, w |-> 0, after |-> 0, items |-> <<>>, pages |-> 0,
           chunks |-> <<>>, found |-> {}]

(* search() without a cursor.                                               *)
Shown(r, page, w, filter) ==
    rd' = [rd EXCEPT ![r].pc = IF page.next = 0 THEN "walked" ELSE "paging",
                     ![r].filter = filter, ![r].w = w, ![r].after = page.next,
                     ![r].items = @ \o page.items, ![r].pages = @ + 1]
Search(r) ==
    /\ rd[r].pc = "idle" /\ rd[r].calls < conf.calls
    /\ \E w \in PlainHead, t \in Tables, filter \in conf.filters, limit \in conf.limits :
         Shown(r, Page(t, w, filter, 0, limit), w, filter)
    /\ UNCHANGED <<conf, log, rows, replica>>

(* search() with one: decode_cursor refuses a watermark above the head and  *)
(* a cursor that was issued for other filters.                              *)
Refuse(r, why) == rd' = [rd EXCEPT ![r].pc = why]
SearchOn(r) ==
    /\ rd[r].pc = "paging"
    /\ \E head \in DecidingHead, t \in Tables, filter \in conf.filters, limit \in conf.limits :
         IF rd[r].w > head THEN Refuse(r, "ahead")
         ELSE IF filter # rd[r].filter THEN Refuse(r, "refused")
         ELSE Shown(r, Page(t, rd[r].w, filter, rd[r].after, limit), rd[r].w, filter)
    /\ UNCHANGED <<conf, log, rows, replica>>

(* inline_chunks: greedy lists of ids that fit one statement.               *)
InlineChunks(ids, size) ==
    [i \in 1 .. (Len(ids) + size - 1) \div size |->
        SubSeq(ids, (i - 1) * size + 1, IF i * size > Len(ids) THEN Len(ids) ELSE i * size)]

(* CaptureReader.select takes a walk of one page, CaptureSelection.create   *)
(* at least one capture and none twice; _resolve then calls get_by_ids with *)
(* the selection's watermark.                                               *)
Selectable(items) == items # <<>> /\ IsInjective([i \in DOMAIN items |-> items[i].capture])
Select(r) ==
    /\ rd[r].pc = "walked"
    /\ IF rd[r].pages > 1 \/ ~Selectable(rd[r].items) THEN Refuse(r, "refused")
       ELSE rd' = [rd EXCEPT ![r].pc = "selected"]
    /\ UNCHANGED <<conf, log, rows, replica>>
GetByIds(r) ==
    /\ rd[r].pc = "selected"
    /\ \E head \in DecidingHead :
         IF rd[r].w > head THEN Refuse(r, "ahead")
         ELSE rd' = [rd EXCEPT ![r].pc = "lookup", ![r].found = {},
                ![r].chunks = InlineChunks([i \in DOMAIN rd[r].items |-> rd[r].items[i].capture],
                                           conf.inline)]
    /\ UNCHANGED <<conf, log, rows, replica>>
GetChunk(r) ==
    /\ rd[r].pc = "lookup" /\ rd[r].chunks # <<>>
    /\ \E t \in Tables :
         rd' = [rd EXCEPT ![r].chunks = Tail(@),
                          ![r].found = @ \cup Projection(t, rd[r].w, ToSet(Head(rd[r].chunks)))]
    /\ UNCHANGED <<conf, log, rows, replica>>

(* _resolve: every capture once, in the selection's order.                  *)
Resolve(r) ==
    /\ rd[r].pc = "lookup" /\ rd[r].chunks = <<>>
    /\ IF {x.capture : x \in rd[r].found} = {x.capture : x \in ToSet(rd[r].items)}
          /\ Cardinality(rd[r].found) = Len(rd[r].items)
       THEN rd' = [rd EXCEPT ![r].pc = "resolved", ![r].items = Ordered(rd[r].found)]
       ELSE Refuse(r, "unresolved")
    /\ UNCHANGED <<conf, log, rows, replica>>

Outcomes == {"walked", "ahead", "refused", "unresolved"}
Return(r) ==
    /\ rd[r].pc \in Outcomes
    /\ rd' = [rd EXCEPT ![r] = [NoCall EXCEPT !.calls = rd[r].calls + 1]]
    /\ UNCHANGED <<conf, log, rows, replica>>

Writer == WriteDescriptors \/ PublishSnapshot \/ Merge \/ Replicate
Lookup(r) ==
    Search(r) \/ SearchOn(r) \/ Select(r) \/ GetByIds(r) \/ GetChunk(r) \/ Resolve(r)
=============================================================================
