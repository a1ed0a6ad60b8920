----------------------------- MODULE Hydration -----------------------------
(***************************************************************************)
(* CaptureReader (storage/capture/reader.py): from a selection resolved in  *)
(* the catalog to payloads, within the caller's request and byte limits.    *)
(* The calling threads share the footer cache; its lock is dropped while a  *)
(* footer is read from the store.                                           *)
(***************************************************************************)
EXTENDS CatalogReader, PackFormat

CONSTANT PayloadBytes    \* capture -> bytes

(* max_coalesce_gap_bytes, _footer_cache_limit and _footer_cache_bytes_limit; *)
(* the limits callers give besides the estimate, each [requests, bytes].      *)
HydrationFields == {"gap", "cachePacks", "cacheBytes", "budgets"}

VARIABLES
    cache,       \* the cached packs, least recently used first
    cacheBytes,  \* _footer_cache_bytes
    hy           \* reader -> the hydration it is in

ASSUME HydrationAssumption == \A c \in Scenarios : HydrationFields \subseteq DOMAIN c

catalogVars == <<conf, log, rows, replica>>
vars == <<catalogVars, rd, cache, cacheBytes, hy>>

---------------------------------------------------------------------------
(* The packs as PackWriter laid them out.                                   *)
PackOf == [p \in Packs |->
    FoldLeft(LAMBDA pack, c : Added(pack, c, PayloadBytes[c]), <<>>, Contents[p])]
Locator(item) == LET pack == PackOf[item.pack] IN
                 pack[CHOOSE i \in DOMAIN pack : pack[i].id = item.capture]

(* _plan: the packs of the descriptors; of each the ranges to read, in the   *)
(* order of their offsets, a gap up to max_coalesce_gap_bytes read along.    *)
PlanPacks(items) == SetToSortSeq({x.pack : x \in ToSet(items)}, <)
Joined(range, item) ==
    [range EXCEPT !.captures = @ \cup {item.capture},
                  !.end = Max({@, Locator(item).offset + Locator(item).length})]
Range1(item) == [pack |-> item.pack, captures |-> {item.capture}, offset |-> Locator(item).offset,
                 end |-> Locator(item).offset + Locator(item).length]
Coalesced(ranges, item) ==
    IF ranges # <<>> /\ Locator(item).offset <= Last(ranges).end + conf.gap
    THEN Append(Front(ranges), Joined(Last(ranges), item))
    ELSE Append(ranges, Range1(item))
RangesOf(items, p) ==
    FoldLeft(Coalesced, <<>>,
       SetToSortSeq({x \in ToSet(items) : x.pack = p},
                    LAMBDA x, y : Locator(x).offset < Locator(y).offset))
Ranges(items) == FlattenSeq([i \in DOMAIN PlanPacks(items) |->
                                RangesOf(items, PlanPacks(items)[i])])
RangeBytes(ranges) == FoldLeft(LAMBDA n, x : n + x.end - x.offset, 0, ranges)

(* estimate().                                                              *)
Estimate(items) ==
    [requests |-> Len(Ranges(items)) + 2 * Len(PlanPacks(items)),
     bytes |-> RangeBytes(Ranges(items))
               + MapThenSumSet(LAMBDA p : MaxFooterReadBytes(PackOf[p]), ToSet(PlanPacks(items)))]

NoHydration == [pc |-> "none", limit |-> [requests |-> 0, bytes |-> 0],
                spent |-> [requests |-> 0, bytes |-> 0],     \* all reads of the store
                budget |-> [requests |-> 0, bytes |-> 0],    \* _ReadBudget, for footers
                plans |-> <<>>, ranges |-> <<>>, payloads |-> {}]

Init ==
    /\ conf \in Scenarios
    /\ log = Log!Empty /\ rows = {} /\ replica = [log |-> log, rows |-> rows]
    /\ rd = [r \in Readers |-> NoCall]
    /\ cache = <<>> /\ cacheBytes = 0
    /\ hy = [r \in Readers |-> NoHydration]

(* hydrate(): the payload reads must fit the limits; what is left of them    *)
(* may go to footers.                                                        *)
FooterBudget(limit, ranges) ==
    [requests |-> limit.requests - Len(ranges), bytes |-> limit.bytes - RangeBytes(ranges)]
Hydrate(r) ==
    /\ rd[r].pc = "resolved" /\ hy[r].pc = "none"
    /\ \E limit \in conf.budgets \cup {Estimate(rd[r].items)} :
         LET ranges == Ranges(rd[r].items) IN
         hy' = [hy EXCEPT ![r] =
            IF Len(ranges) > limit.requests \/ RangeBytes(ranges) > limit.bytes
            THEN [NoHydration EXCEPT !.pc = "limit", !.limit = limit]
            ELSE [NoHydration EXCEPT !.pc = "plan", !.limit = limit, !.ranges = ranges,
                    !.plans = PlanPacks(rd[r].items), !.budget = FooterBudget(limit, ranges)]]
    /\ UNCHANGED <<catalogVars, rd, cache, cacheBytes>>

(* A read of n bytes from the store, and one that the budget must allow.    *)
Spends(h, n) == [h EXCEPT !.spent.requests = @ + 1, !.spent.bytes = @ + n]
Consumes(h, n, then) ==
    IF h.budget.requests < 1 \/ n > h.budget.bytes THEN [h EXCEPT !.pc = "limit"]
    ELSE [Spends(h, n) EXCEPT !.budget.requests = @ - 1, !.budget.bytes = @ - n, !.pc = then]

(* _footer_descriptors, under the lock: a cached footer is used and moves to *)
(* the end; the descriptors are compared with it.                            *)
MovedToEnd(p) == Append(Remove(cache, p), p)
RequireFooterMatch(r) ==
    \A x \in {y \in ToSet(rd[r].items) : y.pack = Head(hy[r].plans)} :
       x.capture \in CaptureIds(PackOf[x.pack])
NextPlan(r) == IF RequireFooterMatch(r)
               THEN [hy[r] EXCEPT !.plans = Tail(@), !.pc = "plan"]
               ELSE [hy[r] EXCEPT !.pc = "failed"]
FooterCached(r) ==
    /\ hy[r].pc = "plan" /\ hy[r].plans # <<>>
    /\ LET p == Head(hy[r].plans) IN
       IF Contains(cache, p)
       THEN cache' = MovedToEnd(p) /\ hy' = [hy EXCEPT ![r] = NextPlan(r)]
       ELSE hy' = [hy EXCEPT ![r].pc = "trailer"] /\ UNCHANGED cache
    /\ UNCHANGED <<catalogVars, rd, cacheBytes>>
(* PackIndex.from_store, without the lock: the trailer, then the footer.    *)
ReadTrailer(r) ==
    /\ hy[r].pc = "trailer"
    /\ hy' = [hy EXCEPT ![r] = Consumes(@, Trailer, "footer")]
    /\ UNCHANGED <<catalogVars, rd, cache, cacheBytes>>
ReadFooter(r) ==
    /\ hy[r].pc = "footer"
    /\ LET pack == PackOf[Head(hy[r].plans)] IN
       hy' = [hy EXCEPT ![r] = Consumes(@, FooterBytes(pack),
                                        IF ParseRecords(pack) THEN "insert" ELSE "failed")]
    /\ UNCHANGED <<catalogVars, rd, cache, cacheBytes>>

(* Under the lock again: another thread may have cached it; a footer above   *)
(* the byte limit is not cached; the least recently used make room.          *)
WireBytes(p) == FooterReadBytes(PackOf[p])
CachedBytes(packs) == FoldLeft(LAMBDA n, p : n + WireBytes(p), 0, packs)
KeptFrom(p) == Min({i \in 1 .. Len(cache) + 1 :
    LET kept == SubSeq(cache, i, Len(cache)) IN
    kept = <<>> \/ (Len(kept) < conf.cachePacks
                    /\ CachedBytes(kept) + WireBytes(p) <= conf.cacheBytes)})
(* Mutant: a footer another thread cached meanwhile is cached again.        *)
InsertFooterAgain(r) ==
    /\ hy[r].pc = "insert"
    /\ LET p == Head(hy[r].plans) IN
       /\ cache' = Append(SubSeq(cache, KeptFrom(p), Len(cache)), p)
       /\ cacheBytes' = cacheBytes - CachedBytes(SubSeq(cache, 1, KeptFrom(p) - 1)) + WireBytes(p)
    /\ hy' = [hy EXCEPT ![r] = NextPlan(r)]
    /\ UNCHANGED <<catalogVars, rd>>
InsertFooter(r) ==
    /\ hy[r].pc = "insert"
    /\ LET p == Head(hy[r].plans) IN
       IF Contains(cache, p) THEN cache' = MovedToEnd(p) /\ UNCHANGED cacheBytes
       ELSE IF conf.cachePacks = 0 \/ WireBytes(p) > conf.cacheBytes
       THEN UNCHANGED <<cache, cacheBytes>>
       ELSE /\ cache' = Append(SubSeq(cache, KeptFrom(p), Len(cache)), p)
            /\ cacheBytes' = cacheBytes - CachedBytes(SubSeq(cache, 1, KeptFrom(p) - 1))
                             + WireBytes(p)
    /\ hy' = [hy EXCEPT ![r] = NextPlan(r)]
    /\ UNCHANGED <<catalogVars, rd>>

(* Only when every footer agreed: the payload ranges, cut into payloads.    *)
Cut(range) == {c \in range.captures :
    LET at == Locator([capture |-> c, pack |-> range.pack]) IN
    range.offset <= at.offset /\ at.offset + at.length <= range.end}
ReadPayloads(r) ==
    /\ hy[r].pc = "plan" /\ hy[r].plans = <<>> /\ hy[r].ranges # <<>>
    /\ LET range == Head(hy[r].ranges) IN
       hy' = [hy EXCEPT ![r] = [Spends(@, range.end - range.offset) EXCEPT
                !.ranges = Tail(@), !.payloads = @ \cup (Cut(range) \X {range.pack})]]
    /\ UNCHANGED <<catalogVars, rd, cache, cacheBytes>>
Hydrated(r) ==
    /\ hy[r].pc = "plan" /\ hy[r].plans = <<>> /\ hy[r].ranges = <<>>
    /\ hy' = [hy EXCEPT ![r].pc = "hydrated"]
    /\ UNCHANGED <<catalogVars, rd, cache, cacheBytes>>

(* A read fails, is short, or returns other bytes: the call ends.           *)
ReadFails(r) ==
    /\ hy[r].pc \in {"trailer", "footer"} \/ (hy[r].pc = "plan" /\ hy[r].ranges # <<>>)
    /\ hy' = [hy EXCEPT ![r].pc = "failed"]
    /\ UNCHANGED <<catalogVars, rd, cache, cacheBytes>>

(* The call returns.                                                        *)
EndHydration(r) ==
    /\ hy[r].pc \in {"limit", "failed", "hydrated"}
    /\ hy' = [hy EXCEPT ![r] = NoHydration]
    /\ rd' = [rd EXCEPT ![r] = [NoCall EXCEPT !.calls = rd[r].calls + 1]]
    /\ UNCHANGED <<catalogVars, cache, cacheBytes>>

OnlyCatalog == UNCHANGED <<cache, cacheBytes, hy>>
Next ==
    \/ Writer /\ OnlyCatalog
    \/ \E r \in conf.readers :
         \/ (Lookup(r) \/ Return(r)) /\ OnlyCatalog
         \/ Hydrate(r) \/ FooterCached(r) \/ ReadTrailer(r) \/ ReadFooter(r) \/ InsertFooter(r)
         \/ ReadPayloads(r) \/ Hydrated(r) \/ ReadFails(r) \/ EndHydration(r)

Spec == Init /\ [][Next]_vars

---------------------------------------------------------------------------
(* What a snapshot shows, from the log and the packs alone: each capture of  *)
(* the packs published so far, in the pack published last of those that      *)
(* hold it, the highest of those published together.                         *)
FirstAt(p, w) == Min({v \in DOMAIN log : v <= w /\ p \in log[v]})
Holding(c, w) == {p \in Packs : /\ Contains(Contents[p], c)
                                /\ \E v \in DOMAIN log : v <= w /\ p \in log[v]}
InSnapshot(c, w) == CHOOSE p \in Holding(c, w) : \A q \in Holding(c, w) \ {p} :
    FirstAt(q, w) < FirstAt(p, w) \/ (FirstAt(q, w) = FirstAt(p, w) /\ q < p)
Shows(w, filter) ==
    Ordered({[capture |-> c, pack |-> InSnapshot(c, w)] :
                c \in {x \in filter : Holding(x, w) # {}}})

(* A walk through all the pages of a query shows its snapshot: every        *)
(* capture the filter matches once, in order, in the pack it had when the   *)
(* walk began, whatever is published, indexed again or merged meanwhile.    *)
(* And a watermark the catalog itself gave out is never refused as ahead of *)
(* it, however far behind the replica is ("a hard, false rejection of a     *)
(* valid cursor", search).                                                  *)
WalkShowsSnapshot ==
    \A r \in Readers :
       /\ conf.consistent /\ rd[r].pc = "walked" => rd[r].items = Shows(rd[r].w, rd[r].filter)
       /\ conf.consistent /\ rd[r].pc = "paging" =>
             IsPrefix(rd[r].items, Shows(rd[r].w, rd[r].filter))
       /\ rd[r].pc # "ahead"

(* A selection stays resolvable: under consistent reads it is never refused *)
(* as unresolved, and what a hydrate returns is every capture selected,     *)
(* each read whole from the pack the catalog resolved it to.  It never      *)
(* reads more from the store than its caller allowed, and what estimate()   *)
(* said always suffices.                                                    *)
SelectionsHydrate ==
    \A r \in Readers :
       /\ hy[r].spent.requests <= hy[r].limit.requests
       /\ hy[r].spent.bytes <= hy[r].limit.bytes
       /\ hy[r].pc = "limit" => hy[r].limit # Estimate(rd[r].items)
       /\ conf.consistent => rd[r].pc # "unresolved"
       /\ hy[r].pc = "hydrated" =>
            hy[r].payloads = {<<x.capture, x.pack>> : x \in ToSet(rd[r].items)}
       /\ hy[r].pc = "hydrated" /\ conf.consistent =>
            rd[r].items = Shows(rd[r].w, {x.capture : x \in ToSet(rd[r].items)})

(* The footer cache: no pack twice, its byte count is what it holds, and    *)
(* both its limits are kept, also when two threads read the same footer.    *)
CacheAccounted ==
    /\ Cardinality(ToSet(cache)) = Len(cache)
    /\ cacheBytes = CachedBytes(cache) /\ cacheBytes <= conf.cacheBytes
    /\ Len(cache) <= conf.cachePacks
=============================================================================
