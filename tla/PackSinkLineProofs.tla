------------------------- MODULE PackSinkLineProofs -------------------------
(***************************************************************************)
(* Lemmas for PackSinkProofs: what moving an item does to a pair's line,    *)
(* the steps that leave every line alone (flush_records, the engine, the    *)
(* destructor), the steps of a packer, and a stager that stores a pack.     *)
(***************************************************************************)
EXTENDS PackSinkInvariant, TLAPS

---------------------------------------------------------------------------
(* Sequences and the elements they hold.                                     *)

(* A queue holds its head and its tail.                                      *)
LEMMA RangeTail ==
    ASSUME NEW S, NEW s \in Seq(S), s # <<>>
    PROVE  /\ Range(s) = {Head(s)} \cup Range(Tail(s))
           /\ Head(s) \in S /\ Tail(s) \in Seq(S)
<1>1. Head(s) \in S /\ Tail(s) \in Seq(S)
  OBVIOUS
<1>2. \A i \in DOMAIN Tail(s) : i + 1 \in DOMAIN s /\ Tail(s)[i] = s[i + 1]
  OBVIOUS
<1>3. \A i \in DOMAIN s : i = 1 \/ (i - 1 \in DOMAIN Tail(s) /\ Tail(s)[i - 1] = s[i])
  OBVIOUS
<1>4. 1 \in DOMAIN s /\ Head(s) = s[1]
  OBVIOUS
<1>5. \A x \in Range(s) : x \in {Head(s)} \cup Range(Tail(s))
  BY <1>3, <1>4, ZenonT(40) DEF Range
<1>6. \A x \in Range(Tail(s)) : x \in Range(s)
  BY <1>2, Zenon DEF Range
<1>7. Head(s) \in Range(s)
  BY <1>4, Zenon DEF Range
<1> QED BY <1>1, <1>5, <1>6, <1>7, Zenon

(* A queue that got x holds x as well.                                       *)
LEMMA RangeAppend ==
    ASSUME NEW S, NEW s \in Seq(S), NEW x
    PROVE  Range(Append(s, x)) = Range(s) \cup {x}
<1>1. DOMAIN Append(s, x) = 1 .. Len(s) + 1 /\ DOMAIN s = 1 .. Len(s)
  OBVIOUS
<1>2. \A i \in DOMAIN s : Append(s, x)[i] = s[i]
  OBVIOUS
<1>3. Append(s, x)[Len(s) + 1] = x
  OBVIOUS
<1> QED BY <1>1, <1>2, <1>3 DEF Range

(* What the stored packs hold together.                                      *)
LEMMA RangeConcat ==
    ASSUME NEW S, NEW s \in Seq(S), NEW t \in Seq(S)
    PROVE  Range(s \o t) = Range(s) \cup Range(t)
<1>1. DOMAIN (s \o t) = 1 .. Len(s) + Len(t) /\ DOMAIN s = 1 .. Len(s) /\ DOMAIN t = 1 .. Len(t)
  OBVIOUS
<1>2. \A i \in DOMAIN s : (s \o t)[i] = s[i] /\ i \in DOMAIN (s \o t)
  OBVIOUS
<1>3. \A i \in DOMAIN t : (s \o t)[Len(s) + i] = t[i] /\ Len(s) + i \in DOMAIN (s \o t)
  OBVIOUS
<1>4. \A i \in DOMAIN (s \o t) : i \in DOMAIN s \/ i - Len(s) \in DOMAIN t
  BY <1>1
<1>5. \A i \in DOMAIN (s \o t) : (s \o t)[i] \in Range(s) \cup Range(t)
  BY <1>1, <1>2, <1>3, <1>4 DEF Range
<1>6. \A x \in Range(s \o t) : x \in Range(s) \cup Range(t)
  BY <1>5, Zenon DEF Range
<1>7. \A x \in Range(s) : x \in Range(s \o t)
  BY <1>2, Zenon DEF Range
<1>8. \A x \in Range(t) : x \in Range(s \o t)
  BY <1>3, Zenon DEF Range
<1> QED BY <1>6, <1>7, <1>8, Zenon

(* The empty queue.                                                          *)
LEMMA RangeEmpty == Range(<<>>) = {}
  BY DEF Range

(* A sorted queue without its head is sorted, and all behind the head.       *)
LEMMA SortedTail ==
    ASSUME NEW bs, NEW S, NEW s \in Seq(S), s # <<>>, Sorted(bs, s)
    PROVE  Sorted(bs, Tail(s)) /\ AllBefore(bs, {Head(s)}, Range(Tail(s)))
<1>1. \A i \in DOMAIN Tail(s) : i + 1 \in DOMAIN s /\ Tail(s)[i] = s[i + 1] /\ 1 < i + 1
  OBVIOUS
<1>2. 1 \in DOMAIN s /\ Head(s) = s[1]
  OBVIOUS
<1>3. \A i, j \in DOMAIN Tail(s) : i < j => i + 1 < j + 1
  OBVIOUS
<1>4. Sorted(bs, Tail(s))
  BY <1>1, <1>3, Zenon DEF Sorted
<1>5. AllBefore(bs, {Head(s)}, Range(Tail(s)))
  BY <1>1, <1>2, Zenon DEF Sorted, AllBefore, Range
<1> QED BY <1>4, <1>5, Zenon

(* A sorted queue that gets an item behind all it holds is sorted.           *)
LEMMA SortedAppend ==
    ASSUME NEW bs, NEW S, NEW s \in Seq(S), NEW x,
           Sorted(bs, s), AllBefore(bs, Range(s), {x})
    PROVE  Sorted(bs, Append(s, x))
<1>1. DOMAIN Append(s, x) = 1 .. Len(s) + 1 /\ DOMAIN s = 1 .. Len(s) /\ Len(s) \in Nat
  OBVIOUS
<1>2. \A i \in DOMAIN s : Append(s, x)[i] = s[i] /\ s[i] \in Range(s)
  BY DEF Range
<1>3. Append(s, x)[Len(s) + 1] = x
  OBVIOUS
<1>4. \A i, j \in DOMAIN Append(s, x) : i < j => i \in DOMAIN s /\ (j \in DOMAIN s \/ j = Len(s) + 1)
  BY <1>1
<1> QED BY <1>2, <1>3, <1>4, Zenon DEF Sorted, AllBefore

(* The same for the records of a pack.                                       *)
LEMMA IncreasingAppend ==
    ASSUME NEW p \in Seq(Nat), NEW r \in Nat, Increasing(p), \A s \in Range(p) : s < r
    PROVE  Increasing(Append(p, r))
<1>1. DOMAIN Append(p, r) = 1 .. Len(p) + 1 /\ DOMAIN p = 1 .. Len(p) /\ Len(p) \in Nat
  OBVIOUS
<1>2. \A i \in DOMAIN p : Append(p, r)[i] = p[i] /\ p[i] \in Range(p)
  BY DEF Range
<1>3. Append(p, r)[Len(p) + 1] = r
  OBVIOUS
<1>4. \A i, j \in DOMAIN Append(p, r) : i < j => i \in DOMAIN p /\ (j \in DOMAIN p \/ j = Len(p) + 1)
  BY <1>1
<1> QED BY <1>2, <1>3, <1>4, Zenon DEF Increasing

---------------------------------------------------------------------------
(* The line of a pair.                                                       *)

(* The records of each kind of item.                                         *)
LEMMA ItemRecords ==
    /\ \A r : RecordsOf(RecordItem(r)) = {r} /\ RecordItem(r).kind = "record" /\ RecordItem(r).n = r
    /\ \A b : RecordsOf(BarrierItem(b)) = {} /\ BarrierItem(b).kind = "barrier" /\ BarrierItem(b).n = b
    /\ \A p : RecordsOf(PackItem(p)) = Range(p) /\ PackItem(p).kind = "pack" /\ PackItem(p).n = p
    /\ RecordsOf(NoItem) = {} /\ NoItem.kind = "none"
  BY Zenon DEF RecordsOf, RecordItem, BarrierItem, PackItem, NoItem

(* No item stands in nobody's way.                                           *)
LEMMA NothingBefore ==
    ASSUME NEW bs, NEW x
    PROVE  Before(bs, NoItem, x) /\ Before(bs, x, NoItem)
  BY ItemRecords, Zenon DEF Before

(* So does the open pack while it is empty.                                  *)
LEMMA EmptyPackBefore ==
    ASSUME NEW bs, NEW x
    PROVE  Before(bs, PackItem(<<>>), x) /\ Before(bs, x, PackItem(<<>>))
<1>1. RecordsOf(PackItem(<<>>)) = {} /\ PackItem(<<>>).kind # "barrier"
  BY ItemRecords, RangeEmpty, Zenon
<1> QED BY <1>1, Zenon DEF Before

(* PackerPop: the packer takes the head of its queue.                        *)
LEMMA LinePop ==
    ASSUME NEW bs, NEW sh, NEW sq, NEW bd, NEW S, NEW q \in Seq(S), q # <<>>,
           InLine(bs, sh, sq, bd, NoItem, q)
    PROVE  InLine(bs, sh, sq, bd, Head(q), Tail(q))
<1>1. Range(q) = {Head(q)} \cup Range(Tail(q))
  BY RangeTail, Zenon
<1>2. Sorted(bs, Tail(q)) /\ AllBefore(bs, {Head(q)}, Range(Tail(q)))
  BY SortedTail, Zenon DEF InLine
<1> QED BY <1>1, <1>2, Zenon DEF InLine, AllBefore

(* SealForStager: the open pack goes to the end of the stager's queue.       *)
LEMMA LineSeal ==
    ASSUME NEW bs, NEW sh, NEW S, NEW sq \in Seq(S), NEW bd, NEW h, NEW q,
           InLine(bs, sh, sq, bd, h, q)
    PROVE  InLine(bs, sh, Append(sq, PackItem(bd)), <<>>, h, q)
<1>1. Range(Append(sq, PackItem(bd))) = Range(sq) \cup {PackItem(bd)}
  BY RangeAppend, Zenon
<1>2. Sorted(bs, Append(sq, PackItem(bd)))
  BY SortedAppend, Zenon DEF InLine, AllBefore
<1>3. Increasing(<<>>)
  BY DEF Increasing
<1>4. Ordered(PackItem(bd))
  BY ItemRecords, Zenon DEF InLine, Ordered
<1> QED BY <1>1, <1>2, <1>3, <1>4, EmptyPackBefore, Zenon DEF InLine, AllBefore

(* ForwardBarrier: the packer hands its item on.                             *)
LEMMA LineForward ==
    ASSUME NEW bs, NEW sh, NEW S, NEW sq \in Seq(S), NEW h, NEW q, h.kind # "pack",
           InLine(bs, sh, sq, <<>>, h, q)
    PROVE  InLine(bs, sh, Append(sq, h), <<>>, NoItem, q)
<1>1. Range(Append(sq, h)) = Range(sq) \cup {h}
  BY RangeAppend, Zenon
<1>2. Sorted(bs, Append(sq, h))
  BY SortedAppend, Zenon DEF InLine, AllBefore
<1>3. Ordered(h)
  BY Zenon DEF Ordered
<1> QED BY <1>1, <1>2, <1>3, EmptyPackBefore, NothingBefore, Zenon DEF InLine, AllBefore

(* PackerAppend: the packer's record is dropped, or joins the open pack.     *)
LEMMA LineDrop ==
    ASSUME NEW bs, NEW sh, NEW sq, NEW bd, NEW h, NEW q, InLine(bs, sh, sq, bd, h, q)
    PROVE  InLine(bs, sh, sq, bd, NoItem, q)
  BY NothingBefore, Zenon DEF InLine, AllBefore

(* builder.Append: the record in the packer's hand joins the open pack.      *)
LEMMA LineAppend ==
    ASSUME NEW bs, NEW sh, NEW sq, NEW bd \in Seq(Nat), NEW r \in Nat, NEW q,
           InLine(bs, sh, sq, bd, RecordItem(r), q)
    PROVE  InLine(bs, sh, sq, Append(bd, r), NoItem, q)
<1> DEFINE old == PackItem(bd)
           new == PackItem(Append(bd, r))
<1>1. RecordsOf(new) = RecordsOf(old) \cup RecordsOf(RecordItem(r)) /\ new.kind # "barrier"
  BY ItemRecords, RangeAppend
<1>2. \A s \in Range(bd) : s < r
  BY ItemRecords, ZenonT(40) DEF InLine, AllBefore, Before
<1>3. Increasing(Append(bd, r))
  BY <1>2, IncreasingAppend, Zenon DEF InLine
<1>4. \A x : Before(bs, x, old) /\ Before(bs, x, RecordItem(r)) => Before(bs, x, new)
  BY <1>1, Zenon DEF Before
<1>5. \A x : Before(bs, old, x) /\ Before(bs, RecordItem(r), x) => Before(bs, new, x)
  BY <1>1, Zenon DEF Before
<1> HIDE DEF old, new
<1>6. AllBefore(bs, {sh} \cup Range(sq), {old, RecordItem(r)}) /\ AllBefore(bs, {old, RecordItem(r)}, Range(q))
  BY Zenon DEF InLine, AllBefore, old
<1>7. AllBefore(bs, {sh} \cup Range(sq), {new}) /\ AllBefore(bs, {new}, Range(q))
  BY <1>4, <1>5, <1>6, Zenon DEF AllBefore
<1> QED BY <1>3, <1>7, NothingBefore, Zenon DEF InLine, AllBefore, new

(* PackerFails: the open pack is lost.                                       *)
LEMMA LineLose ==
    ASSUME NEW bs, NEW sh, NEW sq, NEW bd, NEW h, NEW q, InLine(bs, sh, sq, bd, h, q)
    PROVE  InLine(bs, sh, sq, <<>>, h, q)
<1>1. Increasing(<<>>)
  BY DEF Increasing
<1> QED BY <1>1, EmptyPackBefore, Zenon DEF InLine, AllBefore

(* StagerPop: the stager takes the head of its queue.                        *)
LEMMA LineStage ==
    ASSUME NEW bs, NEW S, NEW sq \in Seq(S), NEW bd, NEW h, NEW q, sq # <<>>,
           InLine(bs, NoItem, sq, bd, h, q)
    PROVE  InLine(bs, Head(sq), Tail(sq), bd, h, q)
<1>1. Range(sq) = {Head(sq)} \cup Range(Tail(sq))
  BY RangeTail, Zenon
<1>2. Sorted(bs, Tail(sq)) /\ AllBefore(bs, {Head(sq)}, Range(Tail(sq)))
  BY SortedTail, Zenon DEF InLine
<1> QED BY <1>1, <1>2, Zenon DEF InLine, AllBefore

(* StagerDone: the stager is finished with its item.                         *)
LEMMA LineDone ==
    ASSUME NEW bs, NEW sh, NEW sq, NEW bd, NEW h, NEW q, InLine(bs, sh, sq, bd, h, q)
    PROVE  InLine(bs, NoItem, sq, bd, h, q)
<1>1. Ordered(NoItem)
  BY ItemRecords, Zenon DEF Ordered
<1> QED BY <1>1, NothingBefore, Zenon DEF InLine, AllBefore

(* SubmitAdmit and FlushMake: an item behind all others joins the queue.     *)
LEMMA LineJoin ==
    ASSUME NEW bs, NEW sh, NEW sq, NEW bd, NEW h, NEW S, NEW q \in Seq(S), NEW x,
           InLine(bs, sh, sq, bd, h, q),
           AllBefore(bs, {sh} \cup Range(sq) \cup {PackItem(bd), h} \cup Range(q), {x})
    PROVE  InLine(bs, sh, sq, bd, h, Append(q, x))
<1>1. Range(Append(q, x)) = Range(q) \cup {x}
  BY RangeAppend, Zenon
<1>2. Sorted(bs, Append(q, x))
  BY SortedAppend, Zenon DEF InLine, AllBefore
<1> QED BY <1>1, <1>2, Zenon DEF InLine, AllBefore

(* The order depends on the barriers' targets only.                          *)
LEMMA LineTargets ==
    ASSUME NEW bs, NEW cs, NEW sh, NEW S, NEW sq \in Seq(S), NEW bd, NEW h, NEW T, NEW q \in Seq(T),
           \A x \in {sh, h} \cup Range(sq) \cup Range(q) :
              x.kind = "barrier" => cs[x.n].target = bs[x.n].target,
           InLine(bs, sh, sq, bd, h, q)
    PROVE  InLine(cs, sh, sq, bd, h, q)
<1>1. \A x \in {sh, h} \cup Range(sq) \cup Range(q) : \A y : Before(bs, x, y) => Before(cs, x, y)
  BY Zenon DEF Before
<1>2. \A y : Before(bs, PackItem(bd), y) => Before(cs, PackItem(bd), y)
  BY ItemRecords, Zenon DEF Before
<1>3. \A i \in DOMAIN sq : sq[i] \in Range(sq)
  BY Zenon DEF Range
<1>4. \A i \in DOMAIN q : q[i] \in Range(q)
  BY Zenon DEF Range
<1>5. Sorted(cs, sq) /\ Sorted(cs, q)
  BY <1>1, <1>3, <1>4, Zenon DEF InLine, Sorted
<1> QED BY <1>1, <1>2, <1>5, Zenon DEF InLine, AllBefore

---------------------------------------------------------------------------
(* Steps that leave the line alone.                                          *)

(* A step that stores and admits nothing: what is settled, numbered and open *)
(* stays, and so do the routes.                                              *)
LEMMA SameLog ==
    ASSUME UNCHANGED <<conf, admitted, persisted, duplicate, oversized>>
    PROVE  /\ Settled' = Settled /\ Numbers' = Numbers /\ Workers' = Workers /\ Script' = Script
           /\ \A r : RouteOf(r)' = RouteOf(r)
           /\ \A w : Open(w)' = Open(w)
<1>1. Settled' = Settled /\ Numbers' = Numbers /\ Workers' = Workers /\ Script' = Script
  BY Zenon DEF Settled, Numbers, Workers, Script
<1>2. \A r : RouteOf(r)' = RouteOf(r)
  BY <1>1, Zenon DEF RouteOf
<1> QED BY <1>1, <1>2, Zenon DEF Open

(* A step that moves no item: every pair holds what it held, and every       *)
(* barrier is under way where it was.                                        *)
LEMMA SamePlaces ==
    ASSUME UNCHANGED <<conf, queue, hand, builder, stageq, shand>>
    PROVE  /\ \A w : /\ Staging(w)' = Staging(w) /\ StageRecords(w)' = StageRecords(w)
                    /\ Items(w)' = Items(w) /\ Held(w)' = Held(w)
           /\ \A b : Carriers(b)' = Carriers(b)
<1>1. \A w : Staging(w)' = Staging(w)
  BY Zenon DEF Staging
<1>2. \A w : StageRecords(w)' = StageRecords(w) /\ Items(w)' = Items(w)
  BY <1>1, Zenon DEF StageRecords, Items
<1>3. \A w : Held(w)' = Held(w)
  BY Zenon DEF Held
<1> QED BY <1>1, <1>2, <1>3, Zenon DEF Carriers, Workers

(* A step that moves no item and settles no record, and after which no dead  *)
(* thread lives, keeps the invariant of the line.                            *)
LEMMA QuietStep ==
    ASSUME SinkInv,
           UNCHANGED <<conf, queue, hand, builder, stageq, shand, barrier, admitted, persisted,
                       duplicate, oversized, latched>>,
           wpc' \in [Workers -> {"wait", "item", "seal", "exit", "dead"}],
           spc' \in [Workers -> {"wait", "item", "dead"}],
           \A w \in Workers :
              /\ wpc[w] = "dead" => wpc'[w] = "dead"
              /\ spc[w] = "dead" => spc'[w] = "dead"
              /\ wpc'[w] \in {"wait", "seal", "exit"} => hand[w] = NoItem
              /\ spc'[w] \in {"wait", "dead"} => shand[w] = NoItem,
           pending' \in 0 .. Len(barrier),
           \A b \in 1 .. Len(barrier) : ~barrier[b].completed => pending' = b
    PROVE  PlaceInv' /\ LineInv' /\ OpenInv' /\ StoredInv' /\ BarrierInv'
<1>1. PlaceInv'
  BY SameLog, Zenon DEF SinkInv, PlaceInv, RecordItems, BarrierItems, PackItems
<1>2. LineInv'
  BY SameLog, Zenon DEF SinkInv, LineInv
<1>3. OpenInv'
  <2> SUFFICES ASSUME NEW w \in Workers
               PROVE  /\ Held(w) \subseteq Open(w)
                      /\ wpc'[w] # "dead" /\ spc'[w] # "dead" => Open(w) \subseteq Held(w)
                      /\ ~latched => Open(w) \subseteq Held(w)
                      /\ spc'[w] # "dead" =>
                            \A r \in Open(w) \ StageRecords(w), s \in StageRecords(w) : s < r
    BY SameLog, SamePlaces, SMTT(30) DEF OpenInv
  <2> QED BY Zenon DEF SinkInv, OpenInv
<1>4. StoredInv'
  <2>1. \A k, l \in DOMAIN persisted' : RouteOf(persisted[k])' = RouteOf(persisted[k])
    BY SameLog, Zenon DEF RouteOf
  <2> QED BY SameLog DEF SinkInv, StoredInv, RouteOf
<1>5. BarrierInv'
  <2>1. \A b \in 1 .. Len(barrier) : \A r \in 1 .. barrier[b].target :
           RouteOf(r)' \in Carriers(b)' <=> RouteOf(r) \in Carriers(b)
    BY SameLog, SamePlaces, Zenon
  <2> QED BY <2>1, SameLog, SamePlaces, ZenonT(40) DEF SinkInv, BarrierInv
<1> QED BY <1>1, <1>2, <1>3, <1>4, <1>5, ZenonT(40)

(* A step that moves no item, stores nothing and ends no thread keeps what   *)
(* the invariant says about the lines, the store and the barriers.           *)
LEMMA StillStep ==
    ASSUME SinkInv,
           UNCHANGED <<conf, queue, hand, builder, stageq, shand, barrier, admitted, persisted,
                       duplicate, oversized, latched, wpc, spc, pending>>
    PROVE  PlaceInv' /\ LineInv' /\ OpenInv' /\ StoredInv' /\ BarrierInv'
<1>1. pending \in 0 .. Len(barrier) /\ \A b \in 1 .. Len(barrier) : ~barrier[b].completed => pending = b
  BY Zenon DEF SinkInv, BarrierInv
<1>2. PlaceInv
  BY Zenon DEF SinkInv
<1> QED BY <1>1, <1>2, QuietStep, Zenon DEF PlaceInv

(* What the flushers know stays true while nobody flushes.                   *)
LEMMA FlushersStay ==
    ASSUME SinkInv, UNCHANGED <<flush, flushLock, pending>>,
           Len(admitted') \in Nat, Len(admitted) <= Len(admitted'), Settled \subseteq Settled',
           \A b \in 1 .. Len(barrier) : barrier'[b].target = barrier[b].target
    PROVE  FlushInv'
<1>0. FlushInv /\ Len(admitted) \in Nat /\ pending \in 0 .. Len(barrier)
  BY DEF SinkInv, SubInv, BarrierInv
<1> SUFFICES ASSUME NEW f \in AllFlushers
             PROVE  /\ flush[f].want <= Len(admitted')
                    /\ flush[f].pc \in {"look", "make", "reuse", "own"} => flushLock = f
                    /\ flush[f].pc = "make" => pending = 0
                    /\ Waiting(f) => flush[f].on = pending /\ pending # 0
                    /\ flush[f].pc = "own" => barrier'[flush[f].on].target = flush[f].want
                    /\ flush[f].pc = "ok" => 1 .. flush[f].want \subseteq Settled'
  BY <1>0, Zenon DEF FlushInv, Waiting
<1>1. flush[f].want \in Nat /\ flush[f].want <= Len(admitted)
  BY <1>0, Zenon DEF FlushInv
<1>2. flush[f].want <= Len(admitted')
  BY <1>0, <1>1
<1>3. ASSUME flush[f].pc = "own" PROVE flush[f].on \in 1 .. Len(barrier)
  BY <1>0, <1>3 DEF FlushInv, Waiting
<1> QED BY <1>0, <1>2, <1>3, Zenon DEF FlushInv

(* RouteWorker sends every record to a pair of the configuration.            *)
LEMMA Routed ==
    ASSUME conf \in Scenarios
    PROVE  /\ conf.workers \in Nat /\ Len(Script) \in Nat
           /\ \A r \in 1 .. Len(Script) : RouteOf(r) \in Workers
<1>1. Script \in Seq(Range(Script)) /\ conf.workers \in Nat
  BY SinkAssumption, Zenon DEF Script
<1>2. DOMAIN Script = 1 .. Len(Script) /\ Len(Script) \in Nat
  BY <1>1
<1> QED BY <1>1, <1>2, SinkAssumption, Zenon DEF RouteOf, Script, Workers

(* The fields of a barrier.                                                  *)
LEMMA BarrierFields ==
    ASSUME BarrierInv
    PROVE  /\ Len(barrier) \in Nat /\ DOMAIN barrier = 1 .. Len(barrier)
           /\ \A b \in 1 .. Len(barrier) :
                 barrier[b] \in Barriers /\ barrier[b].target \in Nat /\ barrier[b].target <= Len(admitted)
<1>1. barrier \in Seq(Barriers) /\ \A b \in 1 .. Len(barrier) : barrier[b].target <= Len(admitted)
  BY Zenon DEF BarrierInv
<1>2. Len(barrier) \in Nat /\ DOMAIN barrier = 1 .. Len(barrier)
  BY <1>1
<1>3. \A b \in 1 .. Len(barrier) : barrier[b] \in Barriers
  BY <1>1, <1>2
<1>4. \A x \in Barriers : x.target \in Nat
  BY Zenon DEF Barriers
<1> QED BY <1>1, <1>2, <1>3, <1>4, Zenon

lineVars == <<conf, queue, hand, builder, stageq, shand, barrier, admitted, persisted, duplicate>>

(* SubmitStart: a record too large for the sink is counted, and is no        *)
(* admitted record.                                                          *)
LEMMA SubmitStartKeeps ==
    ASSUME SinkInv, SubmitStart, Fixed
    PROVE  SinkInv'
<1> USE DEF SinkInv
<1>1. UNCHANGED lineVars /\ UNCHANGED <<wpc, spc, pending, latched, closed, stageClosed, flush, flushLock>>
  BY Zenon DEF SubmitStart, Fixed, packVars, stageVars, stopVars, flushVars, lineVars
<1>2. sub.sent = Len(admitted) /\ Settled \subseteq Numbers /\ attached /\ sub.sent < Len(Script)
  BY Zenon DEF SubmitStart, SubInv
<1>3. oversized' = oversized \/ (sub'.pc = "stopped" /\ oversized' = oversized \cup {Len(admitted) + 1})
  BY <1>2 DEF SubmitStart, Current, Stopped
<1>4. Len(admitted) \in Nat /\ Len(admitted) + 1 \notin Numbers
  BY DEF SubInv, Numbers
<1>5. Numbers' = Numbers /\ Numbers \ Settled' = Numbers \ Settled /\ Settled \subseteq Settled'
  BY <1>1, <1>3, <1>4, Zenon DEF Settled, Numbers, lineVars
<1>6. /\ \A r : RouteOf(r)' = RouteOf(r)
      /\ \A w : Open(w)' = Open(w)
      /\ Workers' = Workers /\ Script' = Script
  BY <1>1, <1>5, Zenon DEF RouteOf, Script, Open, lineVars, Workers
<1>7. \A n \in Nat : n <= Len(admitted) /\ 1 .. n \subseteq Settled => 1 .. n \subseteq Settled'
  BY <1>5, Zenon
<1>a. SubInv'
  <2>1. sub' \in [pc : {"idle", "admit", "stopped"}, sent : Nat]
    BY <1>2, <1>4 DEF SubmitStart, Stopped, Current, SubInv
  <2>2. sub'.pc # "stopped" => sub' = [sub EXCEPT !.pc = "admit"] /\ oversized' = oversized
    BY DEF SubmitStart, Stopped
  <2>3. sub'.pc # "stopped" => sub'.sent = Len(admitted) /\ Settled' = Settled
    BY <2>2, <1>1, <1>2, Zenon DEF SubInv, Settled, lineVars
  <2>4. attached' = attached
    BY Zenon DEF SubmitStart, hostVars
  <2> QED BY <2>1, <2>3, <2>4, <1>1, <1>2, <1>5, <1>6, Zenon DEF SubInv, lineVars
<1>b. PlaceInv'
  BY <1>1, <1>5, <1>6, Zenon DEF PlaceInv, RecordItems, BarrierItems, PackItems, lineVars
<1>c. LineInv'
  BY <1>1, <1>6, Zenon DEF LineInv, lineVars
<1>d. OpenInv'
  <2>1. /\ \A w : /\ Staging(w)' = Staging(w) /\ StageRecords(w)' = StageRecords(w)
                  /\ Items(w)' = Items(w) /\ Held(w)' = Held(w)
    BY <1>1, SamePlaces, Zenon DEF lineVars
  <2> QED BY <2>1, <1>1, <1>6, Zenon DEF OpenInv
<1>e. StoredInv'
  BY <1>1, <1>5, <1>6, Zenon DEF StoredInv, RouteOf, lineVars
<1>f. BarrierInv'
  <2>1. \A b : Carriers(b)' = Carriers(b)
    BY <1>1, SamePlaces, Zenon DEF lineVars
  <2>2. \A b \in 1 .. Len(barrier) : barrier[b].target \in Nat /\ barrier[b].target <= Len(admitted)
    BY BarrierFields, Zenon
  <2> QED BY <1>1, <1>5, <1>6, <1>7, <2>1, <2>2, Zenon DEF BarrierInv, lineVars
<1>g. FlushInv'
  BY <1>1, <1>4, <1>5, FlushersStay DEF lineVars
<1>h. StopInv'
  BY <1>1, <1>6, Zenon DEF StopInv, lineVars, SubmitStart, hostVars
<1>i. ReleaseInv'
  BY <1>1, <1>2, <1>5, Zenon DEF ReleaseInv, lineVars, SubmitStart, hostVars
<1> QED BY <1>a, <1>b, <1>c, <1>d, <1>e, <1>f, <1>g, <1>h, <1>i, Zenon

(* Frames of the other conjuncts.                                            *)
LEMMA SubStays ==
    ASSUME SinkInv, UNCHANGED <<conf, sub, admitted, persisted, duplicate, oversized>>,
           attached' = attached \/ sub.pc # "admit"
    PROVE  SubInv'
  BY SameLog, Zenon DEF SinkInv, SubInv

(* A step that closes nothing and ends no thread keeps StopInv.              *)
LEMMA StopStays ==
    ASSUME SinkInv, UNCHANGED <<conf, latched, closed, stageClosed, cpc, wpc, spc, queue, hand, builder, stageq>>
    PROVE  StopInv'
  BY Zenon DEF SinkInv, StopInv, Workers

(* A step of neither the engine, the record worker nor a flusher keeps       *)
(* ReleaseInv.                                                               *)
LEMMA ReleaseStays ==
    ASSUME SinkInv, UNCHANGED <<conf, attached, sealed, sub, flush, admitted>>, Settled \subseteq Settled'
    PROVE  ReleaseInv'
  BY Zenon DEF SinkInv, ReleaseInv, Numbers

(* A step that neither flushes nor touches a barrier keeps FlushInv.         *)
LEMMA FlushersStill ==
    ASSUME SinkInv, UNCHANGED <<flush, flushLock, pending, barrier, admitted>>, Settled' = Settled
    PROVE  FlushInv'
<1>1. Len(admitted) \in Nat
  BY DEF SinkInv, SubInv
<1> QED BY <1>1, FlushersStay

(* A wait, or a record refused.                                              *)
LEMMA WaitKeeps ==
    ASSUME SinkInv, Fixed,
           \/ SubmitRefused \/ SubmitWait
           \/ \E w \in Workers : LingerDue(w) \/ PackerSleep(w)
           \/ \E f \in AllFlushers : FlushSleep(f)
    PROVE  SinkInv'
<1>1. /\ UNCHANGED <<conf, queue, hand, builder, stageq, shand, barrier, admitted, persisted,
                     duplicate, oversized, latched, wpc, spc, pending>>
      /\ UNCHANGED <<flush, flushLock, closed, stageClosed, cpc, attached, sealed>>
      /\ sub' = sub \/ (sub.pc = "admit" /\ Stopped)
  BY Zenon DEF SubmitRefused, SubmitWait, LingerDue, PackerSleep, FlushSleep, Fixed, hostVars, packVars,
               stageVars, stopVars, flushVars, logVars
<1>2. PlaceInv' /\ LineInv' /\ OpenInv' /\ StoredInv' /\ BarrierInv'
  BY <1>1, StillStep, Zenon
<1>3. Settled' = Settled /\ Numbers' = Numbers /\ Script' = Script
  BY <1>1, SameLog, Zenon
<1>4. FlushInv' /\ StopInv'
  BY <1>1, <1>3, FlushersStill, StopStays, Zenon
<1>5. SubInv'
  <2>1. CASE sub' = sub
    BY <2>1, <1>1, SubStays, Zenon
  <2>2. CASE sub.pc = "admit" /\ Stopped
    BY <2>2, <1>1, <1>3 DEF SinkInv, SubInv, Stopped, Current
  <2> QED BY <2>1, <2>2, <1>1, Zenon
<1>6. ReleaseInv'
  <2>1. ~attached => sub' = sub
    BY <1>1, Zenon DEF SinkInv, SubInv
  <2> QED BY <1>1, <1>3, <2>1, Zenon DEF SinkInv, ReleaseInv
<1> QED BY <1>2, <1>4, <1>5, <1>6, Zenon DEF SinkInv

(* A packer or a stager that finds nothing to do, or ends.                   *)
LEMMA IdleKeeps ==
    ASSUME SinkInv, Fixed, NEW w \in Workers, PackerIdle(w) \/ PackerExit(w) \/ StagerIdle(w)
    PROVE  SinkInv'
<1>1. /\ UNCHANGED <<conf, queue, hand, builder, stageq, shand, barrier, admitted, persisted,
                     duplicate, oversized, latched, pending>>
      /\ UNCHANGED <<sub, flush, flushLock, closed, stageClosed, cpc, attached, sealed>>
  BY Zenon DEF PackerIdle, PackerExit, StagerIdle, Fixed, hostVars, packVars, stageVars, stopVars,
               flushVars, logVars
<1>2. /\ wpc \in [Workers -> {"wait", "item", "seal", "exit", "dead"}]
      /\ spc \in [Workers -> {"wait", "item", "dead"}]
      /\ \A v \in Workers : /\ wpc[v] \in {"wait", "seal", "exit"} => hand[v] = NoItem
                            /\ spc[v] \in {"wait", "dead"} => shand[v] = NoItem
  BY Zenon DEF SinkInv, PlaceInv
<1>3. \/ /\ wpc' = wpc
         /\ spc' = spc \/ (spc[w] = "wait" /\ spc' = [spc EXCEPT ![w] = "dead"] /\ stageClosed /\ stageq[w] = <<>>)
      \/ /\ spc' = spc
         /\ \/ wpc[w] = "wait" /\ wpc' = [wpc EXCEPT ![w] = "exit"] /\ closed /\ queue[w] = <<>>
            \/ wpc[w] = "wait" /\ wpc' = [wpc EXCEPT ![w] = "seal"]
            \/ wpc[w] = "exit" /\ wpc' = [wpc EXCEPT ![w] = "dead"] /\ builder[w] = <<>>
  BY Zenon DEF PackerIdle, PackerExit, StagerIdle, GoTo, stageVars, packVars
<1>4. /\ wpc' \in [Workers -> {"wait", "item", "seal", "exit", "dead"}]
      /\ spc' \in [Workers -> {"wait", "item", "dead"}]
  BY <1>2, <1>3, Zenon
<1>5. \A v \in Workers :
         /\ wpc[v] = "dead" => wpc'[v] = "dead"
         /\ spc[v] = "dead" => spc'[v] = "dead"
         /\ wpc'[v] \in {"wait", "seal", "exit"} => hand[v] = NoItem
         /\ spc'[v] \in {"wait", "dead"} => shand[v] = NoItem
  BY <1>2, <1>3, Zenon
<1>6. pending' \in 0 .. Len(barrier) /\ \A b \in 1 .. Len(barrier) : ~barrier[b].completed => pending' = b
  BY <1>1, Zenon DEF SinkInv, BarrierInv
<1>7. PlaceInv' /\ LineInv' /\ OpenInv' /\ StoredInv' /\ BarrierInv'
  BY <1>1, <1>4, <1>5, <1>6, QuietStep, Zenon
<1>8. Settled' = Settled /\ Workers' = Workers
  BY <1>1, SameLog, Zenon
<1>9. SubInv' /\ FlushInv' /\ ReleaseInv'
  BY <1>1, <1>8, SubStays, FlushersStill, ReleaseStays, Zenon
<1>10. StopInv'
  <2>1. \A v \in Workers : wpc'[v] \in {"exit", "dead"} =>
           closed /\ (latched \/ (queue[v] = <<>> /\ hand[v] = NoItem))
    BY <1>2, <1>3, Zenon DEF SinkInv, StopInv
  <2>2. \A v \in Workers : wpc'[v] = "dead" => latched \/ builder[v] = <<>>
    BY <1>2, <1>3, Zenon DEF SinkInv, StopInv
  <2>3. \A v \in Workers : spc'[v] = "dead" => latched \/ (stageClosed /\ stageq[v] = <<>>)
    BY <1>2, <1>3, Zenon DEF SinkInv, StopInv
  <2> QED BY <1>1, <1>5, <1>8, <2>1, <2>2, <2>3, Zenon DEF SinkInv, StopInv
<1> QED BY <1>7, <1>9, <1>10, Zenon DEF SinkInv

---------------------------------------------------------------------------
(* Flush: a step of flusher f that makes no barrier.                         *)

FlushRecords == [pc : Returned \cup {"lock", "look", "make", "reuse", "own"},
                 want : Nat, on : Nat, calls : Nat]

(* What FlushInv says of one flusher.                                        *)
FlusherInv(f) ==
    /\ flush[f].want <= Len(admitted)
    /\ flush[f].pc \in {"look", "make", "reuse", "own"} => flushLock = f
    /\ flush[f].pc = "make" => pending = 0
    /\ Waiting(f) => flush[f].on = pending /\ pending # 0
    /\ flush[f].pc = "own" => barrier[flush[f].on].target = flush[f].want
    /\ flush[f].pc = "ok" => 1 .. flush[f].want \subseteq Settled

(* FlushInv, one flusher at a time.                                          *)
LEMMA FlusherParts ==
    FlushInv <=> flush \in [AllFlushers -> FlushRecords] /\ \A f \in AllFlushers : FlusherInv(f)
  BY Zenon DEF FlushInv, FlusherInv, FlushRecords

(* One flusher moves, the others do not hold the lock or see what they saw.  *)
LEMMA OneFlusher ==
    ASSUME SinkInv, NEW f \in AllFlushers, NEW x \in FlushRecords, flush' = [flush EXCEPT ![f] = x],
           UNCHANGED <<barrier, admitted>>, Settled' = Settled,
           \/ UNCHANGED <<flushLock, pending>>
           \/ flush[f].pc = "lock" /\ flushLock = "free" /\ pending' = pending
           \/ flush[f].pc \in {"look", "make", "reuse", "own"},
           FlusherInv(f)'
    PROVE  FlushInv'
<1>1. flush' \in [AllFlushers -> FlushRecords]
  BY FlusherParts, Zenon DEF SinkInv
<1>2. ASSUME NEW g \in AllFlushers, g # f PROVE FlusherInv(g)'
  <2>1. FlusherInv(g) /\ FlusherInv(f) /\ flush'[g] = flush[g]
    BY <1>2, FlusherParts, Zenon DEF SinkInv
  <2>2. g # "free"
    BY SinkAssumption, Zenon DEF AllFlushers
  <2>3. UNCHANGED <<flushLock, pending>> \/ flush[g].pc \notin {"look", "make", "reuse", "own"}
    BY <1>2, <2>1, <2>2, Zenon DEF FlusherInv
  <2> QED BY <2>1, <2>3, Zenon DEF FlusherInv, Waiting
<1>3. \A g \in AllFlushers : FlusherInv(g)'
  BY <1>2, Zenon
<1>4. FlushInv'
  BY <1>1, <1>3, Zenon DEF FlushInv, FlusherInv, FlushRecords
<1> QED BY <1>4, Zenon

(* A step of one flusher that leaves everything else alone keeps the         *)
(* invariant when it keeps its own part.                                     *)
LEMMA FlusherStep ==
    ASSUME SinkInv, Fixed, NEW f \in AllFlushers, NEW x \in FlushRecords, flush' = [flush EXCEPT ![f] = x],
           UNCHANGED <<sub, hostVars, queue, packVars, stageVars, stopVars, barrier, logVars>>,
           pending' = pending \/ (pending' = 0 /\ (pending # 0 => barrier[pending].completed)),
           \/ UNCHANGED <<flushLock, pending>>
           \/ flush[f].pc = "lock" /\ flushLock = "free" /\ pending' = pending
           \/ flush[f].pc \in {"look", "make", "reuse", "own"},
           FlusherInv(f)',
           x.want = Len(admitted) \/ (x.want = flush[f].want /\ flush[f].pc # "idle")
    PROVE  SinkInv'
<1>1. /\ UNCHANGED <<conf, queue, hand, builder, stageq, shand, barrier, admitted, persisted,
                     duplicate, oversized, latched, wpc, spc>>
      /\ UNCHANGED <<sub, closed, stageClosed, cpc, attached, sealed>>
  BY Zenon DEF Fixed, hostVars, packVars, stageVars, stopVars, logVars
<1>2. Settled' = Settled /\ Numbers' = Numbers
  BY <1>1, SameLog, Zenon
<1>3. PlaceInv' /\ LineInv' /\ OpenInv' /\ StoredInv' /\ BarrierInv'
  <2>1. pending \in 0 .. Len(barrier) /\ Len(barrier) \in Nat
    BY BarrierFields, Zenon DEF SinkInv, BarrierInv
  <2>2. \A b \in 1 .. Len(barrier) : ~barrier[b].completed => pending = b
    BY Zenon DEF SinkInv, BarrierInv
  <2>3. pending' \in 0 .. Len(barrier)
    BY <2>1
  <2>4. \A b \in 1 .. Len(barrier) : ~barrier[b].completed => pending' = b
    BY <2>2, Zenon
  <2>5. PlaceInv
    BY Zenon DEF SinkInv
  <2> QED BY <1>1, <2>3, <2>4, <2>5, QuietStep, Zenon DEF PlaceInv
<1>4. SubInv' /\ StopInv'
  BY <1>1, SubStays, StopStays, Zenon
<1>5. FlushInv'
  BY <1>1, <1>2, OneFlusher, Zenon
<1>6. ReleaseInv'
  <2>1. flush \in [AllFlushers -> FlushRecords]
    BY FlusherParts, Zenon DEF SinkInv
  <2>2. flush'["release"].want = Len(admitted) \/ (flush'["release"].want = flush["release"].want
           /\ (flush["release"].pc # "idle" \/ flush'["release"] = flush["release"]))
    BY <2>1
  <2> QED BY <1>1, <1>2, <2>2, Zenon DEF SinkInv, ReleaseInv
<1> QED BY <1>3, <1>4, <1>5, <1>6, Zenon DEF SinkInv

(* What a flusher is doing, from FlushInv.                                   *)
LEMMA FlusherFacts ==
    ASSUME SinkInv, NEW f \in AllFlushers
    PROVE  /\ flush \in [AllFlushers -> FlushRecords] /\ flush[f] \in FlushRecords
           /\ FlusherInv(f) /\ flush[f].want \in Nat /\ Len(admitted) \in Nat
           /\ pending \in 0 .. Len(barrier)
<1>1. flush \in [AllFlushers -> FlushRecords] /\ FlusherInv(f) /\ pending \in 0 .. Len(barrier)
  BY FlusherParts, Zenon DEF SinkInv, BarrierInv
<1>2. flush[f] \in FlushRecords /\ flush[f].want \in Nat
  BY <1>1, Zenon DEF FlushRecords
<1>3. Len(admitted) \in Nat
  BY DEF SinkInv, SubInv
<1> QED BY <1>1, <1>2, <1>3, Zenon

(* The fields a flusher's step sets.                                         *)
LEMMA FlushFields ==
    ASSUME NEW y \in FlushRecords, NEW pc \in Returned \cup {"lock", "look", "make", "reuse", "own"}, NEW n \in Nat
    PROVE  /\ [y EXCEPT !.pc = pc, !.want = n, !.calls = y.calls + 1] \in FlushRecords
           /\ [y EXCEPT !.pc = pc, !.on = n] \in FlushRecords
           /\ [y EXCEPT !.pc = pc] \in FlushRecords
<1> DEFINE P == Returned \cup {"lock", "look", "make", "reuse", "own"}
<1>1. FlushRecords = [pc : P, want : Nat, on : Nat, calls : Nat] /\ pc \in P
  BY Zenon DEF FlushRecords
<1> HIDE DEF P
<1>2. y.calls + 1 \in Nat
  BY <1>1
<1>3. \A k \in Nat : [y EXCEPT !.pc = pc, !.want = n, !.calls = k] \in FlushRecords
  BY <1>1, Zenon
<1> QED BY <1>1, <1>2, <1>3, Zenon

(* FlushBegin: the target is what is admitted when flush_records starts.     *)
LEMMA FlushBeginKeeps ==
    ASSUME SinkInv, Fixed, NEW f \in AllFlushers, FlushBegin(f)
    PROVE  SinkInv'
<1> DEFINE x == [flush[f] EXCEPT !.pc = IF latched THEN "error" ELSE "lock",
                                 !.want = Len(admitted), !.calls = @ + 1]
<1>1. x \in FlushRecords /\ x.want = Len(admitted) /\ x.pc \in {"error", "lock"}
  <2>1. flush[f] \in FlushRecords /\ Len(admitted) \in Nat
    BY FlusherFacts, Zenon
  <2>2. x \in FlushRecords
    BY <2>1, FlushFields, Zenon DEF Returned
  <2> QED BY <2>1, <2>2, Zenon DEF FlushRecords
<1>2. flush' = [flush EXCEPT ![f] = x]
  BY FlusherFacts, Zenon DEF FlushBegin
<1>3. flush'[f] = x
  BY <1>2, FlusherFacts, Zenon
<1>4. /\ UNCHANGED <<sub, hostVars, queue, packVars, stageVars, stopVars, barrier, logVars>>
      /\ UNCHANGED <<flushLock, pending, admitted>>
  BY Zenon DEF FlushBegin, logVars
<1> HIDE DEF x
<1>5. FlusherInv(f)'
  BY <1>1, <1>3, <1>4, FlusherFacts DEF FlusherInv, Waiting
<1> QED BY <1>1, <1>2, <1>4, <1>5, FlusherStep, Zenon

(* FlushLock: a caller takes flush_call_mu_ once nobody holds it.            *)
LEMMA FlushLockKeeps ==
    ASSUME SinkInv, Fixed, NEW f \in AllFlushers, FlushLock(f)
    PROVE  SinkInv'
<1> DEFINE x == [flush[f] EXCEPT !.pc = "look"]
<1>1. x \in FlushRecords /\ x.want = flush[f].want /\ x.pc = "look"
  BY FlusherFacts, Zenon DEF FlushRecords
<1>2. flush' = [flush EXCEPT ![f] = x]
  BY FlusherFacts, Zenon DEF FlushLock, FlushAt
<1>3. flush'[f] = x
  BY <1>2, FlusherFacts, Zenon
<1>4. /\ UNCHANGED <<sub, hostVars, queue, packVars, stageVars, stopVars, barrier, logVars>>
      /\ pending' = pending /\ flushLock' = f /\ flush[f].pc = "lock" /\ flushLock = "free"
      /\ admitted' = admitted
  BY Zenon DEF FlushLock, logVars
<1> HIDE DEF x
<1>5. FlusherInv(f)'
  BY <1>1, <1>3, <1>4, FlusherFacts, Zenon DEF FlusherInv, Waiting
<1> QED BY <1>1, <1>2, <1>4, <1>5, FlusherStep, Zenon

(* FlushLook: the caller finds a barrier under way, or none.                 *)
LEMMA FlushLookKeeps ==
    ASSUME SinkInv, Fixed, NEW f \in AllFlushers, FlushLook(f)
    PROVE  SinkInv'
<1> DEFINE x == flush'[f]
<1>1. PICK pc \in {"error", "make", "reuse"} :
         /\ flush' = IF pc = "reuse" THEN [flush EXCEPT ![f].pc = pc, ![f].on = pending]
                      ELSE [flush EXCEPT ![f].pc = pc]
         /\ pc # "error" => flushLock' = flushLock
         /\ pc = "make" => pending = 0
         /\ pc = "reuse" => pending # 0
  BY FlusherFacts, Zenon DEF FlushLook, Return, FlushAt, FlushRecords
<1>2. x = IF pc = "reuse" THEN [flush[f] EXCEPT !.pc = pc, !.on = pending] ELSE [flush[f] EXCEPT !.pc = pc]
  BY <1>1, FlusherFacts, Zenon
<1>3. flush' = [flush EXCEPT ![f] = x]
  BY <1>1, FlusherFacts, Zenon
<1>4. x \in FlushRecords /\ x.want = flush[f].want /\ x.pc = pc /\ (pc = "reuse" => x.on = pending)
  <2>1. flush[f] \in FlushRecords /\ pending \in Nat
    BY FlusherFacts, BarrierFields DEF SinkInv
  <2>2. pc \in Returned \cup {"lock", "look", "make", "reuse", "own"}
    BY Zenon DEF Returned
  <2>3. /\ [flush[f] EXCEPT !.pc = pc, !.on = pending] \in FlushRecords
        /\ [flush[f] EXCEPT !.pc = pc] \in FlushRecords
    BY <2>1, <2>2, FlushFields, Zenon
  <2>4. x \in FlushRecords
    BY <1>2, <2>3, Zenon
  <2> QED BY <1>2, <2>1, <2>4, Zenon DEF FlushRecords
<1>5. /\ UNCHANGED <<sub, hostVars, queue, packVars, stageVars, stopVars, barrier, logVars>>
      /\ pending' = pending /\ admitted' = admitted /\ flush[f].pc = "look"
  BY Zenon DEF FlushLook, logVars
<1> HIDE DEF x
<1>6. FlusherInv(f)'
  <2>1. flush'[f] = x /\ FlusherInv(f)
    BY FlusherFacts, Zenon DEF x
  <2>2. pc # "error" => flushLock' = f
    BY <1>1, <1>5, <2>1, Zenon DEF FlusherInv
  <2> QED BY <1>1, <1>4, <1>5, <2>1, <2>2, Zenon DEF FlusherInv, Waiting
<1> QED BY <1>3, <1>4, <1>5, <1>6, FlusherStep, Zenon

(* FlushDone: a barrier that completed without an error settled all it was   *)
(* made for, so a flush that asked for no more returns true.                 *)
LEMMA FlushDoneKeeps ==
    ASSUME SinkInv, Fixed, NEW f \in AllFlushers, FlushDone(f)
    PROVE  SinkInv'
<1> DEFINE b == flush[f].on
<1>1. /\ flush[f] \in FlushRecords /\ FlusherInv(f) /\ b = pending /\ pending # 0 /\ b \in 1 .. Len(barrier)
      /\ flushLock = f
  BY FlusherFacts DEF FlushDone, FlusherInv, Waiting
<1>2. /\ flush[f].pc \in {"reuse", "own"} /\ barrier[b].completed
      /\ UNCHANGED <<sub, hostVars, queue, packVars, stageVars, stopVars, barrier, logVars>>
      /\ UNCHANGED <<admitted, persisted, duplicate, oversized, conf>>
  BY Zenon DEF FlushDone, Waiting, logVars, Fixed
<1>3. Settled' = Settled
  BY <1>2, SameLog, Zenon
<1>4. PICK pc \in {"error", "ok", "make"} :
         /\ flush' = [flush EXCEPT ![f].pc = pc]
         /\ pc = "make" => flushLock' = flushLock /\ pending' = 0
         /\ pc = "ok" => ~barrier[b].error /\ (flush[f].pc = "own" \/ barrier[b].target >= flush[f].want)
         /\ pending' \in {0, pending}
  BY <1>1, Zenon DEF FlushDone, FlushAt, Return
<1> DEFINE x == [flush[f] EXCEPT !.pc = pc]
<1>5. x \in FlushRecords /\ x.want = flush[f].want /\ x.pc = pc
  <2>1. pc \in Returned \cup {"lock", "look", "make", "reuse", "own"}
    BY Zenon DEF Returned
  <2>2. x \in FlushRecords
    BY <1>1, <2>1, FlushFields, Zenon
  <2> QED BY <1>1, <2>2, Zenon DEF FlushRecords
<1>6. flush' = [flush EXCEPT ![f] = x] /\ flush'[f] = x
  BY <1>4, FlusherFacts, Zenon
<1>7. pc = "ok" => 1 .. flush[f].want \subseteq Settled
  <2>1. ~barrier[b].error => 1 .. barrier[b].target \subseteq Settled /\ barrier[b].target \in Nat
    BY <1>1, <1>2, BarrierFields, Zenon DEF SinkInv, BarrierInv
  <2>2. pc = "ok" => barrier[b].target >= flush[f].want
    BY <1>1, <1>4, FlusherFacts DEF FlusherInv
  <2> QED BY <1>4, <2>1, <2>2, FlusherFacts
<1> HIDE DEF x
<1>8. FlusherInv(f)'
  BY <1>1, <1>2, <1>3, <1>4, <1>5, <1>6, <1>7, Zenon DEF FlusherInv, Waiting
<1> QED BY <1>1, <1>2, <1>4, <1>5, <1>6, <1>8, FlusherStep, ZenonT(40)

(* FlushTimeout, and a Flush that finds the sink closed.                     *)
LEMMA FlushGivesUpKeeps ==
    ASSUME SinkInv, Fixed, NEW f \in AllFlushers, FlushTimeout(f) \/ (FlushMake(f) /\ closed)
    PROVE  SinkInv'
<1>1. flush[f] \in FlushRecords /\ FlusherInv(f)
  BY FlusherFacts, Zenon
<1>2. /\ flush[f].pc \in {"lock", "make", "reuse", "own"}
      /\ UNCHANGED <<sub, hostVars, queue, packVars, stageVars, stopVars, barrier, logVars>>
      /\ UNCHANGED <<pending, admitted>>
      /\ flush[f].pc = "lock" => flushLock' = flushLock
  BY <1>1, Zenon DEF FlushTimeout, FlushMake, Waiting, logVars, FlusherInv
<1>3. PICK pc \in {"error", "timeout"} : flush' = [flush EXCEPT ![f].pc = pc]
  BY Zenon DEF FlushTimeout, FlushMake, FlushAt, Return
<1> DEFINE x == [flush[f] EXCEPT !.pc = pc]
<1>4. x \in FlushRecords /\ x.want = flush[f].want /\ x.pc = pc
  <2>1. pc \in Returned \cup {"lock", "look", "make", "reuse", "own"}
    BY Zenon DEF Returned
  <2>2. x \in FlushRecords
    BY <1>1, <2>1, FlushFields, Zenon
  <2> QED BY <1>1, <2>2, Zenon DEF FlushRecords
<1>5. flush' = [flush EXCEPT ![f] = x] /\ flush'[f] = x
  BY <1>3, FlusherFacts, Zenon
<1> HIDE DEF x
<1>6. FlusherInv(f)'
  BY <1>1, <1>2, <1>4, <1>5, Zenon DEF FlusherInv, Waiting
<1> QED BY <1>2, <1>4, <1>5, <1>6, FlusherStep, Zenon

---------------------------------------------------------------------------
(* The engine and the destructor.                                            *)

(* The engine lets go of the sink, or takes it.                              *)
LEMMA EngineKeeps ==
    ASSUME SinkInv, Fixed, EngineRelease \/ ReleaseSealed \/ EngineAcquire
    PROVE  SinkInv'
<1>1. /\ UNCHANGED <<conf, queue, hand, builder, stageq, shand, barrier, admitted, persisted,
                     duplicate, oversized, latched, wpc, spc, pending>>
      /\ UNCHANGED <<sub, flushLock, closed, stageClosed, cpc>>
  BY Zenon DEF EngineRelease, ReleaseSealed, EngineAcquire, Fixed, packVars, stageVars, stopVars, flushVars, logVars
<1>2. PlaceInv' /\ LineInv' /\ OpenInv' /\ StoredInv' /\ BarrierInv'
  BY <1>1, StillStep, Zenon
<1>3. Settled' = Settled /\ Numbers' = Numbers
  BY <1>1, SameLog, Zenon
<1>4. SubInv' /\ StopInv'
  <2>1. attached' = attached \/ sub.pc # "admit"
    BY Zenon DEF EngineRelease, ReleaseSealed, EngineAcquire, SinkInv, ReleaseInv
  <2> QED BY <1>1, <2>1, SubStays, StopStays, Zenon
<1>5. "release" \in AllFlushers
  BY Zenon DEF AllFlushers
<1>6. FlushInv'
  <2>1. CASE flush' = flush
    BY <2>1, <1>1, <1>3, FlushersStill, Zenon
  <2>2. CASE EngineRelease
    <3> DEFINE x == [flush["release"] EXCEPT !.pc = "idle", !.calls = 0]
    <3>1. x \in FlushRecords /\ x.want = flush["release"].want /\ x.pc = "idle"
      BY <1>5, FlusherFacts, Zenon DEF FlushRecords, Returned
    <3>2. flush' = [flush EXCEPT !["release"] = x] /\ flush'["release"] = x
      BY <2>2, <1>5, FlusherFacts, Zenon DEF EngineRelease
    <3> HIDE DEF x
    <3>3. FlusherInv("release")'
      BY <1>1, <1>3, <1>5, <3>1, <3>2, FlusherFacts, Zenon DEF FlusherInv, Waiting
    <3> QED BY <1>1, <1>3, <1>5, <3>1, <3>2, <3>3, OneFlusher, Zenon
  <2> QED BY <2>1, <2>2, Zenon DEF ReleaseSealed, EngineAcquire, flushVars
<1>7. ReleaseInv'
  <2>1. CASE EngineRelease
    <3>1. flush'["release"].pc = "idle"
      BY <2>1, <1>5, FlusherFacts, Zenon DEF EngineRelease, FlushRecords
    <3> QED BY <2>1, <3>1, <1>1, Zenon DEF EngineRelease, ReleaseInv
  <2>2. CASE ReleaseSealed
    <3>1. flush["release"].want = Len(admitted) /\ 1 .. flush["release"].want \subseteq Settled
      BY <2>2, <1>5, FlusherFacts, Zenon DEF ReleaseSealed, SinkInv, ReleaseInv, FlusherInv
    <3> QED BY <2>2, <1>1, <1>3, <3>1, Zenon DEF ReleaseSealed, SinkInv, ReleaseInv, Numbers, flushVars
  <2>3. CASE EngineAcquire
    BY <2>3, Zenon DEF EngineAcquire, ReleaseInv
  <2> QED BY <2>1, <2>2, <2>3, Zenon
<1> QED BY <1>2, <1>4, <1>6, <1>7, Zenon DEF SinkInv

(* The destructor closes the queues, then the stage queues, then ends.       *)
LEMMA CloseKeeps ==
    ASSUME SinkInv, Fixed, Close \/ CloseStages \/ CloseJoined
    PROVE  SinkInv'
<1>1. /\ UNCHANGED <<conf, queue, hand, builder, stageq, shand, barrier, admitted, persisted,
                     duplicate, oversized, latched, wpc, spc, pending>>
      /\ UNCHANGED <<sub, flush, flushLock, attached, sealed>>
  BY Zenon DEF Close, CloseStages, CloseJoined, Fixed, packVars, stageVars, stopVars, flushVars, logVars
<1>2. PlaceInv' /\ LineInv' /\ OpenInv' /\ StoredInv' /\ BarrierInv'
  BY <1>1, StillStep, Zenon
<1>3. Settled' = Settled /\ Workers' = Workers
  BY <1>1, SameLog, Zenon
<1>4. SubInv' /\ FlushInv' /\ ReleaseInv'
  BY <1>1, <1>3, SubStays, FlushersStill, ReleaseStays, Zenon
<1>5. StopInv'
  <2>1. /\ closed => closed'
        /\ stageClosed => stageClosed'
        /\ stageClosed' => \A w \in Workers : wpc[w] = "dead"
        /\ cpc' = "done" => \A w \in Workers : spc[w] = "dead"
    BY DEF Close, CloseStages, CloseJoined, stopVars, SinkInv, StopInv
  <2> QED BY <1>1, <1>3, <2>1, ZenonT(40) DEF SinkInv, StopInv
<1> QED BY <1>2, <1>4, <1>5, ZenonT(40) DEF SinkInv

---------------------------------------------------------------------------
(* A step of one pair.                                                       *)

(* What the invariant says of one pair's threads and line.                   *)
PairLine(w) == InLine(barrier, shand[w], stageq[w], builder[w], hand[w], queue[w])
PairOpen(w) ==
    /\ Held(w) \subseteq Open(w)
    /\ wpc[w] # "dead" /\ spc[w] # "dead" => Open(w) \subseteq Held(w)
    /\ ~latched => Open(w) \subseteq Held(w)
    /\ spc[w] # "dead" => \A r \in Open(w) \ StageRecords(w), s \in StageRecords(w) : s < r
PairStop(w) ==
    /\ wpc[w] \in {"exit", "dead"} => closed /\ (latched \/ (queue[w] = <<>> /\ hand[w] = NoItem))
    /\ wpc[w] = "dead" => latched \/ builder[w] = <<>>
    /\ spc[w] = "dead" => latched \/ (stageClosed /\ stageq[w] = <<>>)
    /\ stageClosed => wpc[w] = "dead"
    /\ cpc = "done" => spc[w] = "dead"

(* The other pairs stand still.                                              *)
OthersStay(w) ==
    \A v \in Workers \ {w} :
        /\ queue'[v] = queue[v] /\ hand'[v] = hand[v] /\ builder'[v] = builder[v]
        /\ stageq'[v] = stageq[v] /\ shand'[v] = shand[v]
        /\ wpc'[v] = wpc[v] /\ spc'[v] = spc[v]

(* What stands in a line, and where.                                         *)
LEMMA ItemKinds ==
    ASSUME PlaceInv, NEW w \in Workers
    PROVE  /\ queue[w] \in Seq(RecordItems \cup BarrierItems)
           /\ stageq[w] \in Seq(PackItems \cup BarrierItems)
           /\ builder[w] \in Seq(Numbers)
           /\ hand[w] \in RecordItems \cup BarrierItems \cup {NoItem}
           /\ shand[w] \in PackItems \cup BarrierItems \cup {NoItem}
           /\ Range(queue[w]) \subseteq RecordItems \cup BarrierItems
           /\ Range(stageq[w]) \subseteq PackItems \cup BarrierItems
<1>1. /\ queue[w] \in Seq(RecordItems \cup BarrierItems)
      /\ stageq[w] \in Seq(PackItems \cup BarrierItems)
      /\ builder[w] \in Seq(Numbers)
      /\ hand[w] \in RecordItems \cup BarrierItems \cup {NoItem}
      /\ shand[w] \in PackItems \cup BarrierItems \cup {NoItem}
  BY Zenon DEF PlaceInv
<1>2. \A S : \A s \in Seq(S) : Range(s) \subseteq S
  BY DEF Range
<1> QED BY <1>1, <1>2, Zenon

(* The fields of an item.                                                    *)
LEMMA ItemFields ==
    /\ \A x \in RecordItems : x.kind = "record" /\ x.n \in Numbers /\ x = RecordItem(x.n)
    /\ \A x \in BarrierItems : x.kind = "barrier" /\ x.n \in 1 .. Len(barrier) /\ x = BarrierItem(x.n)
    /\ \A x \in PackItems : x.kind = "pack" /\ x.n \in Seq(Numbers) /\ x = PackItem(x.n)
    /\ NoItem.kind = "none"
  BY DEF RecordItems, BarrierItems, PackItems, RecordItem, BarrierItem, PackItem, NoItem

(* A step of pair w keeps the invariant when it keeps w's own part, the      *)
(* order of what is stored and the barriers.                                 *)
LEMMA PairStep ==
    ASSUME SinkInv, Fixed, NEW w \in Workers, OthersStay(w),
           UNCHANGED <<sub, attached, sealed, cpc, stageClosed, pending, flush, flushLock, admitted>>,
           latched => latched', closed => closed', latched' => closed',
           Settled \subseteq Settled',
           \A r \in Settled' \ Settled : r \in Numbers /\ RouteOf(r) = w,
           \A b \in 1 .. Len(barrier) : barrier'[b].target = barrier[b].target,
           PlaceInv', PairLine(w)', PairOpen(w)', PairStop(w)', StoredInv', BarrierInv'
    PROVE  SinkInv'
<1>0. SubInv /\ PlaceInv /\ LineInv /\ OpenInv /\ StopInv /\ ReleaseInv
  BY Zenon DEF SinkInv
<1>1. /\ Workers' = Workers /\ Numbers' = Numbers /\ Script' = Script
      /\ \A r : RouteOf(r)' = RouteOf(r)
  BY Zenon DEF Fixed, Workers, Numbers, Script, RouteOf
<1>2. ASSUME NEW v \in Workers, v # w
      PROVE  PairLine(v)' /\ PairOpen(v)' /\ PairStop(v)'
  <2>1. /\ queue'[v] = queue[v] /\ hand'[v] = hand[v] /\ builder'[v] = builder[v]
        /\ stageq'[v] = stageq[v] /\ shand'[v] = shand[v]
        /\ wpc'[v] = wpc[v] /\ spc'[v] = spc[v]
    BY <1>2, Zenon DEF OthersStay
  <2>2. PairLine(v)'
    <3>1. \A x \in {shand[v], hand[v]} \cup Range(stageq[v]) \cup Range(queue[v]) :
             x.kind = "barrier" => x.n \in 1 .. Len(barrier)
      BY <1>0, ItemKinds, ItemFields, Zenon
    <3>2. \A x \in {shand[v], hand[v]} \cup Range(stageq[v]) \cup Range(queue[v]) :
             x.kind = "barrier" => barrier'[x.n].target = barrier[x.n].target
      BY <3>1, Zenon
    <3>3. InLine(barrier, shand[v], stageq[v], builder[v], hand[v], queue[v])
      BY <1>0, Zenon DEF LineInv
    <3>4. InLine(barrier', shand[v], stageq[v], builder[v], hand[v], queue[v])
      BY <1>0, <3>2, <3>3, ItemKinds, LineTargets, Zenon
    <3> QED BY <3>4, <2>1, Zenon DEF PairLine
  <2>3. PairOpen(v)'
    <3>1. Open(v)' = Open(v)
      BY <1>1, <1>2, Zenon DEF Open
    <3>2. Held(v)' = Held(v) /\ StageRecords(v)' = StageRecords(v)
      BY <2>1, Zenon DEF Held, StageRecords, Staging
    <3> QED BY <1>0, <2>1, <3>1, <3>2, Zenon DEF OpenInv, PairOpen
  <2>4. PairStop(v)'
    BY <1>0, <2>1, Zenon DEF StopInv, PairStop
  <2> QED BY <2>2, <2>3, <2>4, Zenon
<1>3. \A v \in Workers : PairLine(v)' /\ PairOpen(v)' /\ PairStop(v)'
  BY <1>2, Zenon
<1>4. LineInv'
  BY <1>1, <1>3, Zenon DEF LineInv, PairLine
<1>5. OpenInv'
  BY <1>1, <1>3, Zenon DEF OpenInv, PairOpen
<1>6. StopInv'
  BY <1>1, <1>3, Zenon DEF StopInv, PairStop
<1>7. SubInv'
  BY <1>0, <1>1, Zenon DEF SubInv, Fixed
<1>8. FlushInv'
  <2>1. Len(admitted) \in Nat /\ Len(admitted) <= Len(admitted')
    BY <1>0 DEF SubInv
  <2> QED BY <2>1, FlushersStay, ZenonT(40)
<1>9. ReleaseInv'
  BY ReleaseStays, Zenon DEF Fixed
<1> QED BY <1>4, <1>5, <1>6, <1>7, <1>8, <1>9, Zenon DEF SinkInv

(* Settling a record spoils neither the order of the stored ones ...         *)
LEMMA StoredStays ==
    ASSUME SinkInv, UNCHANGED <<conf, admitted, persisted>>, Settled \subseteq Settled'
    PROVE  StoredInv'
<1>1. Numbers' = Numbers /\ \A r : RouteOf(r)' = RouteOf(r)
  BY Zenon DEF Numbers, Script, RouteOf
<1>2. \A k, l \in DOMAIN persisted' : RouteOf(persisted[k])' = RouteOf(persisted[k])
  BY Zenon DEF RouteOf, Script
<1> QED BY <1>1, <1>2, Zenon DEF SinkInv, StoredInv, RouteOf, Script

(* ... nor a barrier whose copies are where they were.                       *)
LEMMA BarriersStay ==
    ASSUME SinkInv, UNCHANGED <<conf, admitted, barrier, pending, latched>>, Settled \subseteq Settled',
           \A b : Carriers(b)' = Carriers(b)
    PROVE  BarrierInv'
<1>1. \A r : RouteOf(r)' = RouteOf(r)
  BY Zenon DEF Script, RouteOf
<1> QED BY <1>1, Zenon DEF SinkInv, BarrierInv

(* The parts of pair w.                                                      *)
LEMMA PairParts ==
    ASSUME SinkInv, NEW w \in Workers
    PROVE  PairLine(w) /\ PairOpen(w) /\ PairStop(w)
<1>1. PairLine(w)
  BY Zenon DEF SinkInv, LineInv, PairLine
<1>2. PairOpen(w)
  BY Zenon DEF SinkInv, OpenInv, PairOpen
<1>3. PairStop(w)
  BY Zenon DEF SinkInv, StopInv, PairStop
<1> QED BY <1>1, <1>2, <1>3, Zenon

(* A copy of a barrier stays with pair w.                                    *)
LEMMA CarriersStay ==
    ASSUME Fixed, NEW w \in Workers, OthersStay(w), NEW b,
           BarrierItem(b) \in Items(w)' <=> BarrierItem(b) \in Items(w)
    PROVE  Carriers(b)' = Carriers(b)
<1>1. Workers' = Workers
  BY Zenon DEF Fixed, Workers
<1>2. \A v \in Workers : v # w => Items(v)' = Items(v)
  BY Zenon DEF OthersStay, Items, Staging
<1>3. \A v \in Workers : BarrierItem(b) \in Items(v)' <=> BarrierItem(b) \in Items(v)
  BY <1>2, Zenon
<1> QED BY <1>1, <1>3, Zenon DEF Carriers

(* An item moves along the line of pair w.                                   *)
LEMMA MoveStep ==
    ASSUME SinkInv, Fixed, NEW w \in Workers, OthersStay(w),
           UNCHANGED <<sub, hostVars, stopVars, flushVars, logVars>>,
           wpc[w] = "dead" => wpc'[w] = "dead", spc[w] = "dead" => spc'[w] = "dead",
           PlaceInv', PairLine(w)', PairStop(w)', Held(w)' = Held(w),
           \A b : BarrierItem(b) \in Items(w)' <=> BarrierItem(b) \in Items(w),
           spc'[w] # "dead" => \A r \in Open(w) \ StageRecords(w)', s \in StageRecords(w)' : s < r
    PROVE  SinkInv'
<1>1. /\ UNCHANGED <<sub, attached, sealed, cpc, stageClosed, pending, flush, flushLock, admitted, latched,
                     closed, barrier, persisted, duplicate, oversized, conf>>
  BY Zenon DEF hostVars, stopVars, flushVars, logVars, Fixed
<1>2. Settled' = Settled /\ Open(w)' = Open(w)
  BY <1>1, SameLog, Zenon
<1>3. StoredInv'
  BY <1>1, <1>2, StoredStays, Zenon
<1>4. BarrierInv'
  BY <1>1, <1>2, CarriersStay, BarriersStay, Zenon
<1>5. PairOpen(w)'
  BY <1>1, <1>2, PairParts, Zenon DEF PairOpen
<1>6. latched => closed
  BY Zenon DEF SinkInv, StopInv
<1> QED BY <1>1, <1>2, <1>3, <1>4, <1>5, <1>6, PairStep, Zenon

(* The sets of items do not change while nothing is admitted or made.        *)
LEMMA SameItems ==
    ASSUME UNCHANGED <<conf, admitted>>, Len(barrier') = Len(barrier)
    PROVE  /\ RecordItems' = RecordItems /\ BarrierItems' = BarrierItems /\ PackItems' = PackItems
           /\ Numbers' = Numbers /\ Workers' = Workers
<1>1. Numbers' = Numbers /\ Workers' = Workers
  BY Zenon DEF Numbers, Workers
<1> QED BY <1>1, Zenon DEF RecordItems, BarrierItems, PackItems

(* The records of a set of items.                                            *)
RecordsIn(xs) == UNION {RecordsOf(x) : x \in xs}

(* The records in a set of items, by the items.                              *)
LEMMA RecordsInJoin ==
    /\ \A xs, ys : RecordsIn(xs \cup ys) = RecordsIn(xs) \cup RecordsIn(ys)
    /\ \A xs : RecordsIn(xs \cup {NoItem}) = RecordsIn(xs)
    /\ \A x : RecordsIn({x}) = RecordsOf(x)
    /\ RecordsIn({NoItem}) = {} /\ \A b : RecordsIn({BarrierItem(b)}) = {}
    /\ \A p : RecordsIn({PackItem(p)}) = Range(p) /\ \A r : RecordsIn({RecordItem(r)}) = {r}
<1>1. \A xs, ys : RecordsIn(xs \cup ys) = RecordsIn(xs) \cup RecordsIn(ys)
  BY Zenon DEF RecordsIn
<1>2. \A x : RecordsIn({x}) = RecordsOf(x)
  BY Zenon DEF RecordsIn
<1>3. RecordsIn({NoItem}) = {}
  BY <1>2, ItemRecords, Zenon
<1>4. \A xs : RecordsIn(xs \cup {NoItem}) = RecordsIn(xs)
  <2> TAKE xs
  <2>1. RecordsIn(xs \cup {NoItem}) = RecordsIn(xs) \cup RecordsIn({NoItem})
    BY <1>1, Zenon
  <2> QED BY <1>3, <2>1, Zenon
<1>5. \A b : RecordsIn({BarrierItem(b)}) = {}
  BY <1>2, ItemRecords, Zenon
<1>6. \A p : RecordsIn({PackItem(p)}) = Range(p)
  BY <1>2, ItemRecords, Zenon
<1>7. \A r : RecordsIn({RecordItem(r)}) = {r}
  BY <1>2, ItemRecords, Zenon
<1> QED BY <1>1, <1>2, <1>3, <1>4, <1>5, <1>6, <1>7, ZenonT(40)

(* What pair w holds, before and after a step.                               *)
LEMMA HeldIs ==
    ASSUME NEW w
    PROVE  /\ Held(w) = Range(builder[w]) \cup RecordsIn(Items(w))
           /\ Held(w)' = Range(builder'[w]) \cup RecordsIn(Items(w)')
           /\ StageRecords(w) = RecordsIn(Staging(w)) /\ StageRecords(w)' = RecordsIn(Staging(w)')
<1>1. Items(w) = Range(queue[w]) \cup Range(stageq[w]) \cup {hand[w], shand[w]}
  BY Zenon DEF Items, Staging
<1>2. Items(w)' = Range(queue'[w]) \cup Range(stageq'[w]) \cup {hand'[w], shand'[w]}
  BY Zenon DEF Items, Staging
<1>3. Held(w) = Range(builder[w]) \cup RecordsIn(Range(queue[w]) \cup Range(stageq[w]) \cup {hand[w], shand[w]})
  BY Zenon DEF Held, RecordsIn
<1>4. Held(w)' = Range(builder'[w])
                   \cup RecordsIn(Range(queue'[w]) \cup Range(stageq'[w]) \cup {hand'[w], shand'[w]})
  BY Zenon DEF Held, RecordsIn
<1>5. StageRecords(w) = RecordsIn(Staging(w)) /\ StageRecords(w)' = RecordsIn(Staging(w)')
  BY Zenon DEF RecordsIn, StageRecords
<1> QED BY <1>1, <1>2, <1>3, <1>4, <1>5, Zenon

(* PackerPop: the front of the packer's queue is now in its hand.            *)
LEMMA PackerPopKeeps ==
    ASSUME SinkInv, Fixed, NEW w \in Workers, PackerPop(w)
    PROVE  SinkInv'
<1>0. PlaceInv
  BY Zenon DEF SinkInv
<1>1. /\ UNCHANGED <<sub, hostVars, stopVars, flushVars, logVars>>
      /\ UNCHANGED <<builder, stageq, shand, spc, barrier, admitted, conf, latched, closed, stageClosed, cpc>>
  BY Zenon DEF PackerPop, stageVars, hostVars, stopVars, flushVars, logVars, Fixed
<1>2. /\ queue' = [queue EXCEPT ![w] = Tail(queue[w])] /\ hand' = [hand EXCEPT ![w] = Head(queue[w])]
      /\ wpc' = [wpc EXCEPT ![w] = "item"] /\ wpc[w] = "wait" /\ queue[w] # <<>>
  BY Zenon DEF PackerPop, Take, GoTo
<1>3. /\ Range(queue[w]) = {Head(queue[w])} \cup Range(Tail(queue[w]))
      /\ Head(queue[w]) \in RecordItems \cup BarrierItems
      /\ Tail(queue[w]) \in Seq(RecordItems \cup BarrierItems)
  BY <1>0, <1>2, ItemKinds, RangeTail, Zenon
<1>4. hand[w] = NoItem
  BY <1>0, <1>2, Zenon DEF PlaceInv
<1>5. PlaceInv'
  <2>1. /\ queue' \in [Workers -> Seq(RecordItems \cup BarrierItems)]
        /\ hand' \in [Workers -> RecordItems \cup BarrierItems \cup {NoItem}]
        /\ wpc' \in [Workers -> {"wait", "item", "seal", "exit", "dead"}]
    BY <1>0, <1>2, <1>3, Zenon DEF PlaceInv
  <2>2. \A v \in Workers : wpc'[v] \in {"wait", "seal", "exit"} => hand'[v] = NoItem
    BY <1>0, <1>2, Zenon DEF PlaceInv
  <2> QED BY <1>0, <1>1, <2>1, <2>2, SameItems, Zenon DEF PlaceInv
<1>6. /\ queue'[w] = Tail(queue[w]) /\ hand'[w] = Head(queue[w]) /\ wpc'[w] = "item"
      /\ OthersStay(w)
  BY <1>0, <1>1, <1>2, ZenonT(40) DEF PlaceInv, OthersStay
<1>7. PairLine(w)'
  BY <1>0, <1>1, <1>2, <1>4, <1>6, ItemKinds, LinePop, PairParts, SMTT(30) DEF PairLine
<1>8. PairStop(w)'
  BY <1>1, <1>2, <1>6, PairParts, Zenon DEF PairStop
<1>9. Items(w) = Items(w)' \cup {NoItem} /\ Staging(w)' = Staging(w)
  BY <1>1, <1>3, <1>4, <1>6, Zenon DEF Items, Staging
<1>10. Held(w)' = Held(w) /\ StageRecords(w)' = StageRecords(w)
  <2>1. RecordsIn(Items(w)) = RecordsIn(Items(w)')
    BY <1>9, RecordsInJoin, Zenon
  <2> QED BY <1>1, <1>9, <2>1, HeldIs, Zenon
<1>11. \A b : BarrierItem(b) \in Items(w)' <=> BarrierItem(b) \in Items(w)
  BY <1>9, ItemRecords, Zenon
<1>12. spc'[w] # "dead" => \A r \in Open(w) \ StageRecords(w)', s \in StageRecords(w)' : s < r
  BY <1>1, <1>10, PairParts, Zenon DEF PairOpen
<1> QED BY <1>1, <1>2, <1>5, <1>6, <1>7, <1>8, <1>10, <1>11, <1>12, MoveStep, ZenonT(40)

(* A pair's thread pops, so it lives and its stager's queue is open.         *)
LEMMA StagerPopKeeps ==
    ASSUME SinkInv, Fixed, NEW w \in Workers, StagerPop(w)
    PROVE  SinkInv'
<1>0. PlaceInv
  BY Zenon DEF SinkInv
<1>1. /\ UNCHANGED <<sub, hostVars, stopVars, flushVars, logVars>>
      /\ UNCHANGED <<queue, hand, wpc, builder, barrier, admitted, conf, latched, closed, stageClosed, cpc>>
  BY Zenon DEF StagerPop, packVars, hostVars, stopVars, flushVars, logVars, Fixed
<1>2. /\ stageq' = [stageq EXCEPT ![w] = Tail(stageq[w])] /\ shand' = [shand EXCEPT ![w] = Head(stageq[w])]
      /\ spc' = [spc EXCEPT ![w] = "item"] /\ spc[w] = "wait" /\ stageq[w] # <<>>
  BY Zenon DEF StagerPop
<1>3. /\ Range(stageq[w]) = {Head(stageq[w])} \cup Range(Tail(stageq[w]))
      /\ Head(stageq[w]) \in PackItems \cup BarrierItems
      /\ Tail(stageq[w]) \in Seq(PackItems \cup BarrierItems)
  BY <1>0, <1>2, ItemKinds, RangeTail, Zenon
<1>4. shand[w] = NoItem
  BY <1>0, <1>2, Zenon DEF PlaceInv
<1>5. PlaceInv'
  <2>1. /\ stageq' \in [Workers -> Seq(PackItems \cup BarrierItems)]
        /\ shand' \in [Workers -> PackItems \cup BarrierItems \cup {NoItem}]
        /\ spc' \in [Workers -> {"wait", "item", "dead"}]
    BY <1>0, <1>2, <1>3, Zenon DEF PlaceInv
  <2>2. \A v \in Workers : spc'[v] \in {"wait", "dead"} => shand'[v] = NoItem
    BY <1>0, <1>2, Zenon DEF PlaceInv
  <2> QED BY <1>0, <1>1, <2>1, <2>2, SameItems, Zenon DEF PlaceInv
<1>6. /\ stageq'[w] = Tail(stageq[w]) /\ shand'[w] = Head(stageq[w]) /\ spc'[w] = "item"
      /\ OthersStay(w)
  BY <1>0, <1>1, <1>2, ZenonT(40) DEF PlaceInv, OthersStay
<1>7. PairLine(w)'
  BY <1>0, <1>1, <1>2, <1>4, <1>6, ItemKinds, LineStage, PairParts, SMTT(30) DEF PairLine
<1>8. PairStop(w)'
  BY <1>1, <1>2, <1>6, PairParts, Zenon DEF PairStop
<1>9. Items(w) = Items(w)' \cup {NoItem} /\ Staging(w) = Staging(w)' \cup {NoItem}
  BY <1>1, <1>3, <1>4, <1>6, Zenon DEF Items, Staging
<1>10. Held(w)' = Held(w) /\ StageRecords(w)' = StageRecords(w)
  <2>1. RecordsIn(Items(w)) = RecordsIn(Items(w)') /\ RecordsIn(Staging(w)) = RecordsIn(Staging(w)')
    BY <1>9, RecordsInJoin, Zenon
  <2> QED BY <1>1, <2>1, HeldIs, Zenon
<1>11. \A b : BarrierItem(b) \in Items(w)' <=> BarrierItem(b) \in Items(w)
  BY <1>9, ItemRecords, Zenon
<1>12. spc'[w] # "dead" => \A r \in Open(w) \ StageRecords(w)', s \in StageRecords(w)' : s < r
  BY <1>2, <1>10, PairParts, Zenon DEF PairOpen
<1> QED BY <1>1, <1>2, <1>5, <1>6, <1>7, <1>8, <1>10, <1>11, <1>12, MoveStep, ZenonT(40)

(* ForwardBarrier: the open pack is sealed already.                          *)
LEMMA ForwardBarrierKeeps ==
    ASSUME SinkInv, Fixed, NEW w \in Workers, ForwardBarrier(w)
    PROVE  SinkInv'
<1>0. PlaceInv
  BY Zenon DEF SinkInv
<1>1. /\ UNCHANGED <<sub, hostVars, stopVars, flushVars, logVars>>
      /\ UNCHANGED <<queue, builder, shand, spc, barrier, admitted, conf, latched, closed, stageClosed, cpc>>
  BY Zenon DEF ForwardBarrier, hostVars, stopVars, flushVars, logVars, Fixed
<1>2. /\ stageq' = [stageq EXCEPT ![w] = Append(stageq[w], hand[w])] /\ hand' = [hand EXCEPT ![w] = NoItem]
      /\ wpc' = [wpc EXCEPT ![w] = "wait"] /\ wpc[w] = "item" /\ hand[w].kind = "barrier" /\ builder[w] = <<>>
  BY Zenon DEF ForwardBarrier, Forwarding, Take, GoTo
<1>3. hand[w] \in BarrierItems /\ Range(Append(stageq[w], hand[w])) = Range(stageq[w]) \cup {hand[w]}
  BY <1>0, <1>2, ItemKinds, ItemFields, RangeAppend
<1>5. PlaceInv'
  <2>0. Append(stageq[w], hand[w]) \in Seq(PackItems \cup BarrierItems)
    BY <1>0, <1>3, ItemKinds
  <2>1. /\ stageq' \in [Workers -> Seq(PackItems \cup BarrierItems)]
        /\ hand' \in [Workers -> RecordItems \cup BarrierItems \cup {NoItem}]
        /\ wpc' \in [Workers -> {"wait", "item", "seal", "exit", "dead"}]
    BY <1>0, <1>2, <2>0, Zenon DEF PlaceInv
  <2>2. \A v \in Workers : wpc'[v] \in {"wait", "seal", "exit"} => hand'[v] = NoItem
    BY <1>0, <1>2, Zenon DEF PlaceInv
  <2> QED BY <1>0, <1>1, <2>1, <2>2, SameItems, ZenonT(40) DEF PlaceInv
<1>6. /\ stageq'[w] = Append(stageq[w], hand[w]) /\ hand'[w] = NoItem /\ wpc'[w] = "wait"
      /\ OthersStay(w)
  BY <1>0, <1>1, <1>2, ZenonT(40) DEF PlaceInv, OthersStay
<1>7. PairLine(w)'
  <2>1. InLine(barrier, shand[w], stageq[w], <<>>, hand[w], queue[w]) /\ hand[w].kind # "pack"
    BY <1>2, PairParts, Zenon DEF PairLine
  <2> QED BY <1>0, <1>1, <1>2, <1>6, <2>1, ItemKinds, LineForward, SMTT(30) DEF PairLine
<1>8. PairStop(w)'
  BY <1>1, <1>2, <1>6, PairParts, Zenon DEF PairStop
<1>9. Items(w)' = Items(w) \cup {NoItem} /\ Staging(w)' = Staging(w) \cup {hand[w]}
  BY <1>1, <1>3, <1>6, Zenon DEF Items, Staging
<1>10. Held(w)' = Held(w) /\ StageRecords(w)' = StageRecords(w)
  <2>1. RecordsIn(Items(w)') = RecordsIn(Items(w))
    BY <1>9, RecordsInJoin, Zenon
  <2>2. RecordsIn({hand[w]}) = {}
    BY <1>3, ItemFields, RecordsInJoin, Zenon
  <2>3. RecordsIn(Staging(w)') = RecordsIn(Staging(w)) \cup RecordsIn({hand[w]})
    BY <1>9, RecordsInJoin, Zenon
  <2>4. RecordsIn(Staging(w)') = RecordsIn(Staging(w))
    BY <2>2, <2>3, Zenon
  <2> QED BY <1>1, <2>1, <2>4, HeldIs, Zenon
<1>11. \A b : BarrierItem(b) \in Items(w)' <=> BarrierItem(b) \in Items(w)
  BY <1>9, ItemRecords, Zenon
<1>12. spc'[w] # "dead" => \A r \in Open(w) \ StageRecords(w)', s \in StageRecords(w)' : s < r
  BY <1>1, <1>10, PairParts, Zenon DEF PairOpen
<1> QED BY <1>1, <1>2, <1>5, <1>6, <1>7, <1>8, <1>10, <1>11, <1>12, MoveStep, ZenonT(40)

(* While a pair's two threads live, what its stager may still store is ahead *)
(* of all that will follow it.                                               *)
LEMMA StageAhead ==
    ASSUME SinkInv, NEW w \in Workers, wpc[w] # "dead", spc[w] # "dead"
    PROVE  LET late == RecordsIn({hand[w]} \cup Range(queue[w])) IN
           /\ Open(w) \subseteq StageRecords(w) \cup Range(builder[w]) \cup late
           /\ \A s \in StageRecords(w) \cup Range(builder[w]), r \in late : s < r
<1> DEFINE late == RecordsIn({hand[w]} \cup Range(queue[w]))
<1>1. Open(w) \subseteq Held(w)
  BY PairParts, Zenon DEF PairOpen
<1>2. Items(w) = Staging(w) \cup ({hand[w]} \cup Range(queue[w]))
  BY Zenon DEF Items
<1>3. RecordsIn(Items(w)) = RecordsIn(Staging(w)) \cup late
  BY <1>2, RecordsInJoin, ZenonT(40)
<1>4. Open(w) \subseteq StageRecords(w) \cup Range(builder[w]) \cup late
  BY <1>1, <1>3, HeldIs, Zenon
<1>5. \A x \in Staging(w) \cup {PackItem(builder[w])}, y \in {hand[w]} \cup Range(queue[w]) :
         Before(barrier, x, y)
  BY PairParts, Zenon DEF PairLine, InLine, AllBefore, Staging
<1>6. \A s \in RecordsIn(Staging(w) \cup {PackItem(builder[w])}), r \in late : s < r
  BY <1>5, Zenon DEF RecordsIn, Before
<1>7. RecordsIn(Staging(w) \cup {PackItem(builder[w])}) = StageRecords(w) \cup Range(builder[w])
  <2>1. /\ RecordsIn(Staging(w) \cup {PackItem(builder[w])})
              = RecordsIn(Staging(w)) \cup RecordsIn({PackItem(builder[w])})
        /\ RecordsIn({PackItem(builder[w])}) = Range(builder[w])
    BY RecordsInJoin, Zenon
  <2> QED BY <2>1, HeldIs, Zenon
<1> QED BY <1>4, <1>6, <1>7, Zenon

(* SealForStager: the open pack goes to the end of the stager's queue.       *)
LEMMA SealForStagerKeeps ==
    ASSUME SinkInv, Fixed, NEW w \in Workers, SealForStager(w)
    PROVE  SinkInv'
<1>0. PlaceInv
  BY Zenon DEF SinkInv
<1> DEFINE pack == PackItem(builder[w])
<1>1. /\ UNCHANGED <<sub, hostVars, stopVars, flushVars, logVars>>
      /\ UNCHANGED <<queue, hand, shand, spc, barrier, admitted, conf, latched, closed, stageClosed, cpc>>
  BY Zenon DEF SealForStager, hostVars, stopVars, flushVars, logVars, Fixed
<1>2. /\ stageq' = [stageq EXCEPT ![w] = Append(stageq[w], pack)] /\ builder' = [builder EXCEPT ![w] = <<>>]
      /\ wpc[w] \in {"seal", "exit", "item"}
  BY Zenon DEF SealForStager, Sealing
<1>3. \E pc \in {"wait", "dead", "item"} :
         /\ wpc' = [wpc EXCEPT ![w] = pc]
         /\ pc = "wait" => wpc[w] = "seal"
         /\ pc = "dead" => wpc[w] = "exit"
         /\ pc = "item" => wpc[w] = "item"
  BY <1>2, Zenon DEF SealForStager
<1>4. pack \in PackItems /\ Range(Append(stageq[w], pack)) = Range(stageq[w]) \cup {pack}
  BY <1>0, ItemKinds, RangeAppend, Zenon DEF PackItems, PackItem
<1> HIDE DEF pack
<1>5. PlaceInv'
  <2>0. Append(stageq[w], pack) \in Seq(PackItems \cup BarrierItems) /\ <<>> \in Seq(Numbers)
    BY <1>0, <1>4, ItemKinds
  <2>1. /\ stageq' \in [Workers -> Seq(PackItems \cup BarrierItems)]
        /\ builder' \in [Workers -> Seq(Numbers)]
        /\ wpc' \in [Workers -> {"wait", "item", "seal", "exit", "dead"}]
    BY <1>0, <1>2, <1>3, <2>0, Zenon DEF PlaceInv
  <2>2. \A v \in Workers : wpc'[v] \in {"wait", "seal", "exit"} => hand[v] = NoItem
    BY <1>0, <1>2, <1>3, Zenon DEF PlaceInv
  <2> QED BY <1>0, <1>1, <2>1, <2>2, SameItems, ZenonT(40) DEF PlaceInv
<1>6. /\ stageq'[w] = Append(stageq[w], pack) /\ builder'[w] = <<>>
      /\ wpc'[w] = "dead" => wpc[w] = "exit"
      /\ wpc'[w] \in {"wait", "dead", "item"}
      /\ OthersStay(w)
  BY <1>0, <1>1, <1>2, <1>3, Zenon DEF PlaceInv, OthersStay
<1>7. PairLine(w)'
  BY <1>0, <1>1, <1>6, ItemKinds, LineSeal, PairParts, ZenonT(40) DEF PairLine, pack
<1>8. PairStop(w)'
  BY <1>1, <1>2, <1>6, PairParts, Zenon DEF PairStop
<1>9. Items(w)' = Items(w) \cup {pack} /\ Staging(w)' = Staging(w) \cup {pack}
  BY <1>1, <1>4, <1>6, Zenon DEF Items, Staging
<1>10. Held(w)' = Held(w) /\ StageRecords(w)' = StageRecords(w) \cup Range(builder[w])
  <2>1. RecordsIn({pack}) = Range(builder[w])
    BY RecordsInJoin, Zenon DEF pack
  <2>2. /\ RecordsIn(Staging(w)') = RecordsIn(Staging(w)) \cup RecordsIn({pack})
        /\ RecordsIn(Items(w)') = RecordsIn(Items(w)) \cup RecordsIn({pack})
    BY <1>9, RecordsInJoin, ZenonT(40)
  <2> QED BY <1>6, <2>1, <2>2, HeldIs, RangeEmpty, ZenonT(40)
<1>11. \A b : BarrierItem(b) \in Items(w)' <=> BarrierItem(b) \in Items(w)
  BY <1>9, ItemRecords, Zenon DEF pack
<1>12. spc'[w] # "dead" => \A r \in Open(w) \ StageRecords(w)', s \in StageRecords(w)' : s < r
  BY <1>1, <1>2, <1>10, StageAhead, Zenon
<1> QED BY <1>1, <1>2, <1>5, <1>6, <1>7, <1>8, <1>10, <1>11, <1>12, MoveStep, ZenonT(40)

(* PackerAppend, a record that joins the open pack.                          *)
LEMMA PackerTakesKeeps ==
    ASSUME SinkInv, Fixed, NEW w \in Workers, NEW r,
           wpc[w] = "item", hand[w] = RecordItem(r), hand' = [hand EXCEPT ![w] = NoItem],
           builder' = [builder EXCEPT ![w] = Append(builder[w], r)],
           NEW pc \in {"seal", "wait"}, wpc' = [wpc EXCEPT ![w] = pc],
           UNCHANGED <<sub, hostVars, queue, stageVars, stopVars, flushVars, logVars>>
    PROVE  SinkInv'
<1>0. PlaceInv
  BY Zenon DEF SinkInv
<1>1. /\ UNCHANGED <<queue, stageq, shand, spc, barrier, admitted, conf, latched, closed, stageClosed, cpc>>
  BY ZenonT(40) DEF stageVars, hostVars, stopVars, flushVars, logVars, Fixed
<1>3. r \in Numbers /\ Range(Append(builder[w], r)) = Range(builder[w]) \cup {r}
  <2>1. hand[w] \in RecordItems
    BY <1>0, ItemKinds, ItemFields, ItemRecords
  <2> QED BY <1>0, <2>1, ItemKinds, ItemFields, ItemRecords, RangeAppend, SMTT(30)
<1>5. PlaceInv'
  <2>0. Append(builder[w], r) \in Seq(Numbers)
    BY <1>0, <1>3, ItemKinds
  <2>1. /\ builder' \in [Workers -> Seq(Numbers)]
        /\ hand' \in [Workers -> RecordItems \cup BarrierItems \cup {NoItem}]
        /\ wpc' \in [Workers -> {"wait", "item", "seal", "exit", "dead"}]
    BY <1>0, <2>0, Zenon DEF PlaceInv
  <2>2. \A v \in Workers : wpc'[v] \in {"wait", "seal", "exit"} => hand'[v] = NoItem
    BY <1>0, Zenon DEF PlaceInv
  <2> QED BY <1>0, <1>1, <2>1, <2>2, SameItems, ZenonT(40) DEF PlaceInv
<1>6. /\ builder'[w] = Append(builder[w], r) /\ hand'[w] = NoItem /\ wpc'[w] = pc
      /\ OthersStay(w)
  BY <1>0, <1>1, ZenonT(40) DEF PlaceInv, OthersStay
<1>7. PairLine(w)'
  <2>1. builder[w] \in Seq(Nat) /\ r \in Nat
    BY <1>0, <1>3, ItemKinds DEF Numbers
  <2>2. InLine(barrier, shand[w], stageq[w], builder[w], RecordItem(r), queue[w])
    BY PairParts, Zenon DEF PairLine
  <2> QED BY <1>1, <1>6, <2>1, <2>2, LineAppend, SMTT(30) DEF PairLine
<1>8. PairStop(w)'
  BY <1>1, <1>6, PairParts, Zenon DEF PairStop
<1>9. Items(w)' \cup {RecordItem(r)} = Items(w) \cup {NoItem} /\ Staging(w)' = Staging(w)
  BY <1>1, <1>6, Zenon DEF Items, Staging
<1>10. Held(w)' = Held(w) /\ StageRecords(w)' = StageRecords(w)
  <2>1. RecordsIn(Items(w)') \cup RecordsIn({RecordItem(r)}) = RecordsIn(Items(w))
    <3>1. RecordsIn(Items(w)' \cup {RecordItem(r)}) = RecordsIn(Items(w)') \cup RecordsIn({RecordItem(r)})
      BY RecordsInJoin, Zenon
    <3>2. RecordsIn(Items(w) \cup {NoItem}) = RecordsIn(Items(w))
      BY RecordsInJoin, Zenon
    <3> QED BY <1>9, <3>1, <3>2, Zenon
  <2>2. RecordsIn({RecordItem(r)}) = {r}
    BY RecordsInJoin, Zenon
  <2>3. Held(w)' = Held(w)
    BY <1>3, <1>6, <2>1, <2>2, HeldIs, ZenonT(40)
  <2> QED BY <1>9, <2>3, HeldIs, ZenonT(40)
<1>11. \A b : BarrierItem(b) \in Items(w)' <=> BarrierItem(b) \in Items(w)
  <2> TAKE b
  <2>1. BarrierItem(b) # NoItem /\ BarrierItem(b) # RecordItem(r)
    BY ItemRecords, ZenonT(40)
  <2> QED BY <1>9, <2>1
<1>12. spc'[w] # "dead" => \A i \in Open(w) \ StageRecords(w)', s \in StageRecords(w)' : s < i
  BY <1>1, <1>10, PairParts, Zenon DEF PairOpen
<1> QED BY <1>1, <1>5, <1>6, <1>7, <1>8, <1>10, <1>11, <1>12, MoveStep, Zenon

(* Records leave the line of pair w because they are settled.                *)
LEMMA SettleOpen ==
    ASSUME SinkInv, Fixed, NEW w \in Workers, NEW rs, UNCHANGED <<admitted, latched>>,
           Settled' = Settled \cup rs, Held(w) = rs \cup Held(w)', rs \cap Held(w)' = {},
           StageRecords(w)' \subseteq StageRecords(w), StageRecords(w) \subseteq rs \cup StageRecords(w)',
           wpc[w] = "dead" => wpc'[w] = "dead", spc[w] = "dead" => spc'[w] = "dead"
    PROVE  /\ PairOpen(w)' /\ Settled \subseteq Settled' /\ rs \subseteq Open(w)
           /\ \A r \in Settled' \ Settled : r \in Numbers /\ RouteOf(r) = w
<1>1. PairOpen(w)
  BY PairParts, Zenon
<1>2. Numbers' = Numbers /\ \A r : RouteOf(r)' = RouteOf(r)
  BY Zenon DEF Numbers, RouteOf, Script, Fixed
<1>3. Open(w)' = Open(w) \ rs
  BY <1>2, Zenon DEF Open
<1>4. rs \subseteq Open(w)
  BY <1>1, Zenon DEF PairOpen
<1>5. PairOpen(w)'
  BY <1>1, <1>3, <1>4, Zenon DEF PairOpen
<1> QED BY <1>4, <1>5, Zenon DEF Open

(* PackerAppend, a record that is dropped and counted.                       *)
LEMMA PackerDropsKeeps ==
    ASSUME SinkInv, Fixed, NEW w \in Workers, NEW r,
           wpc[w] = "item", hand[w] = RecordItem(r), hand' = [hand EXCEPT ![w] = NoItem],
           wpc' = [wpc EXCEPT ![w] = "wait"],
           \/ duplicate' = duplicate \cup {r} /\ UNCHANGED oversized
           \/ oversized' = oversized \cup {r} /\ UNCHANGED duplicate,
           UNCHANGED <<sub, hostVars, queue, builder, stageVars, stopVars, flushVars, admitted, persisted>>
    PROVE  SinkInv'
<1>0. PlaceInv
  BY Zenon DEF SinkInv
<1>1. UNCHANGED <<stageq, shand, spc, barrier, conf, latched, closed, stageClosed, cpc, attached, sealed,
                  pending, flush, flushLock>>
  BY Zenon DEF stageVars, hostVars, stopVars, flushVars, Fixed
<1>2. Settled' = Settled \cup {r}
  BY Zenon DEF Settled
<1>5. PlaceInv'
  <2>1. /\ hand' \in [Workers -> RecordItems \cup BarrierItems \cup {NoItem}]
        /\ wpc' \in [Workers -> {"wait", "item", "seal", "exit", "dead"}]
    BY <1>0, Zenon DEF PlaceInv
  <2>2. \A v \in Workers : wpc'[v] \in {"wait", "seal", "exit"} => hand'[v] = NoItem
    BY <1>0, Zenon DEF PlaceInv
  <2> QED BY <1>0, <1>1, <2>1, <2>2, SameItems, ZenonT(40) DEF PlaceInv
<1>6. hand'[w] = NoItem /\ wpc'[w] = "wait" /\ OthersStay(w)
  BY <1>0, <1>1, ZenonT(40) DEF PlaceInv, OthersStay
<1>7. PairLine(w)'
  BY <1>1, <1>6, LineDrop, PairParts DEF PairLine
<1>8. PairStop(w)'
  BY <1>1, <1>6, PairParts, Zenon DEF PairStop
<1> DEFINE rest == Staging(w) \cup Range(queue[w])
<1>9. Items(w)' = rest \cup {NoItem} /\ Items(w) = rest \cup {RecordItem(r)} /\ Staging(w)' = Staging(w)
  BY <1>1, <1>6, Zenon DEF Items, Staging
<1>10. /\ Held(w)' = Range(builder[w]) \cup RecordsIn(rest)
       /\ Held(w) = {r} \cup Held(w)'
       /\ StageRecords(w)' = StageRecords(w)
  <2>1. RecordsIn(Items(w)) = RecordsIn(rest) \cup RecordsIn({RecordItem(r)})
    BY <1>9, RecordsInJoin, ZenonT(40)
  <2>2. RecordsIn({RecordItem(r)}) = {r} /\ RecordsIn(Items(w)') = RecordsIn(rest)
    BY <1>9, RecordsInJoin, Zenon
  <2>3. StageRecords(w)' = StageRecords(w)
    BY <1>9, HeldIs, Zenon
  <2> QED BY <2>1, <2>2, <2>3, HeldIs, Zenon
<1>11. r \notin Held(w)'
  <2>1. r \in Nat
    <3>1. r \in Held(w)
      BY <1>10, Zenon
    <3> QED BY <3>1, PairParts DEF PairOpen, Open, Numbers
  <2>2. \A x \in rest \cup {PackItem(builder[w])} :
           Before(barrier, x, RecordItem(r)) \/ Before(barrier, RecordItem(r), x)
    BY PairParts, Zenon DEF PairLine, InLine, AllBefore, Staging
  <2>3. \A x \in rest \cup {PackItem(builder[w])} : \A s \in RecordsOf(x) : s < r \/ r < s
    BY <2>2, ItemRecords, ZenonT(40) DEF Before
  <2>4. \A x \in rest \cup {PackItem(builder[w])} : r \notin RecordsOf(x)
    BY <2>1, <2>3
  <2>5. r \notin RecordsIn(rest)
    BY <2>4, Zenon DEF RecordsIn
  <2>6. r \notin Range(builder[w])
    BY <2>4, ItemRecords
  <2> QED BY <1>10, <2>5, <2>6, ZenonT(40)
<1>12. \A b : BarrierItem(b) \in Items(w)' <=> BarrierItem(b) \in Items(w)
  <2> TAKE b
  <2>1. BarrierItem(b) # NoItem /\ BarrierItem(b) # RecordItem(r)
    BY ItemRecords, ZenonT(40)
  <2> QED BY <1>9, <2>1, ZenonT(40)
<1>13. /\ PairOpen(w)' /\ Settled \subseteq Settled'
       /\ \A i \in Settled' \ Settled : i \in Numbers /\ RouteOf(i) = w
  <2>1. {r} \cap Held(w)' = {}
    BY <1>11, Zenon
  <2>2. wpc[w] # "dead" /\ spc'[w] = spc[w]
    BY <1>1, Zenon
  <2> QED BY <1>1, <1>2, <1>10, <2>1, <2>2, SettleOpen, Zenon
<1>14. StoredInv' /\ BarrierInv'
  BY <1>1, <1>6, <1>12, <1>13, StoredStays, CarriersStay, BarriersStay, SMTT(30)
<1>15. latched => closed
  BY Zenon DEF SinkInv, StopInv
<1> QED BY <1>1, <1>5, <1>6, <1>7, <1>8, <1>13, <1>14, <1>15, PairStep, ZenonT(40)

(* PackBuilder::Append.                                                      *)
LEMMA PackerAppendKeeps ==
    ASSUME SinkInv, Fixed, NEW w \in Workers, PackerAppend(w)
    PROVE  SinkInv'
<1> DEFINE r == hand[w].n
<1>0. PlaceInv
  BY Zenon DEF SinkInv
<1>1. hand[w] = RecordItem(r)
  BY <1>0, ItemKinds, ItemFields, Zenon DEF PackerAppend
<1>2. /\ wpc[w] = "item" /\ hand' = [hand EXCEPT ![w] = NoItem]
      /\ UNCHANGED <<sub, hostVars, queue, stageVars, stopVars, flushVars, admitted, persisted, refused>>
  BY Zenon DEF PackerAppend, Take
<1>3. CASE /\ duplicate' = duplicate \cup {r} /\ UNCHANGED <<builder, oversized>>
           /\ wpc' = [wpc EXCEPT ![w] = "wait"]
  BY <1>1, <1>2, <1>3, PackerDropsKeeps, Zenon
<1>4. CASE /\ oversized' = oversized \cup {r} /\ UNCHANGED <<builder, duplicate>>
           /\ wpc' = [wpc EXCEPT ![w] = "wait"]
  BY <1>1, <1>2, <1>4, PackerDropsKeeps, Zenon
<1>5. ASSUME builder' = [builder EXCEPT ![w] = Append(builder[w], r)], UNCHANGED <<duplicate, oversized>>,
             NEW pc \in {"seal", "wait"}, wpc' = [wpc EXCEPT ![w] = pc]
      PROVE  SinkInv'
  BY <1>1, <1>2, <1>5, PackerTakesKeeps, Zenon DEF logVars
<1> QED BY <1>3, <1>4, <1>5, Zenon DEF PackerAppend, GoTo

---------------------------------------------------------------------------
(* The stager.                                                               *)

(* The stager's item stands ahead of the rest of its line.                   *)
LEMMA StagerFirst ==
    ASSUME SinkInv, NEW w \in Workers
    PROVE  LET rest == Range(stageq[w]) \cup {hand[w]} \cup Range(queue[w]) IN
           /\ Items(w) = {shand[w]} \cup rest
           /\ \A x \in rest \cup {PackItem(builder[w])} : Before(barrier, shand[w], x)
           /\ Held(w) = RecordsOf(shand[w]) \cup (Range(builder[w]) \cup RecordsIn(rest))
           /\ StageRecords(w) = RecordsOf(shand[w]) \cup RecordsIn(Range(stageq[w]))
           /\ \A s \in RecordsOf(shand[w]), r \in Range(builder[w]) \cup RecordsIn(rest) : s < r
<1> DEFINE rest == Range(stageq[w]) \cup {hand[w]} \cup Range(queue[w])
<1>1. Items(w) = {shand[w]} \cup rest
  BY Zenon DEF Items, Staging
<1>2. \A x \in rest \cup {PackItem(builder[w])} : Before(barrier, shand[w], x)
  BY PairParts, Zenon DEF PairLine, InLine, AllBefore
<1>3. RecordsIn(Items(w)) = RecordsIn({shand[w]}) \cup RecordsIn(rest)
  BY <1>1, RecordsInJoin, Zenon
<1>4. RecordsIn({shand[w]}) = RecordsOf(shand[w])
  BY RecordsInJoin, Zenon
<1>5. Held(w) = RecordsOf(shand[w]) \cup (Range(builder[w]) \cup RecordsIn(rest))
  BY <1>3, <1>4, HeldIs, ZenonT(40)
<1>6. RecordsIn(Staging(w)) = RecordsIn({shand[w]}) \cup RecordsIn(Range(stageq[w]))
  BY RecordsInJoin, Zenon DEF Staging
<1>7. \A s \in RecordsOf(shand[w]), r \in RecordsIn(rest) : s < r
  BY <1>2, ZenonT(40) DEF RecordsIn, Before
<1>8. \A s \in RecordsOf(shand[w]), r \in Range(builder[w]) : s < r
  BY <1>2, ItemRecords DEF Before
<1> QED BY <1>1, <1>2, <1>4, <1>5, <1>6, <1>7, <1>8, HeldIs, Zenon

(* The stager is done with its item, or ends.                                *)
LEMMA StagerEmpty ==
    ASSUME SinkInv, Fixed, NEW w \in Workers, shand' = [shand EXCEPT ![w] = NoItem], spc[w] = "item",
           NEW pc \in {"wait", "dead"}, spc' = [spc EXCEPT ![w] = pc],
           UNCHANGED <<queue, wpc, hand, builder, stageq, admitted>>, Len(barrier') = Len(barrier)
    PROVE  LET rest == Range(stageq[w]) \cup {hand[w]} \cup Range(queue[w]) IN
           /\ PlaceInv' /\ OthersStay(w) /\ shand'[w] = NoItem /\ spc'[w] = pc
           /\ Items(w)' = rest \cup {NoItem}
           /\ Held(w)' = Range(builder[w]) \cup RecordsIn(rest)
           /\ StageRecords(w)' = RecordsIn(Range(stageq[w]))
           /\ InLine(barrier, NoItem, stageq[w], builder[w], hand[w], queue[w])
<1>0. PlaceInv
  BY Zenon DEF SinkInv
<1> DEFINE rest == Range(stageq[w]) \cup {hand[w]} \cup Range(queue[w])
<1>1. PlaceInv'
  <2>1. /\ shand' \in [Workers -> PackItems \cup BarrierItems \cup {NoItem}]
        /\ spc' \in [Workers -> {"wait", "item", "dead"}]
    BY <1>0, Zenon DEF PlaceInv
  <2>2. \A v \in Workers : spc'[v] \in {"wait", "dead"} => shand'[v] = NoItem
    BY <1>0, Zenon DEF PlaceInv
  <2> QED BY <1>0, <2>1, <2>2, SameItems, Zenon DEF PlaceInv, Fixed
<1>2. OthersStay(w) /\ shand'[w] = NoItem /\ spc'[w] = pc
  BY <1>0, Zenon DEF PlaceInv, OthersStay
<1>3. Items(w)' = rest \cup {NoItem} /\ Staging(w)' = Range(stageq[w]) \cup {NoItem}
  BY <1>2, Zenon DEF Items, Staging
<1>4. RecordsIn(Items(w)') = RecordsIn(rest) /\ RecordsIn(Staging(w)') = RecordsIn(Range(stageq[w]))
  BY <1>3, RecordsInJoin, Zenon
<1>5. Held(w)' = Range(builder[w]) \cup RecordsIn(rest) /\ StageRecords(w)' = RecordsIn(Range(stageq[w]))
  BY <1>4, HeldIs, Zenon
<1>6. InLine(barrier, NoItem, stageq[w], builder[w], hand[w], queue[w])
  BY LineDone, PairParts, Zenon DEF PairLine
<1> QED BY <1>1, <1>2, <1>3, <1>5, <1>6, Zenon

(* StageOk: what the stager stores comes next of all its pair has open.      *)
LEMMA StageOkKeeps ==
    ASSUME SinkInv, Fixed, NEW w \in Workers, StageOk(w)
    PROVE  SinkInv'
<1> DEFINE p == shand[w].n
           rest == Range(stageq[w]) \cup {hand[w]} \cup Range(queue[w])
<1>0. PlaceInv /\ StoredInv
  BY Zenon DEF SinkInv
<1>1. /\ UNCHANGED <<queue, wpc, hand, builder, stageq, barrier, conf, latched, closed, stageClosed, cpc, attached,
                     sealed, pending, flush, flushLock, sub, admitted, duplicate, oversized>>
  BY Zenon DEF StageOk, packVars, hostVars, stopVars, flushVars, Fixed
<1>2. /\ spc[w] = "item" /\ shand' = [shand EXCEPT ![w] = NoItem] /\ spc' = [spc EXCEPT ![w] = "wait"]
      /\ shand[w].kind = "pack" /\ persisted' = persisted \o p
  BY ZenonT(40) DEF StageOk, StagerDone
<1>3. shand[w] = PackItem(p) /\ p \in Seq(Numbers) /\ p \in Seq(Nat) /\ persisted \in Seq(Nat)
  <2>1. shand[w] \in PackItems
    BY <1>0, <1>2, ItemKinds, ItemFields, ZenonT(40)
  <2> QED BY <1>0, <2>1, ItemFields, SMTT(30) DEF Numbers, StoredInv
<1>4. RecordsOf(shand[w]) = Range(p) /\ Range(persisted') = Range(persisted) \cup Range(p)
  BY <1>2, <1>3, ItemRecords, RangeConcat
<1>5. /\ PlaceInv' /\ OthersStay(w) /\ shand'[w] = NoItem /\ spc'[w] = "wait"
      /\ Items(w)' = rest \cup {NoItem}
      /\ Held(w)' = Range(builder[w]) \cup RecordsIn(rest)
      /\ StageRecords(w)' = RecordsIn(Range(stageq[w]))
      /\ PairLine(w)'
  BY <1>1, <1>2, StagerEmpty, Zenon DEF PairLine
<1>6. /\ Items(w) = {shand[w]} \cup rest
      /\ Held(w) = Range(p) \cup Held(w)'
      /\ StageRecords(w) = Range(p) \cup StageRecords(w)'
      /\ \A s \in Range(p), r \in Held(w)' : s < r
  BY <1>4, <1>5, StagerFirst, Zenon
<1>7. Settled' = Settled \cup Range(p)
  BY <1>1, <1>4, ZenonT(40) DEF Settled
<1>8. Range(p) \subseteq Nat
  BY <1>3, SMTT(30) DEF Range
<1>9. Range(p) \cap Held(w)' = {}
  BY <1>6, <1>8
<1>10. /\ PairOpen(w)' /\ Settled \subseteq Settled' /\ Range(p) \subseteq Open(w)
       /\ \A r \in Settled' \ Settled : r \in Numbers /\ RouteOf(r) = w
  BY <1>1, <1>2, <1>5, <1>6, <1>7, <1>9, SettleOpen, ZenonT(40)
<1>11. PairStop(w)'
  BY <1>1, <1>2, <1>5, PairParts, Zenon DEF PairStop
<1>12. \A b : BarrierItem(b) \in Items(w)' <=> BarrierItem(b) \in Items(w)
  <2> TAKE b
  <2>1. BarrierItem(b) # NoItem /\ BarrierItem(b) # shand[w]
    BY <1>3, ItemRecords
  <2> QED BY <1>5, <1>6, <2>1, ZenonT(40)
<1>13. BarrierInv'
  BY <1>1, <1>5, <1>10, <1>12, CarriersStay, BarriersStay, ZenonT(40)
<1>14. StoredInv'
  <2>1. Numbers' = Numbers /\ \A r : RouteOf(r)' = RouteOf(r)
    BY <1>1, Zenon DEF Numbers, Script, RouteOf
  <2>2. persisted' \in Seq(Nat)
    BY <1>2, <1>3
  <2>3. Range(persisted') \subseteq Numbers
    BY <1>0, <1>4, <1>10, Zenon DEF StoredInv, Open
  <2>4. \A s \in Range(persisted'), r \in Numbers \ Settled' : RouteOf(r) = RouteOf(s) => s < r
    <3>1. ASSUME NEW s \in Range(p), NEW r \in Numbers \ Settled', RouteOf(r) = RouteOf(s) PROVE s < r
      <4>1. r \in Open(w) /\ r \notin Range(p) /\ s \in StageRecords(w)
        BY <1>6, <1>7, <1>10, <3>1, ZenonT(40) DEF Open
      <4>2. CASE r \in StageRecords(w)
        <5>1. r \in Held(w)'
          <6>1. RecordsIn(Range(stageq[w])) \subseteq RecordsIn(rest)
            BY Zenon DEF RecordsIn
          <6> QED BY <1>5, <1>6, <4>1, <4>2, <6>1, SMTT(30)
        <5> QED BY <1>6, <5>1, ZenonT(40)
      <4>3. CASE r \notin StageRecords(w)
        BY <1>2, <4>1, <4>3, PairParts, ZenonT(40) DEF PairOpen
      <4> QED BY <4>2, <4>3, Zenon
    <3> QED BY <1>0, <1>4, <1>7, <3>1, ZenonT(40) DEF StoredInv
  <2>5. \A k, l \in DOMAIN persisted' :
           k < l /\ RouteOf(persisted'[k]) = RouteOf(persisted'[l]) => persisted'[k] < persisted'[l]
    <3> SUFFICES ASSUME NEW k \in DOMAIN persisted', NEW l \in DOMAIN persisted', k < l,
                        RouteOf(persisted'[k]) = RouteOf(persisted'[l])
                 PROVE  persisted'[k] < persisted'[l]
      BY ZenonT(40)
    <3>1. \/ k \in DOMAIN persisted /\ persisted'[k] = persisted[k]
          \/ k - Len(persisted) \in DOMAIN p /\ persisted'[k] = p[k - Len(persisted)] /\ k > Len(persisted)
      BY <1>2, <1>3, SMTT(30)
    <3>2. \/ l \in DOMAIN persisted /\ persisted'[l] = persisted[l] /\ l <= Len(persisted)
          \/ l - Len(persisted) \in DOMAIN p /\ persisted'[l] = p[l - Len(persisted)]
      BY <1>2, <1>3, SMTT(30)
    <3>3. k \in Nat /\ l \in Nat /\ Len(persisted) \in Nat
      BY <1>2, <1>3, SMTT(30)
    <3>4. CASE l \in DOMAIN persisted /\ persisted'[l] = persisted[l] /\ l <= Len(persisted)
      <4>1. k \in DOMAIN persisted /\ persisted'[k] = persisted[k]
        BY <3>1, <3>3, <3>4, SMTT(30)
      <4> QED BY <1>0, <3>4, <4>1, ZenonT(40) DEF StoredInv
    <3>5. CASE /\ l - Len(persisted) \in DOMAIN p /\ persisted'[l] = p[l - Len(persisted)]
               /\ k \in DOMAIN persisted /\ persisted'[k] = persisted[k]
      <4>1. persisted'[l] \in Range(p) /\ persisted'[k] \in Range(persisted)
        BY <3>5, Zenon DEF Range
      <4>2. persisted'[l] \in Numbers \ Settled
        BY <1>10, <4>1, ZenonT(40) DEF Open
      <4> QED BY <1>0, <4>1, <4>2, ZenonT(40) DEF StoredInv
    <3>6. CASE /\ l - Len(persisted) \in DOMAIN p /\ persisted'[l] = p[l - Len(persisted)]
               /\ k - Len(persisted) \in DOMAIN p /\ persisted'[k] = p[k - Len(persisted)]
      <4>1. Increasing(p)
        BY <1>2, PairParts, ZenonT(40) DEF PairLine, InLine, Ordered
      <4> QED BY <3>3, <3>6, <4>1, SMTT(30) DEF Increasing
    <3> QED BY <3>1, <3>2, <3>4, <3>5, <3>6, ZenonT(40)
  <2> QED BY <2>1, <2>2, <2>3, <2>4, <2>5, ZenonT(40) DEF StoredInv
<1>15. latched => closed
  BY Zenon DEF SinkInv, StopInv
<1> QED BY <1>1, <1>5, <1>10, <1>11, <1>13, <1>14, <1>15, PairStep, ZenonT(40)
=============================================================================
