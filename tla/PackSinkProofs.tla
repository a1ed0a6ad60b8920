--------------------------- MODULE PackSinkProofs ---------------------------
(***************************************************************************)
(* ReturnedIsDurable and ScopeOrder for any number of pairs, any routes,    *)
(* records, queue bounds and flushers: a failure, a stager that counts a    *)
(* barrier down, and what joins the lines (an admitted record, a barrier)   *)
(* keep SinkInv too, so it holds in every reachable state.                  *)
(***************************************************************************)
EXTENDS PackSinkLineProofs

---------------------------------------------------------------------------
(* A failure.                                                                *)

(* FailPending leaves no barrier open, and completes the one it finds with   *)
(* an error.                                                                 *)
LEMMA FailedBarriers ==
    ASSUME SinkInv, UNCHANGED <<pending, admitted>>, Settled' = Settled, NEW bs \in Seq(Barriers),
           Len(bs) = Len(barrier),
           \A b \in 1 .. Len(barrier) : \/ bs[b] = barrier[b]
                                        \/ bs[b].target = barrier[b].target /\ bs[b].completed /\ bs[b].error,
           barrier' = FailPending(bs)
    PROVE  /\ BarrierInv' /\ Len(barrier') = Len(barrier)
           /\ \A b \in 1 .. Len(barrier) : barrier'[b].target = barrier[b].target
<1>1. /\ BarrierInv /\ pending \in 0 .. Len(barrier) /\ Len(barrier) \in Nat
      /\ \A b \in 1 .. Len(barrier) : ~barrier[b].completed => pending = b
  BY BarrierFields, Zenon DEF SinkInv, BarrierInv
<1>2. \A x \in Barriers : LET y == [x EXCEPT !.completed = TRUE, !.error = TRUE]
                          IN  y \in Barriers /\ y.target = x.target /\ y.completed /\ y.error
  BY Zenon DEF Barriers
<1>3. DOMAIN bs = 1 .. Len(barrier) /\ \A b \in 1 .. Len(barrier) : bs[b] \in Barriers
  BY <1>1
<1>4. /\ barrier' \in Seq(Barriers) /\ Len(barrier') = Len(barrier)
      /\ \A b \in 1 .. Len(barrier) :
            \/ barrier'[b] = bs[b] /\ (b = pending => bs[b].completed)
            \/ barrier'[b].target = bs[b].target /\ barrier'[b].completed /\ barrier'[b].error
  <2>1. CASE pending # 0 /\ ~bs[pending].completed
    <3> DEFINE y == [bs[pending] EXCEPT !.completed = TRUE, !.error = TRUE]
    <3>1. pending \in 1 .. Len(barrier) /\ bs[pending] \in Barriers
      BY <1>1, <1>3, <2>1
    <3>2. barrier' = [bs EXCEPT ![pending] = y]
      BY <2>1, <3>1, Zenon DEF FailPending
    <3>3. y \in Barriers /\ y.target = bs[pending].target /\ y.completed /\ y.error
      BY <1>2, <3>1, Zenon
    <3> HIDE DEF y
    <3> QED BY <1>3, <3>1, <3>2, <3>3
  <2>2. CASE ~(pending # 0 /\ ~bs[pending].completed)
    BY <1>1, <1>3, <2>2 DEF FailPending
  <2> QED BY <2>1, <2>2, Zenon
<1>5. \A b \in 1 .. Len(barrier) :
         /\ barrier'[b].target = barrier[b].target /\ barrier'[b].completed
         /\ ~barrier'[b].error => barrier[b].completed /\ ~barrier[b].error
  BY <1>1, <1>4, Zenon
<1>6. \A b \in 1 .. Len(barrier) :
         /\ barrier[b].target <= Len(admitted)
         /\ barrier[b].completed /\ ~barrier[b].error => 1 .. barrier[b].target \subseteq Settled
  BY <1>1, Zenon DEF BarrierInv
<1>7. BarrierInv'
  BY <1>1, <1>4, <1>5, <1>6, Zenon DEF BarrierInv
<1> QED BY <1>4, <1>5, <1>7, Zenon

(* StageFails: the stager ends, and its pack is neither stored nor counted.  *)
LEMMA StageFailsKeeps ==
    ASSUME SinkInv, Fixed, NEW w \in Workers, StageFails(w)
    PROVE  SinkInv'
<1> DEFINE rest == Range(stageq[w]) \cup {hand[w]} \cup Range(queue[w])
<1>0. PlaceInv /\ BarrierInv
  BY Zenon DEF SinkInv
<1>1. /\ UNCHANGED <<queue, wpc, hand, builder, stageq, conf, stageClosed, cpc, attached,
                     sealed, pending, flush, flushLock, sub, admitted, persisted, duplicate, oversized>>
      /\ latched' /\ closed'
  BY Zenon DEF StageFails, FailWorker, packVars, hostVars, logVars, Fixed
<1>2. /\ spc[w] = "item" /\ shand' = [shand EXCEPT ![w] = NoItem] /\ spc' = [spc EXCEPT ![w] = "dead"]
      /\ barrier' = FailPending(barrier)
  BY Zenon DEF StageFails, FailWorker
<1>3. Settled' = Settled /\ Open(w)' = Open(w)
  BY <1>1, SameLog, Zenon
<1>4. /\ BarrierInv' /\ Len(barrier') = Len(barrier)
      /\ \A b \in 1 .. Len(barrier) : barrier'[b].target = barrier[b].target
  <2>1. barrier \in Seq(Barriers)
    BY <1>0, Zenon DEF BarrierInv
  <2> QED BY <1>1, <1>2, <1>3, <2>1, FailedBarriers, ZenonT(40)
<1>5. /\ PlaceInv' /\ OthersStay(w) /\ shand'[w] = NoItem /\ spc'[w] = "dead"
      /\ Held(w)' = Range(builder[w]) \cup RecordsIn(rest)
      /\ InLine(barrier, NoItem, stageq[w], builder[w], hand[w], queue[w])
  BY <1>1, <1>2, <1>4, StagerEmpty, Zenon
<1>6. PairLine(w)'
  <2>1. \A x \in {NoItem, hand[w]} \cup Range(stageq[w]) \cup Range(queue[w]) :
           x.kind = "barrier" => x.n \in 1 .. Len(barrier)
    BY <1>0, ItemKinds, ItemFields, Zenon
  <2>2. \A x \in {NoItem, hand[w]} \cup Range(stageq[w]) \cup Range(queue[w]) :
           x.kind = "barrier" => barrier'[x.n].target = barrier[x.n].target
    BY <1>4, <2>1, Zenon
  <2>3. InLine(barrier', NoItem, stageq[w], builder[w], hand[w], queue[w])
    BY <1>0, <1>5, <2>2, ItemKinds, LineTargets, Zenon
  <2> QED BY <1>1, <1>5, <2>3, Zenon DEF PairLine
<1>7. PairOpen(w)'
  <2>1. Held(w)' \subseteq Held(w)
    BY <1>5, StagerFirst, Zenon
  <2>2. Held(w) \subseteq Open(w)
    BY PairParts, Zenon DEF PairOpen
  <2> QED BY <1>1, <1>3, <1>5, <2>1, <2>2, ZenonT(40) DEF PairOpen
<1>8. PairStop(w)'
  BY <1>1, <1>5, PairParts, Zenon DEF PairStop
<1>9. StoredInv'
  BY <1>1, <1>3, StoredStays, Zenon
<1> QED BY <1>1, <1>3, <1>4, <1>5, <1>6, <1>7, <1>8, <1>9, PairStep, ZenonT(40)

(* PackerFails: the open pack is lost with the packer, and everything its    *)
(* stager still has comes before what was lost.                              *)
LEMMA PackerFailsKeeps ==
    ASSUME SinkInv, Fixed, NEW w \in Workers, PackerFails(w)
    PROVE  SinkInv'
<1> DEFINE bs == IF hand[w].kind = "barrier"
                 THEN [barrier EXCEPT ![hand[w].n].completed = TRUE, ![hand[w].n].error = TRUE]
                 ELSE barrier
<1>0. PlaceInv /\ BarrierInv
  BY Zenon DEF SinkInv
<1>1. /\ UNCHANGED <<queue, hand, spc, shand, stageq, conf, stageClosed, cpc, attached,
                     sealed, pending, flush, flushLock, sub, admitted, persisted, duplicate, oversized>>
      /\ latched' /\ closed'
  BY Zenon DEF PackerFails, stageVars, hostVars, logVars, Fixed
<1>2. /\ wpc' = [wpc EXCEPT ![w] = "dead"] /\ builder' = [builder EXCEPT ![w] = <<>>]
      /\ barrier' = FailPending(bs) /\ wpc[w] # "dead"
  BY Zenon DEF PackerFails, GoTo, Sealing
<1>3. Settled' = Settled /\ Open(w)' = Open(w)
  BY <1>1, SameLog, Zenon
<1>4. /\ BarrierInv' /\ Len(barrier') = Len(barrier)
      /\ \A b \in 1 .. Len(barrier) : barrier'[b].target = barrier[b].target
  <2>1. barrier \in Seq(Barriers) /\ \A b \in 1 .. Len(barrier) : barrier[b] \in Barriers
    BY <1>0, BarrierFields, Zenon DEF BarrierInv
  <2>2. \A x \in Barriers : LET y == [x EXCEPT !.completed = TRUE, !.error = TRUE]
                            IN  y \in Barriers /\ y.target = x.target /\ y.completed /\ y.error
    BY Zenon DEF Barriers
  <2>3. /\ bs \in Seq(Barriers) /\ Len(bs) = Len(barrier)
        /\ \A b \in 1 .. Len(barrier) : \/ bs[b] = barrier[b]
                                        \/ bs[b].target = barrier[b].target /\ bs[b].completed /\ bs[b].error
    <3>1. CASE hand[w].kind = "barrier"
      <4> DEFINE n == hand[w].n
                 y == [barrier[n] EXCEPT !.completed = TRUE, !.error = TRUE]
      <4>1. n \in 1 .. Len(barrier)
        BY <1>0, <3>1, ItemKinds, ItemFields, Zenon
      <4>2. bs = [barrier EXCEPT ![n] = y]
        BY <2>1, <3>1, <4>1, Zenon
      <4>3. y \in Barriers /\ y.target = barrier[n].target /\ y.completed /\ y.error
        BY <2>1, <2>2, <4>1, Zenon
      <4> HIDE DEF y, n, bs
      <4> QED BY <2>1, <4>1, <4>2, <4>3
    <3>2. CASE hand[w].kind # "barrier"
      BY <2>1, <3>2, Zenon
    <3> QED BY <3>1, <3>2, Zenon
  <2> HIDE DEF bs
  <2> QED BY <1>1, <1>2, <1>3, <2>3, FailedBarriers, Zenon
<1>5. PlaceInv'
  <2>0. <<>> \in Seq(Numbers)
    OBVIOUS
  <2>1. /\ builder' \in [Workers -> Seq(Numbers)]
        /\ wpc' \in [Workers -> {"wait", "item", "seal", "exit", "dead"}]
    BY <1>0, <1>2, <2>0, Zenon DEF PlaceInv
  <2>2. \A v \in Workers : wpc'[v] \in {"wait", "seal", "exit"} => hand[v] = NoItem
    BY <1>0, <1>2, Zenon DEF PlaceInv
  <2> QED BY <1>0, <1>1, <1>4, <2>1, <2>2, SameItems, ZenonT(40) DEF PlaceInv
<1>6. builder'[w] = <<>> /\ wpc'[w] = "dead" /\ OthersStay(w)
  BY <1>0, <1>1, <1>2, Zenon DEF PlaceInv, OthersStay
<1>7. PairLine(w)'
  <2>1. \A x \in {shand[w], hand[w]} \cup Range(stageq[w]) \cup Range(queue[w]) :
           x.kind = "barrier" => x.n \in 1 .. Len(barrier)
    BY <1>0, ItemKinds, ItemFields, Zenon
  <2>2. \A x \in {shand[w], hand[w]} \cup Range(stageq[w]) \cup Range(queue[w]) :
           x.kind = "barrier" => barrier'[x.n].target = barrier[x.n].target
    BY <1>4, <2>1, Zenon
  <2>3. InLine(barrier, shand[w], stageq[w], <<>>, hand[w], queue[w])
    BY LineLose, PairParts, Zenon DEF PairLine
  <2>4. InLine(barrier', shand[w], stageq[w], <<>>, hand[w], queue[w])
    BY <1>0, <2>2, <2>3, ItemKinds, LineTargets, Zenon
  <2> QED BY <1>1, <1>6, <2>4, Zenon DEF PairLine
<1>8. PairOpen(w)'
  <2>1. Items(w)' = Items(w) /\ Staging(w)' = Staging(w)
    BY <1>1, Zenon DEF Items, Staging
  <2>2. Held(w)' \subseteq Held(w) /\ StageRecords(w)' = StageRecords(w)
    BY <1>6, <2>1, HeldIs, RangeEmpty, Zenon
  <2>3. PairOpen(w)
    BY PairParts, Zenon
  <2> QED BY <1>1, <1>3, <1>6, <2>2, <2>3, ZenonT(40) DEF PairOpen
<1>9. PairStop(w)'
  BY <1>1, <1>6, PairParts, ZenonT(40) DEF PairStop
<1>10. StoredInv'
  BY <1>1, <1>3, StoredStays, Zenon
<1> QED BY <1>1, <1>3, <1>4, <1>5, <1>6, <1>7, <1>8, <1>9, <1>10, PairStep, ZenonT(40)

(* The counter of a new barrier counts all the pairs.                        *)
LEMMA CountsAll == ASSUME conf.workers \in Nat PROVE Counts(conf.workers, Workers)
<1>1. [w \in Workers |-> w] \in [Workers -> 1 .. conf.workers]
  BY DEF Workers
<1> QED BY <1>1, Zenon DEF Counts

(* One pair less, and one less on the counter; at the last one none is left. *)
LEMMA CountsLess ==
    ASSUME NEW n \in Int, NEW S, NEW w \in S, Counts(n, S)
    PROVE  Counts(n - 1, S \ {w}) /\ (n <= 1 => S \ {w} = {})
<1>1. PICK f \in [S -> 1 .. n] : \A u, v \in S : f[u] = f[v] => u = v
  BY Zenon DEF Counts
<1>2. \A v \in S : f[v] \in Int /\ 1 <= f[v] /\ f[v] <= n
  OBVIOUS
<1>3. n <= 1 => S \ {w} = {}
  <2>1. \A v \in S : n <= 1 => f[v] = 1
    BY <1>2
  <2> QED BY <1>1, <2>1, Zenon
<1> DEFINE g == [v \in S \ {w} |-> IF f[v] = n THEN f[w] ELSE f[v]]
<1>4. g \in [S \ {w} -> 1 .. n - 1]
  <2>1. \A v \in S \ {w} : f[v] # f[w]
    BY <1>1, Zenon
  <2>2. \A v \in S \ {w} : (IF f[v] = n THEN f[w] ELSE f[v]) \in 1 .. n - 1
    BY <1>2, <2>1
  <2> QED BY <2>2, Zenon
<1>5. \A u, v \in S \ {w} : g[u] = g[v] => u = v
  BY <1>1, Zenon
<1> QED BY <1>3, <1>4, <1>5, Zenon DEF Counts

(* A barrier counted down once more.                                         *)
LEMMA CountDownFields ==
    ASSUME NEW b \in Barriers
    PROVE  /\ CountDown(b) \in Barriers /\ CountDown(b).target = b.target /\ CountDown(b).error = b.error
           /\ CountDown(b).remaining = b.remaining - 1 /\ b.remaining \in Int
           /\ CountDown(b).completed = (b.completed \/ b.remaining <= 1)
<1> DEFINE done == b.completed \/ b.remaining <= 1
<1>1. b.remaining \in Int /\ b.completed \in BOOLEAN /\ done \in BOOLEAN
  BY Zenon DEF Barriers
<1>2. CountDown(b) = [b EXCEPT !.remaining = b.remaining - 1, !.completed = done]
  BY Zenon DEF CountDown
<1> HIDE DEF done
<1>3. \A n \in Int, d \in BOOLEAN :
         LET x == [b EXCEPT !.remaining = n, !.completed = d]
         IN  /\ x \in Barriers /\ x.target = b.target /\ x.error = b.error
             /\ x.remaining = n /\ x.completed = d
  BY Zenon DEF Barriers
<1>4. b.remaining - 1 \in Int
  BY <1>1
<1>5. /\ CountDown(b) \in Barriers /\ CountDown(b).target = b.target /\ CountDown(b).error = b.error
      /\ CountDown(b).remaining = b.remaining - 1 /\ CountDown(b).completed = done
  <2>1. LET x == [b EXCEPT !.remaining = b.remaining - 1, !.completed = done]
        IN  /\ x \in Barriers /\ x.target = b.target /\ x.error = b.error
            /\ x.remaining = b.remaining - 1 /\ x.completed = done
    BY <1>1, <1>3, <1>4, ZenonT(40)
  <2> QED BY <1>2, <2>1, ZenonT(40)
<1> QED BY <1>1, <1>5, Zenon DEF done

(* StagerBarrier: behind a barrier's copy stands no record it was made for,  *)
(* so the pair it left has settled all of them.                              *)
LEMMA StagerBarrierKeeps ==
    ASSUME SinkInv, Fixed, NEW w \in Workers, StagerBarrier(w)
    PROVE  SinkInv'
<1> DEFINE rest == Range(stageq[w]) \cup {hand[w]} \cup Range(queue[w])
<1>0. PlaceInv /\ BarrierInv /\ SubInv
  BY Zenon DEF SinkInv
<1>1. /\ UNCHANGED <<queue, wpc, hand, builder, stageq, conf, latched, closed, stageClosed, cpc, attached,
                     sealed, pending, flush, flushLock, sub, admitted, persisted, duplicate, oversized>>
  BY ZenonT(40) DEF StagerBarrier, packVars, hostVars, stopVars, logVars, Fixed
<1>3. PICK c \in 1 .. Len(barrier) : shand[w] = BarrierItem(c) /\ shand[w].n = c /\ shand[w].kind = "barrier"
  BY <1>0, ItemKinds, ItemFields DEF StagerBarrier
<1>2. /\ spc[w] = "item" /\ shand' = [shand EXCEPT ![w] = NoItem] /\ spc' = [spc EXCEPT ![w] = "wait"]
      /\ shand[w].kind = "barrier" /\ barrier' = [barrier EXCEPT ![c] = CountDown(barrier[c])]
  BY <1>3, Zenon DEF StagerBarrier, StagerDone
<1>4. /\ barrier \in Seq(Barriers) /\ Len(barrier) \in Nat /\ DOMAIN barrier = 1 .. Len(barrier)
      /\ \A b \in 1 .. Len(barrier) : barrier[b] \in Barriers
  BY <1>0, BarrierFields, Zenon DEF BarrierInv
<1>5. /\ CountDown(barrier[c]) \in Barriers
      /\ CountDown(barrier[c]).target = barrier[c].target /\ CountDown(barrier[c]).error = barrier[c].error
      /\ CountDown(barrier[c]).remaining = barrier[c].remaining - 1 /\ barrier[c].remaining \in Int
      /\ CountDown(barrier[c]).completed = (barrier[c].completed \/ barrier[c].remaining <= 1)
  BY <1>3, <1>4, CountDownFields, ZenonT(40)
<1>6. /\ barrier' \in Seq(Barriers) /\ Len(barrier') = Len(barrier)
      /\ barrier'[c] = CountDown(barrier[c])
      /\ \A b \in 1 .. Len(barrier) : b # c => barrier'[b] = barrier[b]
      /\ \A b \in 1 .. Len(barrier) : barrier'[b].target = barrier[b].target
  BY <1>2, <1>3, <1>4, <1>5, SMTT(30)
<1>7. /\ PlaceInv' /\ OthersStay(w) /\ shand'[w] = NoItem /\ spc'[w] = "wait"
      /\ Items(w)' = rest \cup {NoItem}
      /\ Held(w)' = Range(builder[w]) \cup RecordsIn(rest)
      /\ StageRecords(w)' = RecordsIn(Range(stageq[w]))
      /\ InLine(barrier, NoItem, stageq[w], builder[w], hand[w], queue[w])
  BY <1>1, <1>2, <1>6, StagerEmpty, Zenon
<1>8. /\ Items(w) = {shand[w]} \cup rest /\ Held(w) = Held(w)' /\ StageRecords(w) = StageRecords(w)'
      /\ \A x \in rest \cup {PackItem(builder[w])} : Before(barrier, shand[w], x)
  <2>1. RecordsOf(shand[w]) = {}
    BY <1>3, ItemRecords, Zenon
  <2> QED BY <1>7, <2>1, StagerFirst, ZenonT(40)
<1>9. PairLine(w)'
  <2>1. \A x \in {NoItem, hand[w]} \cup Range(stageq[w]) \cup Range(queue[w]) :
           x.kind = "barrier" => x.n \in 1 .. Len(barrier)
    BY <1>0, ItemKinds, ItemFields, Zenon
  <2>2. \A x \in {NoItem, hand[w]} \cup Range(stageq[w]) \cup Range(queue[w]) :
           x.kind = "barrier" => barrier'[x.n].target = barrier[x.n].target
    BY <1>6, <2>1, Zenon
  <2>3. InLine(barrier', NoItem, stageq[w], builder[w], hand[w], queue[w])
    BY <1>0, <1>7, <2>2, ItemKinds, LineTargets
  <2> QED BY <1>1, <1>7, <2>3, Zenon DEF PairLine
<1>10. Settled' = Settled /\ Open(w)' = Open(w) /\ (\A r : RouteOf(r)' = RouteOf(r)) /\ Workers' = Workers
  BY <1>1, SameLog, Zenon
<1>11. PairOpen(w)' /\ PairStop(w)'
  <2>1. PairOpen(w)'
    <3>1. PairOpen(w) /\ spc'[w] # "dead" /\ spc[w] # "dead"
      BY <1>2, <1>7, PairParts, ZenonT(40)
    <3> QED BY <1>1, <1>8, <1>10, <3>1, ZenonT(40) DEF PairOpen
  <2>2. PairStop(w)'
    BY <1>1, <1>2, <1>7, PairParts, SMTT(30) DEF PairStop
  <2> QED BY <2>1, <2>2, Zenon
<1>12. StoredInv'
  BY <1>1, <1>10, StoredStays, SMTT(30)
<1>13. BarrierInv'
  <2>1. ASSUME NEW b \in 1 .. Len(barrier), b # c PROVE Carriers(b)' = Carriers(b)
    <3>1. BarrierItem(b) # NoItem /\ BarrierItem(b) # shand[w]
      BY <1>3, <2>1, ItemRecords, SMTT(30)
    <3> QED BY <1>7, <1>8, <3>1, CarriersStay, ZenonT(40)
  <2>2. BarrierItem(c) \notin rest
    <3>1. c \in Nat
      BY <1>3, <1>4
    <3>2. \A x \in rest : x.kind = "barrier" => c < x.n
      BY <1>3, <1>8, ItemRecords, Zenon DEF Before
    <3> QED BY <3>1, <3>2, ItemRecords, SMTT(30)
  <2>3. Carriers(c)' = Carriers(c) \ {w} /\ w \in Carriers(c)
    <3>1. BarrierItem(c) \in Items(w) /\ BarrierItem(c) \notin Items(w)'
      BY <1>3, <1>7, <1>8, <2>2, ItemRecords, ZenonT(40)
    <3>2. \A v \in Workers : v # w => Items(v)' = Items(v)
      BY <1>7, Zenon DEF OthersStay, Items, Staging
    <3>3. \A v \in Workers : BarrierItem(c) \in Items(v)' <=> BarrierItem(c) \in Items(v) /\ v # w
      BY <3>1, <3>2, Zenon
    <3>4. Carriers(c)' = {v \in Workers : BarrierItem(c) \in Items(v)'}
      BY <1>10, Zenon DEF Carriers
    <3> QED BY <3>1, <3>3, <3>4, Zenon DEF Carriers
  <2>4. ASSUME ~barrier[c].completed
        PROVE  /\ \A r \in 1 .. barrier[c].target : RouteOf(r) \in Carriers(c)' \/ r \in Settled
               /\ Counts(barrier[c].remaining - 1, Carriers(c)')
               /\ barrier[c].remaining <= 1 => Carriers(c)' = {}
    <3>1. /\ ~latched /\ Counts(barrier[c].remaining, Carriers(c))
          /\ \A r \in 1 .. barrier[c].target : RouteOf(r) \in Carriers(c) \/ r \in Settled
      BY <1>0, <1>3, <2>4, ZenonT(40) DEF BarrierInv
    <3>2. ASSUME NEW r \in 1 .. barrier[c].target, r \notin Settled PROVE RouteOf(r) \in Carriers(c)'
      <4>1. r \in Numbers /\ r \in Nat /\ barrier[c].target \in Nat /\ r <= barrier[c].target
        BY <1>0, <1>3, <1>4, <3>2, BarrierFields, SMTT(30) DEF Numbers, SubInv
      <4>2. CASE RouteOf(r) = w
        <5>1. r \in Held(w)
          BY <3>1, <3>2, <4>1, <4>2, PairParts, ZenonT(40) DEF PairOpen, Open
        <5>2. PICK x \in rest \cup {PackItem(builder[w])} : r \in RecordsOf(x)
          BY <5>1, <1>7, <1>8, ItemRecords, SMTT(30) DEF RecordsIn
        <5>3. barrier[c].target < r
          BY <5>2, <1>3, <1>8, ZenonT(40) DEF Before
        <5> QED BY <4>1, <5>3
      <4> QED BY <3>1, <3>2, <4>2, <2>3, SMTT(30)
    <3>3. w \in Carriers(c) /\ Carriers(c)' = Carriers(c) \ {w}
      BY <2>3, ZenonT(40)
    <3>4. Counts(barrier[c].remaining - 1, Carriers(c) \ {w}) /\ (barrier[c].remaining <= 1 => Carriers(c) \ {w} = {})
      BY <1>5, <3>1, <3>3, CountsLess, ZenonT(40)
    <3> QED BY <3>2, <3>3, <3>4, ZenonT(40)
  <2> SUFFICES ASSUME NEW b \in 1 .. Len(barrier)
               PROVE  /\ barrier'[b].target <= Len(admitted)
                      /\ barrier'[b].completed /\ ~barrier'[b].error => 1 .. barrier'[b].target \subseteq Settled
                      /\ ~barrier'[b].completed =>
                            /\ pending = b /\ ~latched /\ ~barrier'[b].error
                            /\ Counts(barrier'[b].remaining, Carriers(b)')
                            /\ \A r \in 1 .. barrier'[b].target : RouteOf(r) \in Carriers(b)' \/ r \in Settled
    BY <1>0, <1>1, <1>6, <1>10, SMTT(30) DEF BarrierInv
  <2>5. CASE b # c
    BY <1>0, <1>6, <2>1, <2>5, ZenonT(40) DEF BarrierInv
  <2>6. CASE b = c /\ barrier[c].completed
    BY <1>0, <1>5, <1>6, <2>6, ZenonT(40) DEF BarrierInv
  <2>7. CASE b = c /\ ~barrier[c].completed
    <3>1. barrier[c].target <= Len(admitted) /\ pending = c /\ ~latched /\ ~barrier[c].error
      BY <1>0, <1>3, <2>7, ZenonT(40) DEF BarrierInv
    <3>2. CASE barrier[c].remaining <= 1
      BY <1>5, <1>6, <2>4, <2>7, <3>1, <3>2, ZenonT(40)
    <3>3. CASE ~(barrier[c].remaining <= 1)
      BY <1>5, <1>6, <2>4, <2>7, <3>1, <3>3, ZenonT(40)
    <3> QED BY <3>2, <3>3, ZenonT(40)
  <2> QED BY <2>5, <2>6, <2>7, SMTT(30)
<1>14. latched => closed
  BY Zenon DEF SinkInv, StopInv
<1> QED BY <1>1, <1>6, <1>7, <1>9, <1>10, <1>11, <1>12, <1>13, <1>14, PairStep, SMTT(30)

---------------------------------------------------------------------------
(* What joins the line.                                                      *)

(* Everything in a line is admitted, and made before the next barrier.       *)
LEMMA LineBelow ==
    ASSUME SinkInv, NEW w \in Workers
    PROVE  \A x \in Items(w) \cup {PackItem(builder[w])} :
              /\ RecordsOf(x) \subseteq Numbers
              /\ x.kind = "barrier" => /\ x.n \in 1 .. Len(barrier)
                                       /\ barrier[x.n].target \in Nat /\ barrier[x.n].target <= Len(admitted)
<1>1. Held(w) \subseteq Numbers
  BY PairParts, Zenon DEF PairOpen, Open
<1>2. \A x \in Items(w) : RecordsOf(x) \subseteq Numbers
  BY <1>1, HeldIs DEF RecordsIn
<1>3. RecordsOf(PackItem(builder[w])) \subseteq Numbers /\ PackItem(builder[w]).kind # "barrier"
  BY <1>1, HeldIs, ItemRecords, Zenon
<1>4. \A x \in Items(w) : x.kind = "barrier" => x.n \in 1 .. Len(barrier)
  BY ItemKinds, ItemFields, Zenon DEF SinkInv, Items, Staging
<1>5. \A b \in 1 .. Len(barrier) : barrier[b].target \in Nat /\ barrier[b].target <= Len(admitted)
  BY BarrierFields, Zenon DEF SinkInv
<1> QED BY <1>2, <1>3, <1>4, <1>5, Zenon

(* SubmitAdmit: the next number goes to the end of its pair's line.          *)
LEMMA SubmitAdmitKeeps ==
    ASSUME SinkInv, Fixed, SubmitAdmit
    PROVE  SinkInv'
<1>0. SubInv /\ PlaceInv /\ LineInv /\ OpenInv /\ StoredInv /\ BarrierInv /\ StopInv /\ ReleaseInv
  BY Zenon DEF SinkInv
<1>1. PICK k \in Nat : /\ k = Len(admitted) + 1 /\ Current = k /\ k \in 1 .. Len(Script)
                       /\ admitted' = Append(admitted, k) /\ sub' = [pc |-> "idle", sent |-> k]
  <2>1. /\ admitted' = Append(admitted, sub.sent + 1) /\ sub' = [pc |-> "idle", sent |-> sub.sent + 1]
        /\ sub.pc = "admit"
    BY ZenonT(40) DEF SubmitAdmit, Current
  <2>2. sub.sent = Len(admitted) /\ sub.sent \in Nat /\ sub.sent < Len(Script) /\ Len(Script) \in Nat
    BY <1>0, <2>1, Routed, SMTT(30) DEF SubInv
  <2>3. sub.sent + 1 \in Nat /\ sub.sent + 1 \in 1 .. Len(Script)
    BY <2>2
  <2> QED BY <2>1, <2>2, <2>3, Zenon DEF Current
<1>2. PICK w \in Workers : w = RouteOf(k)
  BY <1>0, <1>1, Routed, ZenonT(40) DEF SubInv
<1>3. /\ queue' = [queue EXCEPT ![w] = Append(queue[w], RecordItem(k))] /\ ~closed
      /\ UNCHANGED <<conf, attached, sealed, cpc, wpc, hand, builder, stageq, spc, shand, closed, stageClosed,
                     latched, barrier, pending, flush, flushLock, persisted, duplicate, oversized>>
  BY <1>1, <1>2, Zenon DEF SubmitAdmit, RouteOf, Fixed, hostVars, packVars, stageVars, stopVars, flushVars
<1>4. /\ Settled' = Settled /\ Workers' = Workers /\ Script' = Script
      /\ \A r : RouteOf(r)' = RouteOf(r)
  BY <1>3, Zenon DEF Settled, Workers, Script, RouteOf
<1>5. Len(admitted') = k /\ Numbers' = Numbers \cup {k} /\ Len(admitted) \in Nat
  <2>1. admitted \in Seq(Nat)
    BY <1>0, Zenon DEF SubInv
  <2> QED BY <1>1, <2>1, SMTT(30) DEF Numbers
<1>6. k \notin Settled /\ \A r \in Numbers : r \in Nat /\ r < k
  <2>1. Settled \subseteq Numbers
    BY <1>0, Zenon DEF SubInv, SubmitAdmit
  <2>2. \A r \in Numbers : r \in Nat /\ r < k
    BY <1>1, <1>5, SMTT(30) DEF Numbers
  <2> QED BY <1>1, <2>1, <2>2, SMTT(30)
<1>7. /\ queue'[w] = Append(queue[w], RecordItem(k)) /\ Range(queue'[w]) = Range(queue[w]) \cup {RecordItem(k)}
      /\ \A v \in Workers : v # w => queue'[v] = queue[v]
  <2>1. queue'[w] = Append(queue[w], RecordItem(k)) /\ \A v \in Workers : v # w => queue'[v] = queue[v]
    BY <1>0, <1>3, Zenon DEF PlaceInv
  <2> QED BY <1>0, <2>1, ItemKinds, RangeAppend, ZenonT(40)
<1>8. SubInv'
  <2>1. admitted' \in Seq(Nat) /\ \A i \in Numbers' : admitted'[i] = i
    <3>1. admitted \in Seq(Nat) /\ \A i \in Numbers : admitted[i] = i
      BY <1>0, Zenon DEF SubInv
    <3> QED BY <1>1, <1>5, <3>1, SMTT(30) DEF Numbers
  <2>2. /\ conf' \in Scenarios' /\ Settled' \subseteq Numbers' /\ Len(admitted') <= Len(Script')
    <3>1. Settled \subseteq Numbers
      BY <1>0, Zenon DEF SubInv, SubmitAdmit
    <3>2. k <= Len(Script)
      BY <1>0, <1>1, Routed, SMTT(30) DEF SubInv
    <3>3. conf' \in Scenarios'
      BY <1>0, <1>3, Zenon DEF SubInv
    <3> QED BY <1>4, <1>5, <3>1, <3>2, <3>3, ZenonT(40)
  <2>3. /\ sub' \in [pc : {"idle", "admit", "stopped"}, sent : Nat] /\ sub'.sent = Len(admitted')
        /\ sub'.pc # "admit"
    BY <1>1, <1>5, SMTT(30)
  <2> QED BY <2>1, <2>2, <2>3, ZenonT(40) DEF SubInv
<1>9. PlaceInv'
  <2>1. RecordItems \subseteq RecordItems' /\ BarrierItems' = BarrierItems /\ RecordItem(k) \in RecordItems'
    BY <1>3, <1>5, Zenon DEF RecordItems, BarrierItems, RecordItem
  <2>2. \A s \in Seq(Numbers) : s \in Seq(Numbers')
    BY <1>5
  <2>3. PackItems \subseteq PackItems'
    BY <2>2, Zenon DEF PackItems
  <2>4. \A s \in Seq(RecordItems \cup BarrierItems) : s \in Seq(RecordItems' \cup BarrierItems)
    BY <2>1
  <2>5. \A s \in Seq(PackItems \cup BarrierItems) : s \in Seq(PackItems' \cup BarrierItems)
    BY <2>3
  <2>6. queue'[w] \in Seq(RecordItems' \cup BarrierItems)
    <3>1. queue[w] \in Seq(RecordItems' \cup BarrierItems)
      BY <1>0, <2>4, ItemKinds, Zenon
    <3> QED BY <1>7, <2>1, <3>1, SMTT(30)
  <2>7. queue' \in [Workers -> Seq(RecordItems' \cup BarrierItems)]
    BY <1>0, <1>3, <1>7, <2>4, <2>6, ZenonT(40) DEF PlaceInv
  <2>8. /\ hand \in [Workers -> RecordItems' \cup BarrierItems \cup {NoItem}]
        /\ shand \in [Workers -> PackItems' \cup BarrierItems \cup {NoItem}]
        /\ builder \in [Workers -> Seq(Numbers')]
        /\ stageq \in [Workers -> Seq(PackItems' \cup BarrierItems)]
    BY <1>0, <2>1, <2>2, <2>3, <2>5, ZenonT(40) DEF PlaceInv
  <2> QED BY <1>0, <1>3, <1>4, <2>1, <2>7, <2>8, ZenonT(40) DEF PlaceInv
<1>10. LineInv'
  <2>1. ASSUME NEW v \in Workers
        PROVE  InLine(barrier, shand[v], stageq[v], builder[v], hand[v], queue'[v])
    <3>1. CASE v # w
      BY <1>0, <1>7, <3>1, Zenon DEF LineInv
    <3>2. CASE v = w
      <4>1. \A x \in Items(w) \cup {PackItem(builder[w])} : Before(barrier, x, RecordItem(k))
        <5> SUFFICES ASSUME NEW x \in Items(w) \cup {PackItem(builder[w])} PROVE Before(barrier, x, RecordItem(k))
          BY Zenon
        <5>1. \A r \in RecordsOf(x) : r < k
          BY <1>6, LineBelow, Zenon
        <5>2. x.kind = "barrier" => barrier[x.n].target < k
          BY <1>1, <1>5, LineBelow
        <5>3. RecordsOf(RecordItem(k)) = {k} /\ RecordItem(k).kind = "record"
          BY ItemRecords DEF RecordItem
        <5> QED BY <5>1, <5>2, <5>3, SMTT(30) DEF Before
      <4>2. AllBefore(barrier, {shand[w]} \cup Range(stageq[w]) \cup {PackItem(builder[w]), hand[w]} \cup Range(queue[w]),
                      {RecordItem(k)})
        BY <4>1, Zenon DEF AllBefore, Items, Staging
      <4> QED BY <1>0, <1>7, <3>2, <4>2, ItemKinds, LineJoin, ZenonT(40) DEF LineInv
    <3> QED BY <3>1, <3>2, ZenonT(40)
  <2> QED BY <1>3, <1>4, <2>1 DEF LineInv
<1>11. OpenInv'
  <2>1. ASSUME NEW v \in Workers PROVE PairOpen(v)'
    <3>0. PairOpen(v) /\ StageRecords(v)' = StageRecords(v)
      BY <1>3, PairParts, Zenon DEF StageRecords, Staging
    <3>1. CASE v # w
      <4>1. Open(v)' = Open(v)
        BY <1>2, <1>4, <1>5, <3>1, SMTT(30) DEF Open
      <4>2. Items(v)' = Items(v)
        BY <1>3, <1>7, <3>1, Zenon DEF Items, Staging
      <4>3. Held(v)' = Held(v)
        BY <1>3, <4>2, HeldIs, ZenonT(40)
      <4> QED BY <1>3, <3>0, <4>1, <4>3, ZenonT(40) DEF PairOpen
    <3>2. CASE v = w
      <4>1. Open(w)' = Open(w) \cup {k}
        BY <1>2, <1>4, <1>5, <1>6, ZenonT(40) DEF Open
      <4>2. Items(w)' = Items(w) \cup {RecordItem(k)}
        BY <1>3, <1>7, Zenon DEF Items, Staging
      <4>3. RecordsIn(Items(w)') = RecordsIn(Items(w)) \cup RecordsIn({RecordItem(k)})
        BY <4>2, RecordsInJoin, ZenonT(40)
      <4>4. RecordsIn({RecordItem(k)}) = {k}
        BY RecordsInJoin, Zenon
      <4>5. Held(w)' = Held(w) \cup {k}
        BY <1>3, <4>3, <4>4, HeldIs, ZenonT(40)
      <4>6. \A s \in StageRecords(w) : s < k
        <5>1. \A x \in Staging(w) : RecordsOf(x) \subseteq Numbers
          BY LineBelow, ZenonT(40) DEF Items
        <5> QED BY <1>6, <5>1, ZenonT(40) DEF StageRecords
      <4> QED BY <1>3, <3>0, <3>2, <4>1, <4>5, <4>6, SMTT(30) DEF PairOpen
    <3> QED BY <3>1, <3>2, Zenon
  <2> QED BY <1>4, <2>1, Zenon DEF OpenInv, PairOpen
<1>12. StoredInv'
  <2>1. \A s \in Range(persisted), r \in Numbers' \ Settled : RouteOf(r) = RouteOf(s) => s < r
    BY <1>0, <1>5, <1>6 DEF StoredInv
  <2>2. \A i, j \in DOMAIN persisted' : RouteOf(persisted[i])' = RouteOf(persisted[i])
    BY <1>3, <1>4, Zenon DEF RouteOf
  <2> QED BY <1>0, <1>3, <1>4, <1>5, <2>1, <2>2, SMTT(30) DEF StoredInv, RouteOf
<1>13. BarrierInv'
  <2>1. \A b : Carriers(b)' = Carriers(b)
    <3> TAKE b
    <3>1. BarrierItem(b) # RecordItem(k)
      BY ItemRecords, ZenonT(40)
    <3>2. \A v \in Workers : BarrierItem(b) \in Items(v)' <=> BarrierItem(b) \in Items(v)
      BY <1>3, <1>7, <3>1, SMTT(30) DEF Items, Staging
    <3> QED BY <1>4, <3>2, Zenon DEF Carriers
  <2>2. \A b \in 1 .. Len(barrier) : barrier[b].target <= Len(admitted')
    BY <1>0, <1>1, <1>5, BarrierFields, SMTT(30)
  <2> QED BY <1>0, <1>3, <1>4, <2>1, <2>2, ZenonT(40) DEF BarrierInv
<1>14. FlushInv'
  <2>1. Len(admitted') \in Nat /\ Len(admitted) <= Len(admitted')
    BY <1>1, <1>5
  <2> QED BY <1>3, <1>4, <2>1, FlushersStay, SMTT(30)
<1>15. StopInv'
  BY <1>0, <1>3, <1>4, Zenon DEF StopInv
<1>16. ReleaseInv'
  <2>1. attached /\ ~sealed
    BY <1>0, Zenon DEF SubInv, ReleaseInv, SubmitAdmit
  <2> QED BY <1>3, <2>1, Zenon DEF ReleaseInv
<1> QED BY <1>8, <1>9, <1>10, <1>11, <1>12, <1>13, <1>14, <1>15, <1>16, ZenonT(40) DEF SinkInv

(* FlushMake: a copy of the new barrier goes to the end of every line.       *)
LEMMA FlushMakeKeeps ==
    ASSUME SinkInv, Fixed, NEW f \in AllFlushers, FlushMake(f), ~closed
    PROVE  SinkInv'
<1>0. SubInv /\ PlaceInv /\ LineInv /\ OpenInv /\ StoredInv /\ BarrierInv /\ StopInv /\ ReleaseInv
  BY Zenon DEF SinkInv
<1>1. PICK n \in Nat : n = Len(barrier) + 1
  BY <1>0, BarrierFields
<1> DEFINE new == [target |-> flush[f].want, completed |-> FALSE, error |-> FALSE,
                   remaining |-> conf.workers]
           x == [flush[f] EXCEPT !.pc = "own", !.on = n]
<1>2. /\ barrier' = Append(barrier, new) /\ pending' = n
      /\ queue' = [w \in Workers |-> Append(queue[w], BarrierItem(n))]
      /\ flush' = [flush EXCEPT ![f].pc = "own", ![f].on = n] /\ flushLock' = flushLock
      /\ flush[f].pc = "make"
      /\ UNCHANGED <<conf, sub, attached, sealed, cpc, wpc, hand, builder, stageq, spc, shand, closed, stageClosed,
                     latched, admitted, persisted, duplicate, oversized>>
  BY <1>1, Zenon DEF FlushMake, Fixed, hostVars, packVars, stageVars, stopVars, logVars
<1>3. /\ flush[f] \in FlushRecords /\ flush[f].want \in Nat /\ flush[f].want <= Len(admitted)
      /\ flushLock = f /\ pending = 0 /\ Len(admitted) \in Nat
  BY <1>2, FlusherFacts, Zenon DEF FlusherInv
<1>4. /\ Settled' = Settled /\ Workers' = Workers /\ Numbers' = Numbers
      /\ (\A r : RouteOf(r)' = RouteOf(r)) /\ \A w : Open(w)' = Open(w)
  BY <1>2, SameLog, Zenon
<1>5. conf.workers \in Nat /\ \A r \in Numbers : RouteOf(r) \in Workers
  BY <1>0, <1>3, Routed, SMTT(30) DEF SubInv, Numbers
<1>6. new \in Barriers
  BY <1>3, <1>5, SMTT(30) DEF Barriers
<1>7. /\ barrier' \in Seq(Barriers) /\ Len(barrier') = n /\ barrier'[n] = new /\ n \in 1 .. n
      /\ \A b \in 1 .. Len(barrier) : barrier'[b] = barrier[b] /\ b \in 1 .. n /\ b < n
      /\ \A b \in 1 .. n : b \in 1 .. Len(barrier) \/ b = n
  BY <1>0, <1>1, <1>2, <1>6, BarrierFields, SMTT(30) DEF BarrierInv
<1> HIDE DEF new
<1>8. \A w \in Workers : /\ queue'[w] = Append(queue[w], BarrierItem(n))
                         /\ Range(queue'[w]) = Range(queue[w]) \cup {BarrierItem(n)}
  BY <1>0, <1>2, ItemKinds, RangeAppend, SMTT(30)
<1>9. \A w \in Workers : Items(w)' = Items(w) \cup {BarrierItem(n)} /\ Staging(w)' = Staging(w)
  BY <1>2, <1>8, Zenon DEF Items, Staging
<1>10. PlaceInv'
  <2>1. RecordItems' = RecordItems /\ PackItems' = PackItems
    BY <1>4, Zenon DEF RecordItems, PackItems
  <2>2. BarrierItems \subseteq BarrierItems' /\ BarrierItem(n) \in BarrierItems'
    BY <1>7, Zenon DEF BarrierItems, BarrierItem
  <2>3. \A s \in Seq(RecordItems \cup BarrierItems) : s \in Seq(RecordItems \cup BarrierItems')
    BY <2>2
  <2>4. \A s \in Seq(PackItems \cup BarrierItems) : s \in Seq(PackItems \cup BarrierItems')
    BY <2>2
  <2>5. \A w \in Workers : Append(queue[w], BarrierItem(n)) \in Seq(RecordItems \cup BarrierItems')
    <3> TAKE w \in Workers
    <3>1. queue[w] \in Seq(RecordItems \cup BarrierItems')
      BY <1>0, <2>3, ItemKinds, ZenonT(40)
    <3> QED BY <2>2, <3>1
  <2>6. queue' \in [Workers -> Seq(RecordItems \cup BarrierItems')]
    BY <1>2, <2>5
  <2>7. /\ hand \in [Workers -> RecordItems \cup BarrierItems' \cup {NoItem}]
        /\ shand \in [Workers -> PackItems \cup BarrierItems' \cup {NoItem}]
        /\ stageq \in [Workers -> Seq(PackItems \cup BarrierItems')]
    BY <1>0, <2>2, <2>4, ZenonT(40) DEF PlaceInv
  <2> QED BY <1>0, <1>2, <1>4, <2>1, <2>6, <2>7, ZenonT(40) DEF PlaceInv
<1>11. LineInv'
  <2>1. ASSUME NEW w \in Workers
        PROVE  InLine(barrier', shand[w], stageq[w], builder[w], hand[w], queue'[w])
    <3>1. \A y \in {shand[w], hand[w]} \cup Range(stageq[w]) \cup Range(queue[w]) :
             y.kind = "barrier" => y.n \in 1 .. Len(barrier)
      BY <1>0, ItemKinds, ItemFields, SMTT(30)
    <3>2. \A y \in {shand[w], hand[w]} \cup Range(stageq[w]) \cup Range(queue[w]) :
             y.kind = "barrier" => barrier'[y.n].target = barrier[y.n].target
      BY <1>7, <3>1, Zenon
    <3>3. InLine(barrier, shand[w], stageq[w], builder[w], hand[w], queue[w])
      BY <1>0, ZenonT(40) DEF LineInv
    <3>4. InLine(barrier', shand[w], stageq[w], builder[w], hand[w], queue[w])
      BY <1>0, <3>2, <3>3, ItemKinds, LineTargets, SMTT(30)
    <3>5. \A y \in {shand[w], hand[w]} \cup Range(stageq[w]) \cup Range(queue[w]) \cup {PackItem(builder[w])} :
             Before(barrier', y, BarrierItem(n))
      BY <1>7, <3>1, ItemRecords, ZenonT(40) DEF Before
    <3>6. AllBefore(barrier', {shand[w]} \cup Range(stageq[w]) \cup {PackItem(builder[w]), hand[w]} \cup Range(queue[w]),
                    {BarrierItem(n)})
      BY <3>5, Zenon DEF AllBefore
    <3> QED BY <1>0, <1>8, <3>4, <3>6, ItemKinds, LineJoin, ZenonT(40)
  <2> QED BY <1>2, <1>4, <2>1, SMTT(30) DEF LineInv
<1>12. OpenInv'
  <2>1. ASSUME NEW w \in Workers PROVE PairOpen(w)'
    <3>1. StageRecords(w)' = StageRecords(w) /\ RecordsIn(Items(w)') = RecordsIn(Items(w)) \cup RecordsIn({BarrierItem(n)})
      <4>1. Staging(w)' = Staging(w) /\ Items(w)' = Items(w) \cup {BarrierItem(n)}
        BY <1>9
      <4> QED BY <4>1, RecordsInJoin, ZenonT(40) DEF StageRecords
    <3>2. RecordsIn({BarrierItem(n)}) = {}
      BY RecordsInJoin, Zenon
    <3>3. Held(w)' = Held(w)
      BY <1>2, <3>1, <3>2, HeldIs, ZenonT(40)
    <3>4. PairOpen(w)
      BY PairParts, Zenon
    <3> QED BY <1>2, <1>4, <3>1, <3>3, <3>4, ZenonT(40) DEF PairOpen
  <2> QED BY <1>4, <2>1, ZenonT(40) DEF OpenInv, PairOpen
<1>13. StoredInv'
  BY <1>2, <1>4, StoredStays, Zenon
<1>14. BarrierInv'
  <2>1. Carriers(n)' = Workers
    BY <1>4, <1>9, Zenon DEF Carriers
  <2>2. \A b \in 1 .. Len(barrier) :
           /\ barrier[b].target <= Len(admitted) /\ barrier[b].completed
           /\ ~barrier[b].error => 1 .. barrier[b].target \subseteq Settled
    <3>1. \A b \in 1 .. Len(barrier) : ~barrier[b].completed => pending = b
      BY <1>0, Zenon DEF BarrierInv
    <3>2. \A b \in 1 .. Len(barrier) : b # 0
      BY SMTT(30)
    <3> QED BY <1>0, <1>3, <3>1, <3>2, ZenonT(40) DEF BarrierInv
  <2>3. /\ new.target = flush[f].want /\ ~new.completed /\ ~new.error /\ new.remaining = conf.workers
        /\ \A r \in 1 .. flush[f].want : r \in Numbers
    BY <1>3 DEF new, Numbers
  <2>4. ~latched
    BY <1>0, Zenon DEF StopInv
  <2>5. pending' \in 0 .. Len(barrier')
    BY <1>2, <1>7
  <2> SUFFICES ASSUME NEW b \in 1 .. n
               PROVE  /\ barrier'[b].target <= Len(admitted)
                      /\ barrier'[b].completed /\ ~barrier'[b].error => 1 .. barrier'[b].target \subseteq Settled
                      /\ ~barrier'[b].completed =>
                            /\ n = b /\ ~latched /\ ~barrier'[b].error
                            /\ Counts(barrier'[b].remaining, Carriers(b)')
                            /\ \A r \in 1 .. barrier'[b].target : RouteOf(r) \in Carriers(b)' \/ r \in Settled
    BY <1>2, <1>4, <1>7, <2>5, ZenonT(40) DEF BarrierInv
  <2>6. CASE b = n
    BY <1>3, <1>5, <1>7, <2>1, <2>3, <2>4, <2>6, CountsAll, ZenonT(40)
  <2>7. CASE b \in 1 .. Len(barrier)
    BY <1>7, <2>2, <2>7, Zenon
  <2> QED BY <1>7, <2>6, <2>7, Zenon
<1>15. x \in FlushRecords /\ x.pc = "own" /\ x.on = n /\ x.want = flush[f].want
  <2>1. "own" \in Returned \cup {"lock", "look", "make", "reuse", "own"}
    BY Zenon
  <2>2. x \in FlushRecords
    BY <1>3, <2>1, FlushFields, Zenon
  <2> QED BY <1>3, <2>2, Zenon DEF FlushRecords
<1>16. /\ flush' = [flush EXCEPT ![f] = x] /\ flush' \in [AllFlushers -> FlushRecords] /\ flush'[f] = x
       /\ \A g \in AllFlushers : g # f => flush'[g] = flush[g]
  BY <1>2, <1>15, FlusherFacts, Zenon
<1> HIDE DEF x
<1>17. FlushInv'
  <2>1. FlusherInv(f)'
    <3>1. n # 0 /\ barrier'[n].target = flush[f].want
      BY <1>1, <1>7, BarrierFields, <1>0, SMTT(30) DEF new
    <3> QED BY <1>2, <1>3, <1>15, <1>16, <3>1, ZenonT(40) DEF FlusherInv, Waiting
  <2>2. ASSUME NEW g \in AllFlushers, g # f PROVE FlusherInv(g)'
    <3>1. FlusherInv(g) /\ flush'[g] = flush[g]
      BY <1>16, <2>2, FlusherFacts
    <3>2. flush[g].pc \notin {"look", "make", "reuse", "own"}
      BY <1>3, <2>2, <3>1, ZenonT(40) DEF FlusherInv
    <3> QED BY <1>2, <1>4, <3>1, <3>2, ZenonT(40) DEF FlusherInv, Waiting
  <2>3. \A g \in AllFlushers : FlusherInv(g)'
    BY <2>1, <2>2, Zenon
  <2> QED BY <1>16, <2>3, Zenon DEF FlushInv, FlusherInv, FlushRecords
<1>18. StopInv'
  BY <1>0, <1>2, <1>4, ZenonT(40) DEF StopInv
<1>19. SubInv'
  BY <1>2, SubStays, Zenon
<1>20. ReleaseInv'
  <2>1. "release" \in AllFlushers
    BY Zenon DEF AllFlushers
  <2>2. flush'["release"].want = flush["release"].want
        /\ (flush["release"].pc = "idle" => flush'["release"].pc = "idle")
    BY <1>2, <1>15, <1>16, <2>1, SMTT(30)
  <2> QED BY <1>0, <1>2, <1>4, <2>2, ZenonT(40) DEF ReleaseInv
<1> QED BY <1>10, <1>11, <1>12, <1>13, <1>14, <1>17, <1>18, <1>19, <1>20, SMTT(30) DEF SinkInv

---------------------------------------------------------------------------
(* The theorems.                                                             *)

(* The sink as constructed: nothing admitted, nothing under way.             *)
LEMMA SinkStarts == SinkInit => SinkInv
<1> SUFFICES ASSUME SinkInit PROVE SinkInv
  BY Zenon
<1>1. /\ Settled = {} /\ Numbers = {} /\ Len(admitted) = 0 /\ Len(barrier) = 0 /\ admitted = <<>> /\ barrier = <<>>
      /\ persisted = <<>> /\ conf \in Scenarios
  BY RangeEmpty, SMTT(30) DEF SinkInit, Settled, Numbers
<1>2. SubInv
  BY <1>1, Routed DEF SinkInit, SubInv
<1>3. PlaceInv
  <2>1. <<>> \in Seq(RecordItems \cup BarrierItems) /\ <<>> \in Seq(Numbers) /\ <<>> \in Seq(PackItems \cup BarrierItems)
    OBVIOUS
  <2> QED BY <2>1, Zenon DEF SinkInit, PlaceInv
<1>4. LineInv
  <2>1. InLine(barrier, NoItem, <<>>, <<>>, NoItem, <<>>)
    <3>1. Sorted(barrier, <<>>) /\ Increasing(<<>>) /\ Ordered(NoItem)
      BY ItemRecords DEF Sorted, Increasing, Ordered
    <3> QED BY <3>1, RangeEmpty, NothingBefore, EmptyPackBefore, ZenonT(40) DEF InLine, AllBefore
  <2>2. \A w \in Workers : shand[w] = NoItem /\ stageq[w] = <<>> /\ builder[w] = <<>> /\ hand[w] = NoItem
                           /\ queue[w] = <<>>
    BY Zenon DEF SinkInit
  <2> QED BY <2>1, <2>2, ZenonT(40) DEF LineInv
<1>5. OpenInv
  <2>1. \A w \in Workers : shand[w] = NoItem /\ stageq[w] = <<>> /\ builder[w] = <<>> /\ hand[w] = NoItem
                           /\ queue[w] = <<>>
    BY Zenon DEF SinkInit
  <2>2. \A w \in Workers : Open(w) = {}
    BY <1>1, ZenonT(40) DEF Open
  <2>3. \A w \in Workers : Held(w) = {}
    BY <2>1, RangeEmpty, ItemRecords, SMTT(30) DEF Held
  <2> QED BY <2>2, <2>3, ZenonT(40) DEF OpenInv
<1>6. StoredInv
  BY <1>1, RangeEmpty, SMTT(30) DEF StoredInv
<1>7. BarrierInv
  BY <1>1, SMTT(30) DEF SinkInit, BarrierInv
<1>8. FlushInv
  BY <1>1 DEF SinkInit, FlushInv, Waiting, Returned
<1>9. StopInv
  BY Zenon DEF SinkInit, StopInv
<1>10. ReleaseInv
  BY Zenon DEF SinkInit, ReleaseInv
<1> QED BY <1>2, <1>3, <1>4, <1>5, <1>6, <1>7, <1>8, <1>9, <1>10, SMTT(30) DEF SinkInv

(* Every step of the record worker, the packers, the stagers, the flushers,  *)
(* the engine and the destructor keeps the invariant.                        *)
LEMMA SinkSteps == SinkInv /\ [SinkNext]_svars => SinkInv'
<1> SUFFICES ASSUME SinkInv, [SinkNext]_svars PROVE SinkInv'
  BY Zenon
<1>1. CASE SinkNext
  <2>0. Fixed
    BY <1>1, Zenon DEF SinkNext
  <2>1. CASE SubmitStep
    BY <2>0, <2>1, SubmitStartKeeps, SubmitAdmitKeeps, WaitKeeps, SMTT(30) DEF SubmitStep
  <2>2. ASSUME NEW w \in Workers, LingerDue(w) \/ PackerStep(w) PROVE SinkInv'
    BY <2>0, <2>2, WaitKeeps, IdleKeeps, PackerPopKeeps, SealForStagerKeeps, ForwardBarrierKeeps,
       PackerAppendKeeps, PackerFailsKeeps, SMTT(30) DEF PackerStep
  <2>3. ASSUME NEW w \in Workers, StagerStep(w) PROVE SinkInv'
    BY <2>0, <2>3, IdleKeeps, StagerPopKeeps, StagerBarrierKeeps, StageOkKeeps, StageFailsKeeps, SMTT(30) DEF StagerStep
  <2>4. ASSUME NEW f \in AllFlushers, FlushBegin(f) \/ FlushStep(f) \/ FlushTimeout(f) PROVE SinkInv'
    BY <2>0, <2>4, WaitKeeps, FlushBeginKeeps, FlushLockKeeps, FlushLookKeeps, FlushMakeKeeps, FlushGivesUpKeeps,
       FlushDoneKeeps, SMTT(30) DEF FlushStep
  <2>5. CASE EngineRelease \/ ReleaseSealed \/ EngineAcquire
    BY <2>0, <2>5, EngineKeeps, SMTT(30)
  <2>6. CASE Close \/ CloseStep
    BY <2>0, <2>6, CloseKeeps, SMTT(30) DEF CloseStep
  <2> QED BY <1>1, <2>1, <2>2, <2>3, <2>4, <2>5, <2>6, ZenonT(40) DEF SinkNext
<1>2. CASE UNCHANGED svars
  <2>1. /\ UNCHANGED <<conf, queue, hand, builder, stageq, shand, barrier, admitted, persisted,
                       duplicate, oversized, latched, wpc, spc, pending>>
        /\ UNCHANGED <<sub, flush, flushLock, closed, stageClosed, cpc, attached, sealed>>
    BY <1>2, Zenon DEF svars, hostVars, packVars, stageVars, stopVars, flushVars, logVars
  <2>2. Settled' = Settled
    BY <2>1, SameLog, Zenon
  <2> QED BY <2>1, <2>2, StillStep, SubStays, FlushersStill, StopStays, ReleaseStays, SMTT(30) DEF SinkInv
<1> QED BY <1>1, <1>2, Zenon

(* The invariant holds in every reachable state: every pair keeps what it    *)
(* holds in one line, in the order of admission, behind the barriers that    *)
(* wait for it.                                                              *)
THEOREM SinkHolds == SinkSpec => []SinkInv
  BY SinkStarts, SinkSteps, PTL DEF SinkSpec

(* What ReturnedIsDurable says follows from the invariant.                   *)
LEMMA ReturnedFollows == SinkInv => ReturnedIsDurable
<1> SUFFICES ASSUME SinkInv PROVE ReturnedIsDurable
  BY Zenon
<1>1. ASSUME NEW f \in AllFlushers, flush[f].pc = "ok", NEW i \in 1 .. flush[f].want
      PROVE  admitted[i] \in Settled
  <2>1. i \in Settled /\ i \in Numbers
    BY <1>1, FlusherFacts DEF FlusherInv, Numbers
  <2> QED BY <2>1, ZenonT(40) DEF SinkInv, SubInv
<1>2. ASSUME sealed, NEW w \in Workers PROVE Held(w) = {}
  <2>1. Open(w) = {}
    BY <1>2, ZenonT(40) DEF SinkInv, ReleaseInv, Open
  <2> QED BY <2>1, PairParts, ZenonT(40) DEF PairOpen
<1>3. ASSUME cpc = "done", ~latched PROVE Range(admitted) \subseteq Settled
  <2>1. ASSUME NEW w \in Workers PROVE Open(w) = {}
    <3>1. PairStop(w) /\ spc[w] = "dead" /\ wpc[w] = "dead"
      BY <1>3, <2>1, PairParts, SMTT(30) DEF PairStop
    <3>2. /\ queue[w] = <<>> /\ hand[w] = NoItem /\ builder[w] = <<>> /\ stageq[w] = <<>>
          /\ shand[w] = NoItem
      BY <1>3, <3>1, SMTT(30) DEF PairStop, SinkInv, PlaceInv
    <3>3. Held(w) = {}
      BY <3>2, RangeEmpty, ItemRecords, SMTT(30) DEF Held
    <3> QED BY <1>3, <3>3, PairParts, SMTT(30) DEF PairOpen
  <2>2. \A r \in Numbers : RouteOf(r) \in Workers
    BY Routed, SMTT(30) DEF SinkInv, SubInv, Numbers
  <2>3. Numbers \subseteq Settled
    BY <2>1, <2>2, ZenonT(40) DEF Open
  <2>4. Range(admitted) \subseteq Numbers
    BY DEF SinkInv, SubInv, Numbers, Range
  <2> QED BY <2>3, <2>4, ZenonT(40)
<1> QED BY <1>1, <1>2, <1>3, ZenonT(40) DEF ReturnedIsDurable

(* For any number of pairs, any routes, records, queue bounds and flushers,  *)
(* failures and timeouts included: a Flush() that returned true has made     *)
(* durable, or counted as lost, every record admitted before it was called;  *)
(* a sink sealed on release has nothing left to write; and a sink closed     *)
(* without a failure has stored or counted all it admitted.                  *)
THEOREM FlushedIsDurable == SinkSpec => []ReturnedIsDurable
  BY SinkHolds, ReturnedFollows, PTL

(* What ScopeOrder says follows from the invariant.                          *)
LEMMA OrderFollows == SinkInv => ScopeOrder
<1> SUFFICES ASSUME SinkInv, NEW i \in DOMAIN admitted, NEW j \in DOMAIN admitted, i < j,
                    Script[admitted[i]].scope = Script[admitted[j]].scope, admitted[j] \in Range(persisted)
             PROVE  /\ admitted[i] \in Settled
                    /\ \A k, l \in DOMAIN persisted :
                          persisted[k] = admitted[i] /\ persisted[l] = admitted[j] => k < l
  BY ZenonT(40) DEF ScopeOrder
<1>1. /\ DOMAIN admitted = Numbers /\ admitted[i] = i /\ admitted[j] = j /\ i \in Nat /\ j \in Nat
      /\ RouteOf(i) = RouteOf(j) /\ StoredInv
  BY SMTT(30) DEF SinkInv, SubInv, Numbers, RouteOf
<1>2. i \in Settled
  BY <1>1 DEF StoredInv
<1>3. ASSUME NEW k \in DOMAIN persisted, NEW l \in DOMAIN persisted, persisted[k] = i, persisted[l] = j
      PROVE  k < l
  <2>1. k \in Nat /\ l \in Nat
    BY <1>1, SMTT(30) DEF StoredInv
  <2>2. ~(l < k) /\ l # k
    BY <1>1, <1>3, SMTT(30) DEF StoredInv
  <2> QED BY <2>1, <2>2, SMTT(30)
<1> QED BY <1>1, <1>2, <1>3, ZenonT(40)

(* Per-scope ordering: no record of a scope becomes durable before one of    *)
(* the same scope admitted earlier, nor while that one is still on its way,  *)
(* whatever fails.                                                           *)
THEOREM ScopesKeepOrder == SinkSpec => []ScopeOrder
  BY SinkHolds, OrderFollows, PTL
=============================================================================
