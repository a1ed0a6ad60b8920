------------------------- MODULE PackSinkInvariant --------------------------
(***************************************************************************)
(* The inductive invariant behind ReturnedIsDurable and ScopeOrder.        *)
(*                                                                         *)
(* Records are admitted in the order of their numbers, and everything a    *)
(* packer/stager pair holds stands in one line: the stager's item, its     *)
(* queue, the open pack, the packer's item, the packer's queue.  The line  *)
(* is sorted, and no record in it behind a barrier is one the barrier was  *)
(* made for.                                                               *)
(***************************************************************************)
EXTENDS PackSink

\* The pair a record is routed to, and the records admitted and not settled.
RouteOf(r) == conf.route[Script[r].scope]
Numbers == 1 .. Len(admitted)
Open(w) == {r \in Numbers \ Settled : RouteOf(r) = w}

\* What stands ahead: smaller records, older barriers, and a barrier ahead of
\* the records it was not made for.
Before(bs, x, y) ==
    /\ \A r \in RecordsOf(x), s \in RecordsOf(y) : r < s
    /\ x.kind = "barrier" => \A s \in RecordsOf(y) : bs[x.n].target < s
    /\ x.kind = "barrier" /\ y.kind = "barrier" => x.n < y.n
AllBefore(bs, xs, ys) == \A x \in xs, y \in ys : Before(bs, x, y)
Sorted(bs, s) == \A i, j \in DOMAIN s : i < j => Before(bs, s[i], s[j])

Increasing(p) == \A i, j \in DOMAIN p : i < j => p[i] < p[j]
Ordered(x) == x.kind = "pack" => Increasing(x.n)

\* One line, from the front: the stager's item sh and queue sq, the open pack
\* bd, the packer's item h and queue q.
InLine(bs, sh, sq, bd, h, q) ==
    /\ Sorted(bs, sq) /\ Sorted(bs, q)
    /\ AllBefore(bs, {sh}, Range(sq) \cup {PackItem(bd), h} \cup Range(q))
    /\ AllBefore(bs, Range(sq), {PackItem(bd), h} \cup Range(q))
    /\ AllBefore(bs, {PackItem(bd)}, {h} \cup Range(q))
    /\ AllBefore(bs, {h}, Range(q))
    /\ Ordered(sh) /\ Increasing(bd) /\ \A x \in Range(sq) : Ordered(x)

\* What is with the stager of pair w, the items of its line, and the records
\* the stager may still store.
Staging(w) == {shand[w]} \cup Range(stageq[w])
Items(w) == Staging(w) \cup {hand[w]} \cup Range(queue[w])
StageRecords(w) == UNION {RecordsOf(x) : x \in Staging(w)}

RecordItems == [kind : {"record"}, n : Numbers]
BarrierItems == [kind : {"barrier"}, n : 1 .. Len(barrier)]
PackItems == [kind : {"pack"}, n : Seq(Numbers)]

SubInv ==
    /\ conf \in Scenarios
    /\ sub \in [pc : {"idle", "admit", "stopped"}, sent : Nat]
    /\ admitted \in Seq(Nat) /\ \A i \in Numbers : admitted[i] = i
    /\ Len(admitted) <= Len(Script)
    /\ sub.pc # "stopped" => sub.sent = Len(admitted) /\ Settled \subseteq Numbers
    /\ sub.pc = "admit" => attached /\ sub.sent < Len(Script)

PlaceInv ==
    /\ queue \in [Workers -> Seq(RecordItems \cup BarrierItems)]
    /\ hand \in [Workers -> RecordItems \cup BarrierItems \cup {NoItem}]
    /\ builder \in [Workers -> Seq(Numbers)]
    /\ stageq \in [Workers -> Seq(PackItems \cup BarrierItems)]
    /\ shand \in [Workers -> PackItems \cup BarrierItems \cup {NoItem}]
    /\ wpc \in [Workers -> {"wait", "item", "seal", "exit", "dead"}]
    /\ spc \in [Workers -> {"wait", "item", "dead"}]
    /\ \A w \in Workers : /\ wpc[w] \in {"wait", "seal", "exit"} => hand[w] = NoItem
                          /\ spc[w] \in {"wait", "dead"} => shand[w] = NoItem

LineInv ==
    \A w \in Workers : InLine(barrier, shand[w], stageq[w], builder[w], hand[w], queue[w])

\* Every record in the line is open and in its pair's line; while both threads
\* live every open record is in the line; and a record a packer lost comes
\* behind all that its stager may still store.
OpenInv ==
    \A w \in Workers :
        /\ Held(w) \subseteq Open(w)
        /\ wpc[w] # "dead" /\ spc[w] # "dead" => Open(w) \subseteq Held(w)
        /\ ~latched => Open(w) \subseteq Held(w)
        /\ spc[w] # "dead" =>
              \A r \in Open(w) \ StageRecords(w), s \in StageRecords(w) : s < r

\* What is stored is behind nothing that is open, and stored in order.
StoredInv ==
    /\ persisted \in Seq(Nat) /\ Range(persisted) \subseteq Numbers
    /\ \A s \in Range(persisted), r \in Numbers \ Settled : RouteOf(r) = RouteOf(s) => s < r
    /\ \A k, l \in DOMAIN persisted :
          k < l /\ RouteOf(persisted[k]) = RouteOf(persisted[l]) => persisted[k] < persisted[l]

\* The pairs a copy of barrier b is still under way in, and a counter that is
\* not below their number.
Carriers(b) == {w \in Workers : BarrierItem(b) \in Items(w)}
Counts(n, S) == \E f \in [S -> 1 .. n] : \A u, v \in S : f[u] = f[v] => u = v
Barriers == [target : Nat, completed : BOOLEAN, error : BOOLEAN, remaining : Int]
BarrierInv ==
    /\ barrier \in Seq(Barriers)
    /\ pending \in 0 .. Len(barrier)
    /\ \A b \in 1 .. Len(barrier) :
          /\ barrier[b].target <= Len(admitted)
          /\ barrier[b].completed /\ ~barrier[b].error => 1 .. barrier[b].target \subseteq Settled
          /\ ~barrier[b].completed =>
                /\ pending = b /\ ~latched /\ ~barrier[b].error
                /\ Counts(barrier[b].remaining, Carriers(b))
                /\ \A r \in 1 .. barrier[b].target : RouteOf(r) \in Carriers(b) \/ r \in Settled

FlushInv ==
    /\ flush \in [AllFlushers -> [pc : Returned \cup {"lock", "look", "make", "reuse", "own"},
                                  want : Nat, on : Nat, calls : Nat]]
    /\ \A f \in AllFlushers :
          /\ flush[f].want <= Len(admitted)
          /\ flush[f].pc \in {"look", "make", "reuse", "own"} => flushLock = f
          /\ flush[f].pc = "make" => pending = 0
          /\ Waiting(f) => flush[f].on = pending /\ pending # 0
          /\ flush[f].pc = "own" => barrier[flush[f].on].target = flush[f].want
          /\ flush[f].pc = "ok" => 1 .. flush[f].want \subseteq Settled

StopInv ==
    /\ latched => closed
    /\ \A w \in Workers :
          /\ wpc[w] \in {"exit", "dead"} =>
                closed /\ (latched \/ (queue[w] = <<>> /\ hand[w] = NoItem))
          /\ wpc[w] = "dead" => latched \/ builder[w] = <<>>
          /\ spc[w] = "dead" => latched \/ (stageClosed /\ stageq[w] = <<>>)
    /\ stageClosed => \A w \in Workers : wpc[w] = "dead"
    /\ cpc = "done" => \A w \in Workers : spc[w] = "dead"

\* Nothing is admitted while no engine owns the sink.
ReleaseInv ==
    /\ ~attached => /\ sub.pc # "admit"
                    /\ flush["release"].pc # "idle" => flush["release"].want = Len(admitted)
    /\ sealed => Numbers \subseteq Settled /\ ~attached

SinkInv ==
    /\ SubInv /\ PlaceInv /\ LineInv /\ OpenInv /\ StoredInv /\ BarrierInv /\ FlushInv
    /\ StopInv /\ ReleaseInv
=============================================================================
