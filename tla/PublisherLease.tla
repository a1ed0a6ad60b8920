--------------------------- MODULE PublisherLease ---------------------------
(***************************************************************************)
(* The publisher lease of the capture catalog: ClickHouseLeaseCoordinator   *)
(* (clickhouse_lease.py) and the lease half of ClickHouseCatalogWriter       *)
(* (clickhouse_catalog.py), whose _serial lock gives every writer one call   *)
(* at a time.  Several writers claim terms in one ClickHouse table.  A       *)
(* statement that was sent lands when the server gets to it, also after its  *)
(* writer gave up on it or crashed.  Clocks of different server hosts        *)
(* disagree by up to Skew.  csrc/catalog/lease_coordinator.cpp follows the   *)
(* same protocol.                                                            *)
(***************************************************************************)
EXTENDS Integers, FiniteSets, FiniteSetsExt

CONSTANTS
    Writers,
    Ids,         \* lease ids; uuid4 draws any unused one
    Scenarios    \* the configurations and bounds of a behaviour

(* ClickHouseCatalogConfig: lease_ttl_ns, publish_timeout_ns (sent to the   *)
(* server as max_execution_time) and clock_skew_ns; and bounds: the lease    *)
(* ids there are, errors, crashes, time.                                     *)
LeaseFields == {"ttl", "timeout", "skew", "ids", "faults", "crashes", "time"}

(* __post_init__ and _validate_lease: a statement is capped, and a lease       *)
(* outlives a publish statement and the clock skew.                            *)
ValidLease(c) ==
    /\ c.ttl \in Nat /\ c.timeout \in Nat \ {0} /\ c.skew \in Nat
    /\ c.ttl > c.timeout + c.skew

ASSUME LeaseAssumption ==
    /\ Ids \subseteq Nat
    /\ \A c \in Scenarios :
         /\ LeaseFields \subseteq DOMAIN c /\ ValidLease(c)
         /\ c.ids \subseteq Ids /\ {c.faults, c.crashes, c.time} \subseteq Nat

VARIABLES
    conf,        \* the configuration, the same for every writer
    now,         \* the slowest server clock
    rows,        \* publisher_lease: set of [term, id, exp]
    used,        \* lease ids drawn so far
    held,        \* writer -> the lease it believes it holds, [term, id]
    claim,       \* writer -> the claim under way, [term, id]
    next,        \* writer -> what follows the claim under way
    until,       \* writer -> end of its quarantine
    pc,          \* writer -> its next step
    flight,      \* statements the server has not finished with
    faults, crashes

leaseVars == <<rows, used, held, claim, next, until, pc>>
countVars == <<faults, crashes>>

TTL == conf.ttl
PublishTimeout == conf.timeout
Skew == conf.skew

NoLease == [term |-> 0, id |-> -1]
Holds(w) == held[w] # NoLease
Goes(w, step) == pc' = [pc EXCEPT ![w] = step]

(* A statement: who sent it, whether the writer still waits for it, and, of *)
(* a fenced one that was admitted, by when the server ends it.              *)
Statement(kind, w, term, id, version, pub, packs) ==
    [kind |-> kind, by |-> w, term |-> term, id |-> id, version |-> version,
     pub |-> pub, packs |-> packs, heard |-> TRUE, ends |-> 0]
LeaseStatement(kind, w, lease) == Statement(kind, w, lease.term, lease.id, 0, 0, {})
Sends(w, s) == flight' = flight \cup {s} /\ Goes(w, "await")
Finish(s) == flight' = flight \ {s}
(* The writer, if it still waits, goes on.                                  *)
Answers(s, step) == pc' = IF s.heard THEN [pc EXCEPT ![s.by] = step] ELSE pc

(* now64() of the host that runs a statement.                               *)
Clock == {now, now + Skew}

(* head(): the claimants of the highest term; a release's tombstone shares  *)
(* its term and id, and the earliest expiry counts.                         *)
HeadTerm == Max({0} \cup {r.term : r \in rows})
HeadRows == {r \in rows : r.term = HeadTerm}
HeadIds == {r.id : r \in HeadRows}
LivesPast(id, t) == \A r \in HeadRows : r.id = id => r.exp > t

(* _reject_live: while the head lives only its single claimant may go on.   *)
RejectLive(id, t) == (\E i \in HeadIds : LivesPast(i, t)) /\ HeadIds # {id}

(* fence(): the head's highest id is ours, and lives long enough for the    *)
(* statement to end first.                                                  *)
Leads(id) == id \in HeadIds /\ \A i \in HeadIds : i <= id
(* Mutant: the statement's own run time is not reserved.                    *)
FenceUntimed(id, t) == Leads(id) /\ LivesPast(id, t + Skew)
Fence(id, t) == Leads(id) /\ LivesPast(id, t + PublishTimeout + Skew)

LeaseInit ==
    /\ conf \in Scenarios
    /\ now = 1 /\ rows = {} /\ used = {} /\ flight = {}
    /\ held = [w \in Writers |-> NoLease] /\ claim = held
    /\ next = [w \in Writers |-> "ready"] /\ pc = [w \in Writers |-> "idle"]
    /\ until = [w \in Writers |-> 0]
    /\ faults = 0 /\ crashes = 0

(* claim() up to its INSERT: the head is read and refused or the next term  *)
(* claimed under id.                                                        *)
Claim(w, id, then) ==
    \E t \in Clock :
       IF RejectLive(id, t)
       THEN /\ held' = [held EXCEPT ![w] = NoLease] /\ Goes(w, "idle")
            /\ UNCHANGED <<claim, next, flight>>
       ELSE LET c == [term |-> HeadTerm + 1, id |-> id] IN
            /\ claim' = [claim EXCEPT ![w] = c] /\ next' = [next EXCEPT ![w] = then]
            /\ Sends(w, LeaseStatement("claim", w, c))
            /\ UNCHANGED held

(* acquire_publisher_lease of a writer without one: a fresh id, once its     *)
(* quarantine is over.  (With one, it is a renewal.)                        *)
Acquire(w) ==
    /\ pc[w] = "idle" /\ ~Holds(w) /\ now >= until[w]
    /\ until' = [until EXCEPT ![w] = 0]
    /\ \E id \in conf.ids \ used :
         /\ Claim(w, id, "ready")
         /\ used' = IF flight' = flight THEN used ELSE used \cup {id}
    /\ UNCHANGED <<conf, now, rows, countVars>>

(* renew_publisher_lease, before every fenced statement.                    *)
Renew(w, then) ==
    /\ Claim(w, held[w].id, then)
    /\ UNCHANGED <<conf, now, rows, used, until, countVars>>

(* Rows below the head keep no expiry: nothing reads it any more.           *)
Stamp(s, exp) ==
    LET all == rows \cup {[term |-> s.term, id |-> s.id, exp |-> exp]}
        top == Max({r.term : r \in all})
    IN rows' = {IF r.term < top THEN [r EXCEPT !.exp = 0] ELSE r : r \in all}

(* The claim INSERT lands; its row is stamped then, not when it was sent.   *)
ClaimLands(s) ==
    /\ s.kind = "claim"
    /\ \E t \in Clock : Stamp(s, t + TTL)
    /\ Finish(s) /\ Answers(s, "readback")
    /\ UNCHANGED <<conf, now, used, held, claim, next, until, countVars>>

NoClaim(w) == claim' = [claim EXCEPT ![w] = NoLease] /\ next' = [next EXCEPT ![w] = "ready"]

(* The read-back of the claimed term: ours alone, or not ours.              *)
ClaimReadBack(w) ==
    /\ pc[w] = "readback"
    /\ IF {r.id : r \in {x \in rows : x.term = claim[w].term}} = {claim[w].id}
       THEN held' = [held EXCEPT ![w] = claim[w]] /\ Goes(w, next[w])
       ELSE held' = [held EXCEPT ![w] = NoLease] /\ Goes(w, "idle")
    /\ NoClaim(w)
    /\ UNCHANGED <<conf, now, rows, used, until, flight, countVars>>

(* release: a tombstone at the holder's own term.                           *)
Release(w) ==
    /\ pc[w] = "ready" /\ Holds(w)
    /\ Sends(w, LeaseStatement("release", w, held[w]))
    /\ UNCHANGED <<conf, now, rows, used, held, claim, next, until, countVars>>
ReleaseLands(s) ==
    /\ s.kind = "release"
    /\ \E t \in Clock : Stamp(s, t)
    /\ held' = IF s.heard THEN [held EXCEPT ![s.by] = NoLease] ELSE held
    /\ Finish(s) /\ Answers(s, "idle")
    /\ UNCHANGED <<conf, now, used, claim, next, until, countVars>>

(* _quarantine_locked: discard the lease without a tombstone, wait out the  *)
(* TTL.                                                                     *)
Quarantine(w) ==
    /\ held' = [held EXCEPT ![w] = NoLease]
    /\ until' = [until EXCEPT ![w] = now + TTL]
    /\ Goes(w, "idle")

Fault == faults < conf.faults /\ faults' = faults + 1

(* What is in flight goes on without a listener.                            *)
Unheard(w) == {IF s.by = w THEN [s EXCEPT !.heard = FALSE] ELSE s : s \in flight}

(* A writer gives up on a statement whose outcome it does not know.  A      *)
(* release and commit_packs run outside what quarantines a writer: they     *)
(* leave it its lease.                                                      *)
GiveUp(w) ==
    /\ pc[w] = "await" /\ Fault
    /\ flight' = Unheard(w)
    /\ IF \E s \in flight : s.by = w /\ s.heard /\ s.kind \in {"release", "inventory"}
       THEN Goes(w, "ready") /\ UNCHANGED <<held, until>>
       ELSE Quarantine(w)
    /\ NoClaim(w)
    /\ UNCHANGED <<conf, now, rows, used, crashes>>

(* The writer's process dies; another starts in its place.                  *)
Crash(w) ==
    /\ crashes < conf.crashes /\ crashes' = crashes + 1
    /\ held' = [held EXCEPT ![w] = NoLease] /\ until' = [until EXCEPT ![w] = 0]
    /\ flight' = Unheard(w) /\ Goes(w, "idle") /\ NoClaim(w)
    /\ UNCHANGED <<conf, now, rows, used, faults>>

(* Time passes, but a fenced statement ends within its max_execution_time.  *)
Running == {s \in flight : s.ends # 0}
Tick ==
    /\ now < conf.time /\ \A s \in Running : s.ends > now
    /\ now' = now + 1
    /\ UNCHANGED <<conf, leaseVars, flight, countVars>>
=============================================================================
