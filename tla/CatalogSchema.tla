---------------------------- MODULE CatalogSchema ----------------------------
(***************************************************************************)
(* ClickHouseCatalogSchema: creating, verifying and dropping the objects   *)
(* of one catalog prefix.                                                  *)
(*                                                                         *)
(* ensure() is a sequence of statements, none of them in a transaction: it *)
(* reads system.tables, decides from what it read and from a few probes    *)
(* whether the prefix is fresh, an unfinished install of this build or a   *)
(* complete catalog, creates what is missing with IF NOT EXISTS, reads     *)
(* the layout again and only then writes the stamp.  Other processes of    *)
(* this build run the same statements at the same time, an older build     *)
(* creates its own tables without any lease, an operator drops the objects *)
(* one by one, and every one of them may die between two statements.       *)
(*                                                                         *)
(* The two views are one object.  An object's layout is "right", "old"     *)
(* (the sort key of an earlier build), "bare" (an engine without its       *)
(* version argument) or "kind" (a table where a view should stand).  Rows  *)
(* are the packs a table tells of.  The publisher lease is modelled in     *)
(* PublisherLease with its statements in flight; here a claim is the read  *)
(* of the head, the insert and the read back, and a row's expiry the retry *)
(* intervals left until then.                                              *)
(***************************************************************************)
EXTENDS Integers, Sequences, FiniteSets, FiniteSetsExt

CONSTANTS
    Processes,   \* processes of this build that call ensure()
    Packs,       \* packs this build indexes
    OldPacks,    \* packs the older build indexes
    Ttl,         \* lease_ttl_ns in retry intervals
    Margin,      \* _INSTALL_LEASE_MARGIN_S in retry intervals
    Scenarios    \* records bounding what else happens; see Init

ASSUME SchemaAssumption == Ttl \in Nat \ {0} /\ Margin \in Nat

\* SCHEMA_VERSION of this build; a stamp of any other version is Other.
Version == "v4"
Other == "other"

\* self.objects in the order of the tuple, which is the order of drop().
Objects == <<"views", "capture", "pack", "claims", "lease", "watermark",
             "manifest", "stamp">>
Legacy == <<"log">>
Named == {(Objects \o Legacy)[k] : k \in 1..9}
Tables == Named \ {"views", "log"}

\* The tables that hold catalog data, and the order _lay_out creates in.
DataTables == {"capture", "pack", "watermark", "manifest", "log"}
LayoutOrder == <<"capture", "pack", "watermark", "claims", "manifest", "views">>

VARIABLES
    conf,     \* the scenario
    obj,      \* each name's layout, or "absent"
    stamps,   \* the versions the stamp table records
    rows,     \* the packs each data table holds rows of
    lease,    \* the lease table, [term, by, left]: who claimed which term, and
              \* the intervals left of a claim at the highest term
    proc,     \* each process's progress through ensure() and its coordinator:
              \* holds and term are its _lease, or the claim under way
    spent     \* how often each bounded event has happened

vars == <<conf, obj, stamps, rows, lease, proc, spent>>

NoRows == [t \in DataTables |-> {}]
Blank == [n \in Named |-> "absent"]
Idle == [pc |-> "idle", found |-> Blank, caller |-> "start", serial |-> FALSE,
         holds |-> FALSE, borrowed |-> FALSE, term |-> 0, at |-> 1, tries |-> 0]

\* Calls that have returned or raised: "held" is PublisherLeaseHeldError,
\* "lost" the PublisherLeaseError of a claim that was not recorded.
Ended == {"idle", "ready", "refused", "held", "lost", "dead"}

Init ==
    /\ conf \in Scenarios
    /\ obj = conf.obj
    /\ stamps = conf.stamps
    /\ rows = [NoRows EXCEPT !["capture"] = conf.rows, !["pack"] = conf.rows]
    /\ lease = {}
    /\ proc = [p \in Processes |-> Idle]
    /\ spent = [crash |-> 0, old |-> 0, drop |-> 0, dropping |-> 0, restart |-> 0, claim |-> 0]

Present(found) == {n \in Named : found[n] # "absent"}

\* _reject_wrong_kinds, _reject_a_wrong_sort_key and _reject_a_wrong_engine:
\* key columns are compared as columns and an engine by whether a merge keeps
\* the newest row, never by their text.
KeyColumnsAgree(layout) == layout # "old"
KeepsNewestByIndexVersion(layout) == layout # "bare"

WrongKind(found) == \E n \in Named : found[n] = "kind"
WrongSortKey(found) == \E t \in {"capture", "pack"} : ~KeyColumnsAgree(found[t])
WrongEngine(found) == \E t \in {"capture", "pack"} : ~KeepsNewestByIndexVersion(found[t])
WrongLayout(found) == WrongSortKey(found) \/ WrongEngine(found)

\* The refusals that tell whose catalog it is: only objects of an earlier
\* build, a catalog without the stamp table, an earlier build's object beside
\* this build's, another version's stamp.
LeftoversOnly(found) == Present(found) \subseteq {"log"}
Unstamped(found) == "stamp" \notin Present(found)
LegacyBeside(found) == "log" \in Present(found)
OtherVersionRecorded == stamps \notin {{}, {Version}}

\* _holds_catalog_data: a surviving data table holds a row.
HoldsData(found) ==
    \E t \in DataTables \cap Present(found) : rows[t] # {}

\* _inventory_without_membership: a pack that is marked indexed and belongs
\* to no snapshot.  A manifest row counts when its publish is a watermark.
Members == rows["manifest"] \cap rows["watermark"]
InventoryWithoutMembership == ~(rows["pack"] \subseteq Members)

\* Statements that read a table which has been dropped raise instead.
Reads(names) == \A n \in names : obj[n] # "absent"

\* _verify_compatibility over the state `found`, its probes read now.  The
\* mutant recreates tables empty beside ones that kept their rows.
Refuses(found) ==
    \/ WrongKind(found) \/ LeftoversOnly(found) \/ Unstamped(found)
    \/ ~Reads({"stamp"}) \/ OtherVersionRecorded \/ LegacyBeside(found)

VerdictRecreates(found) ==
    CASE Present(found) = {} -> "fresh"
      [] Present(found) # {} /\ Refuses(found) -> "refused"
      [] Tables \subseteq Present(found) /\ ~WrongLayout(found) -> "complete"
      [] OTHER -> "incomplete"

Verdict(found) ==
    LET missing == Tables \ Present(found) IN
    CASE Present(found) = {} -> "fresh"
      [] Present(found) # {} /\ Refuses(found) -> "refused"
      [] missing # {} /\ ~Refuses(found) ->
            IF ~Reads(DataTables \cap Present(found)) \/ HoldsData(found)
            THEN "refused" ELSE "incomplete"
      [] missing = {} /\ (Refuses(found) \/ WrongLayout(found)) -> "refused"
      [] OTHER -> IF ~Reads({"pack", "manifest", "watermark"})
                     \/ InventoryWithoutMembership
                  THEN "refused" ELSE "complete"

\* _confirm_catalog_is_complete: every object, right in kind and layout, and
\* nothing superseded beside them.  The mutant trusts names and kinds only.
ConfirmsNames(found) ==
    Present(found) = Named \ {"log"} /\ ~WrongKind(found)

Confirms(found) ==
    /\ Present(found) = Named \ {"log"}
    /\ ~WrongKind(found)
    /\ ~WrongLayout(found)

\* CREATE ... IF NOT EXISTS.
Create(n, layout) ==
    obj' = [obj EXCEPT ![n] = IF @ = "absent" THEN layout ELSE @]

\* Leaving ensure(): the finally clause gives back a lease it took itself, with
\* a row that ends the claim at its own term.  A borrowed one stays.
Leave(p, how) ==
    LET me == proc[p]
        keeps == me.holds /\ me.borrowed
        given(c) == me.holds /\ ~keeps /\ c.by = p /\ c.term = me.term IN
    /\ proc' = [proc EXCEPT ![p] = [Idle EXCEPT !.pc = how, !.holds = keeps,
                                               !.term = IF keeps THEN me.term ELSE 0]]
    /\ lease' = {IF given(c) THEN [c EXCEPT !.left = 0] ELSE c : c \in lease}
    /\ UNCHANGED <<conf, obj, stamps, rows, spent>>

\* ensure(): _catalog_state is read first and refuses nothing.  A role that
\* may not see the objects is then refused before any verdict.
Ensure(p) ==
    /\ proc[p].pc = "idle" /\ spent.dropping = 0
    /\ proc' = [proc EXCEPT ![p] =
          IF conf.visible THEN [@ EXCEPT !.pc = "verify", !.found = obj, !.borrowed = proc[p].holds]
          ELSE [@ EXCEPT !.pc = "refused"]]
    /\ UNCHANGED <<conf, obj, stamps, rows, lease, spent>>

\* The state read again, by a waiter whose attempt on the lease was refused
\* and by the holder once it has the lease.
ReadState(p) ==
    /\ proc[p].pc = "read"
    /\ proc' = [proc EXCEPT ![p].pc = "verify", ![p].found = obj]
    /\ UNCHANGED <<conf, obj, stamps, rows, lease, spent>>

\* _take_the_install_lease waits one TTL and a margin, counted in attempts.
Attempts == Ttl + Margin

\* What follows a refused attempt on the lease.  The mutant never gives up.
AfterHeldForever(me, verdict) ==
    IF verdict = "complete" THEN "tables" ELSE "sleep"

AfterHeld(me, verdict) ==
    CASE verdict = "complete" -> "tables"
      [] verdict # "complete" /\ me.tries = Attempts -> "held"
      [] OTHER -> "sleep"

\* What follows each of the three verdicts ensure() asks for.
Verify(p) ==
    LET me == proc[p]
        verdict == Verdict(me.found)
        next == CASE me.caller = "start" -> "tables"
                  [] me.caller = "held" -> AfterHeld(me, verdict)
                  [] me.caller = "lease" -> "layout"
    IN
    /\ me.pc = "verify"
    /\ IF verdict = "refused" \/ next = "held"
       THEN Leave(p, IF verdict = "refused" THEN "refused" ELSE "held")
       ELSE /\ proc' = [proc EXCEPT ![p].pc = next, ![p].found = Blank,
                                    ![p].serial = me.caller = "lease" \/ verdict # "complete"]
            /\ UNCHANGED <<conf, obj, stamps, rows, lease, spent>>

\* _create_stamp_and_lease_tables, and _lay_out: one statement a step.  An
\* install goes for the lease after the first two, the completion of a
\* complete catalog goes on.
Statements == <<"stamp", "lease">> \o LayoutOrder

BeforeLease == {"stamp", "lease"}

Statement(p) ==
    LET me == proc[p]
        last == me.at = Len(Statements)
        leased == Statements[me.at + 1] \notin BeforeLease IN
    /\ me.pc \in {"tables", "layout"}
    /\ Create(Statements[me.at], "right")
    /\ proc' = [proc EXCEPT ![p].at = @ + 1, ![p].pc =
                   CASE last -> "confirm"
                     [] ~last /\ me.pc = "tables" /\ me.serial /\ leased -> "acquire"
                     [] OTHER -> @]
    /\ UNCHANGED <<conf, stamps, rows, lease, spent>>

-----------------------------------------------------------------------------
(* claim(): three statements, and others' between them.                    *)

HeadTerm == Max({0} \cup {c.term : c \in lease})
Claimants(term) == {c.by : c \in {d \in lease : d.term = term}}

\* _reject_live: while a claim at the head lives, only its single claimant may
\* go on.
RejectLive(p) ==
    /\ \E c \in lease : c.term = HeadTerm /\ c.left > 0
    /\ Claimants(HeadTerm) # {p}

\* A writer acquires or renews the publisher lease before it calls ensure().
AcquireFirst(p) ==
    /\ proc[p].pc = "idle" /\ spent.dropping = 0 /\ obj["lease"] # "absent"
    /\ spent.claim < conf.claims
    /\ spent' = [spent EXCEPT !.claim = @ + 1]
    /\ proc' = [proc EXCEPT ![p].pc = "acquire", ![p].caller = "writer"]
    /\ UNCHANGED <<conf, obj, stamps, rows, lease>>

\* Its renewals keep the lease without end.  Where nobody else is about to
\* insert, a renewal is uncontested and stays at the term here: terms only
\* tell claims apart.
Renew(p) ==
    /\ proc[p].pc = "idle" /\ proc[p].holds /\ Claimants(HeadTerm) = {p}
    /\ \A q \in Processes : proc[q].pc # "insert"
    /\ \E c \in lease : c.term = HeadTerm /\ c.left < Ttl
    /\ lease' = {IF c.term = HeadTerm THEN [c EXCEPT !.left = Ttl] ELSE c : c \in lease}
    /\ UNCHANGED <<conf, obj, stamps, rows, proc, spent>>

\* A refusal leaves no lease.  The install waits for its turn, a writer is told
\* so, and so is the borrower: its renewal is outside the retry loop.
Held(p) ==
    /\ proc' = [proc EXCEPT ![p] =
          CASE @.caller = "writer" -> Idle
            [] @.caller # "writer" /\ @.borrowed -> [Idle EXCEPT !.pc = "held"]
            [] OTHER -> [@ EXCEPT !.pc = "read", !.caller = "held", !.term = 0,
                                  !.tries = IF @ < Attempts THEN @ + 1 ELSE @]]
    /\ UNCHANGED <<conf, obj, stamps, rows, lease, spent>>

Acquire(p) ==
    /\ proc[p].pc = "acquire"
    /\ IF RejectLive(p) THEN Held(p)
       ELSE /\ proc' = [proc EXCEPT ![p].pc = "insert", ![p].term = HeadTerm + 1]
            /\ UNCHANGED <<conf, obj, stamps, rows, lease, spent>>

\* The expiry of a claim below the head is never read again.
Insert(p) ==
    LET all == lease \cup {[term |-> proc[p].term, by |-> p, left |-> Ttl]}
        top == Max({c.term : c \in all}) IN
    /\ proc[p].pc = "insert"
    /\ lease' = {IF c.term < top THEN [c EXCEPT !.left = 0] ELSE c : c \in all}
    /\ proc' = [proc EXCEPT ![p].pc = "readback"]
    /\ UNCHANGED <<conf, obj, stamps, rows, spent>>

\* The single claimant of its term has the lease.
ReadBack(p) ==
    LET me == proc[p]
        mine == [me EXCEPT !.holds = TRUE] IN
    /\ me.pc = "readback"
    /\ proc' = [proc EXCEPT ![p] =
          CASE Claimants(me.term) # {p} -> [me EXCEPT !.pc = "contested", !.holds = FALSE]
            [] Claimants(me.term) = {p} /\ me.caller = "writer" ->
                  [mine EXCEPT !.pc = "idle", !.caller = "start"]
            [] OTHER -> [mine EXCEPT !.pc = "read", !.caller = "lease"]]
    /\ UNCHANGED <<conf, obj, stamps, rows, lease, spent>>

\* Two claims met: the head is read again, and where it has lapsed by now the
\* claim was merely not recorded.
Contested(p) ==
    /\ proc[p].pc = "contested"
    /\ IF RejectLive(p) THEN Held(p)
       ELSE /\ proc' = [proc EXCEPT ![p] =
                  [Idle EXCEPT !.pc = IF proc[p].caller = "writer" THEN "idle" ELSE "lost"]]
            /\ UNCHANGED <<conf, obj, stamps, rows, lease, spent>>

\* The wait between two attempts, and the lease's clock.
Tick ==
    /\ \E p \in Processes : proc[p].pc = "sleep"
    /\ proc' = [p \in Processes |-> IF proc[p].pc = "sleep"
                                     THEN [proc[p] EXCEPT !.pc = "acquire"] ELSE proc[p]]
    /\ lease' = {[c EXCEPT !.left = IF @ = 0 THEN 0 ELSE @ - 1] : c \in lease}
    /\ UNCHANGED <<conf, obj, stamps, rows, spent>>

-----------------------------------------------------------------------------
\* The layout as it now is decides whether the stamp may be written.
Confirm(p) ==
    /\ proc[p].pc = "confirm"
    /\ IF ~Confirms(obj) THEN Leave(p, "refused")
       ELSE /\ proc' = [proc EXCEPT ![p].pc = "stamp"]
            /\ UNCHANGED <<conf, obj, stamps, rows, lease, spent>>

\* _stamp inserts only into an empty stamp table.
Stamp(p) ==
    /\ proc[p].pc = "stamp"
    /\ stamps' = IF stamps = {} THEN {Version} ELSE stamps
    /\ proc' = [proc EXCEPT ![p].pc = "return"]
    /\ UNCHANGED <<conf, obj, rows, lease, spent>>

Return(p) == proc[p].pc = "return" /\ Leave(p, "ready")

\* A writer that ensure() let through indexes a pack (CatalogPublish).
Publish(p) ==
    /\ proc[p].pc = "ready" /\ conf.indexes
    /\ \E pack \in Packs \ rows["pack"] :
          rows' = [t \in DataTables |-> IF t = "log" THEN rows[t] ELSE rows[t] \cup {pack}]
    /\ UNCHANGED <<conf, obj, stamps, lease, proc, spent>>

\* The process dies for good; its lease row stays until it lapses.
Crash(p) ==
    /\ proc[p].pc \notin {"idle", "dead"} /\ spent.crash < conf.crashes
    /\ spent' = [spent EXCEPT !.crash = @ + 1]
    /\ proc' = [proc EXCEPT ![p] = [Idle EXCEPT !.pc = "dead"]]
    /\ lease' = {IF c.by = p THEN [c EXCEPT !.by = "dead"] ELSE c : c \in lease}
    /\ UNCHANGED <<conf, obj, stamps, rows>>

\* A process whose call raised may be started again.
Restart(p) ==
    /\ proc[p].pc \in {"refused", "held", "lost"}
    /\ spent.dropping = 0 /\ spent.restart < conf.restarts
    /\ spent' = [spent EXCEPT !.restart = @ + 1]
    /\ proc' = [proc EXCEPT ![p] = Idle]
    /\ UNCHANGED <<conf, obj, stamps, rows, lease>>

\* The older build's initialiser creates its tables in its own layout without
\* the lease, and its writer fills them with no manifest row.
OldTables == <<"capture", "pack", "watermark", "log">>

OldCreate ==
    /\ spent.old < conf.olds /\ spent.old < Len(OldTables)
    /\ spent' = [spent EXCEPT !.old = @ + 1]
    /\ Create(OldTables[spent.old + 1], "old")
    /\ UNCHANGED <<conf, stamps, rows, lease, proc>>

OldPublish ==
    /\ spent.old = Len(OldTables)
    /\ \A k \in 1..Len(OldTables) : obj[OldTables[k]] # "absent"
    /\ \E pack \in OldPacks \ rows["pack"] :
          rows' = [t \in DataTables |-> IF t = "manifest" THEN rows[t] ELSE rows[t] \cup {pack}]
    /\ UNCHANGED <<conf, obj, stamps, lease, proc, spent>>

\* drop(), run by an operator who has stopped this build's processes: one
\* DROP TABLE IF EXISTS a step, and the teardown may die between two.
DropStart ==
    /\ spent.drop < conf.drops /\ spent.dropping = 0
    /\ \A p \in Processes : proc[p].pc \in Ended
    /\ spent' = [spent EXCEPT !.drop = @ + 1, !.dropping = 1]
    /\ proc' = [p \in Processes |-> Idle]
    /\ UNCHANGED <<conf, obj, stamps, rows, lease>>

Drop ==
    LET name == (Objects \o Legacy)[spent.dropping] IN
    /\ spent.dropping > 0
    /\ obj' = [obj EXCEPT ![name] = "absent"]
    /\ rows' = IF name \in DataTables THEN [rows EXCEPT ![name] = {}] ELSE rows
    /\ stamps' = IF name = "stamp" THEN {} ELSE stamps
    /\ lease' = IF name = "lease" THEN {} ELSE lease
    /\ spent' = [spent EXCEPT !.dropping = IF @ = Cardinality(Named) THEN 0 ELSE @ + 1]
    /\ UNCHANGED <<conf, proc>>

DropDies ==
    /\ spent.dropping > 0 /\ spent.crash < conf.crashes
    /\ spent' = [spent EXCEPT !.dropping = 0, !.crash = @ + 1]
    /\ UNCHANGED <<conf, obj, stamps, rows, lease, proc>>

Step(p) ==
    \/ ReadState(p) \/ Verify(p) \/ Statement(p)
    \/ Acquire(p) \/ Insert(p) \/ ReadBack(p) \/ Contested(p)
    \/ Confirm(p) \/ Stamp(p) \/ Return(p)

Next ==
    \/ \E p \in Processes :
          \/ Step(p) \/ Ensure(p) \/ AcquireFirst(p) \/ Renew(p)
          \/ Publish(p) \/ Crash(p) \/ Restart(p)
    \/ Tick \/ OldCreate \/ OldPublish \/ DropStart \/ Drop \/ DropDies

\* A call in progress keeps executing, and time passes for a sleeper.
Spec ==
    /\ Init /\ [][Next]_vars
    /\ \A p \in Processes : WF_vars(Step(p))
    /\ WF_vars(Tick)

(***************************************************************************)
(* What ensure() promises the caller it returns to.                        *)
(***************************************************************************)

\* A process ensure() has returned to works on a catalog with every object
\* of this build, this build's stamp, and the descriptor and inventory
\* tables on the sort keys and engines their merges rely on: no older
\* initialiser's table slipped in between the first read and the stamp
\* (_confirm_catalog_is_complete).
ReadyMeansInstalled ==
    \A p \in Processes : proc[p].pc = "ready" =>
        /\ stamps = {Version}
        /\ \A n \in Tables \cup {"views"} : obj[n] # "absent"
        /\ ~WrongLayout(obj)

\* While a process may index, every pack of this build that the inventory
\* lists, and so every indexing pass skips, still has its descriptors and
\* its snapshot membership, whatever teardown died partway before
\* (_verify_compatibility's missing-table rules).
SkippedPacksAreVisible ==
    (\E p \in Processes : proc[p].pc = "ready") =>
        rows["pack"] \cap Packs \subseteq rows["capture"] \cap Members

\* Terms that two claims met at.
Collisions == {t \in 1..HeadTerm : Cardinality(Claimants(t)) > 1}

\* Every call of ensure() ends: it returns, refuses or raises, even when a
\* writer keeps renewing the lease.  With no other build, no teardown and
\* nobody indexing yet, an install that dies anywhere is finished by the next
\* process, which is not refused; and of two installers neither is told that
\* the lease is held, or that its claim was not recorded, unless two claims
\* have met at one term.  The budget of attempts outlasts a dead holder; a
\* contested term uses it up (the stamp table created first, claim(),
\* _take_the_install_lease).
EnsureEnds ==
    /\ \A p \in Processes : proc[p].pc \notin Ended ~> proc[p].pc \in Ended
    /\ [](conf.cold => \A p \in Processes :
            /\ proc[p].pc # "refused"
            /\ proc[p].pc \in {"held", "lost"} => Collisions # {})
=============================================================================
