------------------------------- MODULE Spool -------------------------------
(***************************************************************************)
(* The durable pack spool (native/csrc/store/spool.cpp): one directory,    *)
(* the Spool object stagers share (the sink's), and removals through a     *)
(* second Spool object (the storage service's), which the first one's      *)
(* byte account never hears of.  Stage() drops its lock around all file    *)
(* I/O, so its steps interleave with other stagers, with listings and      *)
(* removals, and with a crash of the process or of the machine.            *)
(*                                                                         *)
(* A pack stands for one ready name: id, creation time, record count and   *)
(* checksum.  Two packs with one id are different contents under one       *)
(* pack_id.                                                                *)
(***************************************************************************)
EXTENDS Integers, FiniteSets, FiniteSetsExt

CONSTANTS
    Packs, Stagers,
    Id,          \* pack -> pack_id
    Size,        \* pack -> bytes
    Scenarios    \* the deployments and bounds of a behaviour

(* A deployment: max_bytes_; and the bounds: the packs and threads that take *)
(* part, calls of Stage, crashes, and faults (I/O errors, bit rot, refused   *)
(* requests).                                                                *)
SpoolFields == {"maxBytes", "packs", "stagers", "stages", "crashes", "faults"}

ASSUME SpoolAssumption ==
    /\ Id \in [Packs -> Nat] /\ Size \in [Packs -> Nat \ {0}]
    /\ \A c \in Scenarios :
         /\ SpoolFields \subseteq DOMAIN c
         /\ c.packs \subseteq Packs /\ c.stagers \subseteq Stagers
         /\ c.maxBytes \in Nat
         /\ c.stages \in Nat /\ c.crashes \in Nat /\ c.faults \in Nat

VARIABLES
    conf,         \* the deployment, fixed when the spool is created
    ready,        \* ready files in the directory
    dirty,        \* ready names linked or unlinked since the last fsync
    temps,        \* .open files: <<stager, pack, incarnation>>
    rotten,       \* packs whose file no longer has the bytes of its name
    quarantined,  \* packs set aside by a listing
    committed, reserved, ledger,  \* committed_bytes_, reserved_bytes_ and
                                  \* accounted_ready_ of the sink's object
    st,           \* stager s inside Stage(): [pc, pack]
    acked,        \* packs some Stage() returned kOk for
    life,         \* "up", or "down", then "swept" on the way back up
    stages, crashes, faults       \* counters for the bounds

diskVars == <<ready, dirty, temps, rotten, quarantined>>
accountVars == <<committed, reserved, ledger>>
countVars == <<stages, crashes, faults>>
spoolVars == <<conf, diskVars, accountVars, st, acked, life, countVars>>

Sum(ps) == MapThenSumSet(LAMBDA p : Size[p], ps)
TempBytes(ts) == MapThenSumSet(LAMBDA t : Size[t[2]], ts)

TempOf(s) == <<s, st[s].pack, crashes>>
(* inflight_temps_: registered with the reservation, dropped with it.      *)
Reserving(s) == st[s].pc \in {"write", "link", "linked", "commit", "lost"}
Inflight == {TempOf(s) : s \in {t \in Stagers : Reserving(t)}}

Resting == {"idle", "ok", "full", "conflict", "io"}
At(s, pc) == st' = [st EXCEPT ![s].pc = pc]
Fault == faults < conf.faults /\ faults' = faults + 1

SpoolInit ==
    /\ conf \in Scenarios
    /\ ready = {} /\ dirty = {} /\ temps = {}
    /\ rotten = {} /\ quarantined = {}
    /\ committed = 0 /\ reserved = 0 /\ ledger = {}
    /\ st = [s \in Stagers |-> [pc |-> "idle", pack |-> CHOOSE p \in Packs : TRUE]]
    /\ acked = {} /\ life = "up"
    /\ stages = 0 /\ crashes = 0 /\ faults = 0

---------------------------------------------------------------------------
(* The account.                                                            *)
(* ReconcileCommittedLocked: what the directory holds now, this object's    *)
(* own temps aside; reservations are kept and judged on top.                *)
Scanned == Sum(ready) + TempBytes(temps \ Inflight)
(* Mutant: the scan stands for the reservations as well.                     *)
AdmitsOverReservations(c, p) == c + Size[p] <= conf.maxBytes
Admits(c, p) == c + reserved + Size[p] <= conf.maxBytes

(* AccountReadyLocked: a path counts once.                                  *)
AccountReady(p, c, l) ==
    /\ ledger' = l \cup {p}
    /\ committed' = IF p \in l THEN c ELSE c + Size[p]

(* Stage(), phase 1 (locked): retry, conflict, full, or reserve.           *)
StageCheck(s, p) ==
    /\ life = "up" /\ stages < conf.stages
    /\ s \in conf.stagers /\ p \in conf.packs
    /\ st[s].pc \in Resting
    /\ stages' = stages + 1
    /\ \/ /\ p \in ready
          /\ st' = [st EXCEPT ![s] = [pc |-> "validate", pack |-> p]]
          /\ UNCHANGED accountVars
       \/ /\ p \notin ready /\ \E q \in ready : Id[q] = Id[p]
          /\ st' = [st EXCEPT ![s] = [pc |-> "conflict", pack |-> p]]
          /\ UNCHANGED accountVars
       \/ /\ p \notin ready /\ \A q \in ready : Id[q] /= Id[p]
          /\ committed' = IF Admits(committed, p) THEN committed ELSE Scanned
          /\ ledger' = IF Admits(committed, p) THEN ledger ELSE ready
          /\ IF Admits(committed', p)
             THEN /\ st' = [st EXCEPT ![s] = [pc |-> "write", pack |-> p]]
                  /\ reserved' = reserved + Size[p]
             ELSE /\ st' = [st EXCEPT ![s] = [pc |-> "full", pack |-> p]]
                  /\ UNCHANGED reserved
    /\ UNCHANGED <<diskVars, acked, life, crashes, faults>>

(* WriteFileSynced: the whole temp file, fsynced.                          *)
StageWrite(s) ==
    /\ st[s].pc = "write"
    /\ temps' = temps \cup {TempOf(s)}
    /\ At(s, "link")
    /\ UNCHANGED <<ready, dirty, rotten, quarantined, accountVars, acked, life,
                   countVars>>

(* A failed write or link gives the reservation back before the temp file  *)
(* is unlinked.                                                            *)
Unreserve(s) == reserved' = reserved - Size[st[s].pack]

StageFails(s) ==
    /\ st[s].pc \in {"write", "link"}
    /\ Fault
    /\ temps' = temps \cup {TempOf(s)}
    /\ Unreserve(s)
    /\ At(s, "drop")
    /\ UNCHANGED <<ready, dirty, rotten, quarantined, committed, ledger, acked,
                   life, stages, crashes>>


StageDrop(s) ==
    /\ st[s].pc = "drop"
    /\ temps' = temps \ {TempOf(s)}
    /\ At(s, "io")
    /\ UNCHANGED <<ready, dirty, rotten, quarantined, accountVars, acked, life,
                   countVars>>

(* link(temp, ready): the atomic commit, or EEXIST.                        *)
StageLink(s) ==
    /\ st[s].pc = "link"
    /\ LET p == st[s].pack IN
       IF p \in ready
       THEN /\ temps' = temps \ {TempOf(s)}
            /\ At(s, "lost") /\ UNCHANGED <<ready, dirty, rotten>>
       ELSE /\ ready' = ready \cup {p} /\ dirty' = dirty \cup {p}
            /\ rotten' = rotten \ {p}
            /\ At(s, "linked") /\ UNCHANGED temps
    /\ UNCHANGED <<quarantined, accountVars, acked, life, countVars>>

StageUnlink(s) ==
    /\ st[s].pc = "linked"
    /\ temps' = temps \ {TempOf(s)}
    /\ At(s, "commit")
    /\ UNCHANGED <<ready, dirty, rotten, quarantined, accountVars, acked, life,
                   countVars>>

(* commit_reservation (locked).                                            *)
StageCommit(s) ==
    /\ st[s].pc = "commit"
    /\ Unreserve(s)
    /\ AccountReady(st[s].pack, committed, ledger)
    /\ At(s, "sync")
    /\ UNCHANGED <<diskVars, acked, life, countVars>>

(* The EEXIST loser gives its reservation back, then treats the winner's   *)
(* file as a retry does.                                                   *)
StageLost(s) ==
    /\ st[s].pc = "lost"
    /\ Unreserve(s)
    /\ At(s, "validate")
    /\ UNCHANGED <<diskVars, committed, ledger, acked, life, countVars>>

(* validate_ready (unlocked): name, size and checksum of what is there now.*)
StageValidate(s) ==
    /\ st[s].pc = "validate"
    /\ At(s, IF st[s].pack \in ready \ rotten THEN "account" ELSE "conflict")
    /\ UNCHANGED <<diskVars, accountVars, acked, life, countVars>>

(* Mutant: the retry and the loser take the winner's fsync for their own.    *)
StageAccountAcks(s) ==
    /\ st[s].pc = "account"
    /\ AccountReady(st[s].pack, committed, ledger)
    /\ acked' = acked \cup {st[s].pack}
    /\ At(s, "ok")
    /\ UNCHANGED <<diskVars, reserved, life, countVars>>

(* account_existing (locked): an uncounted path is reconciled first, and   *)
(* only a reservation in flight justifies a refusal.                        *)
StageAccount(s) ==
    /\ st[s].pc = "account"
    /\ LET p == st[s].pack
           counted == p \in ledger
           c == IF counted THEN committed ELSE Scanned
           l == IF counted THEN ledger ELSE ready
       IN IF reserved > 0 /\ c + reserved > conf.maxBytes
          THEN committed' = c /\ ledger' = l /\ At(s, "full")
          ELSE AccountReady(p, c, l) /\ At(s, "sync")
    /\ UNCHANGED <<diskVars, reserved, acked, life, countVars>>

(* FsyncChain, and the acknowledgement.  An fsync of the directory makes   *)
(* every link and unlink in it durable.                                     *)
StageSync(s) ==
    /\ st[s].pc = "sync"
    /\ dirty' = {}
    /\ acked' = acked \cup {st[s].pack}
    /\ At(s, "ok")
    /\ UNCHANGED <<ready, temps, rotten, quarantined, accountVars, life,
                   countVars>>

(* A failed fsync: the ready file stays and is counted, nobody is told.    *)
StageSyncFails(s) ==
    /\ st[s].pc = "sync"
    /\ Fault
    /\ At(s, "io")
    /\ UNCHANGED <<diskVars, accountVars, acked, life, stages, crashes>>

StageStep(s) ==
    \/ StageWrite(s) \/ StageFails(s) \/ StageDrop(s) \/ StageLink(s)
    \/ StageUnlink(s) \/ StageCommit(s) \/ StageLost(s) \/ StageValidate(s)
    \/ StageAccount(s) \/ StageSync(s) \/ StageSyncFails(s)

---------------------------------------------------------------------------
(* The second Spool object: Scan and Remove.  Its own account is not       *)
(* modelled: it never stages, so nothing reads it.                         *)

(* ListPending, and Recover (sweep): corrupt ready files are renamed away. *)
Listed == ready \ rotten
Quarantine ==
    /\ ready' = Listed
    /\ quarantined' = quarantined \cup (ready \cap rotten)
    /\ dirty' = IF ready \cap rotten = {} THEN dirty ELSE {}

(* Remove: unlink now, fsync after the lock is dropped.                    *)
Unlink(p) == /\ ready' = ready \ {p}
             /\ dirty' = IF p \in ready THEN dirty \cup {p} ELSE dirty

(* The environment: a ready file loses its bytes.                          *)
BitRot(p) ==
    /\ p \in ready \ rotten
    /\ Fault
    /\ rotten' = rotten \cup {p}
    /\ UNCHANGED <<ready, dirty, temps, quarantined, accountVars, st, acked,
                   life, stages, crashes>>

---------------------------------------------------------------------------
(* A crash keeps each unsynced link or unlink, or undoes it.  The next     *)
(* owner sweeps before its sink opens the directory.                        *)
CrashDisk ==
    /\ life = "up" /\ crashes < conf.crashes
    /\ crashes' = crashes + 1
    /\ \E kept \in SUBSET dirty : ready' = (ready \ dirty) \cup kept
    /\ dirty' = {}
    /\ st' = [s \in Stagers |-> [st[s] EXCEPT !.pc = "idle"]]
    /\ life' = "down"
    /\ UNCHANGED <<temps, rotten, quarantined, accountVars, acked, stages,
                   faults>>


RecoverSweep ==
    /\ life = "down"
    /\ Quarantine
    /\ temps' = {}
    /\ life' = "swept"
    /\ UNCHANGED <<rotten, accountVars, st, acked, countVars>>

OpenSpool ==
    /\ life = "swept"
    /\ committed' = Sum(ready) + TempBytes(temps)
    /\ ledger' = ready
    /\ reserved' = 0
    /\ life' = "up"
    /\ UNCHANGED <<diskVars, st, acked, countVars>>

---------------------------------------------------------------------------
(* The bytes the directory really takes; a linked temp shares its inode     *)
(* with the ready file.  A failed write's temp is left out: Stage() frees   *)
(* its reservation just before it unlinks it.                               *)
PassingTemps == {TempOf(s) : s \in {t \in Stagers : st[t].pc \in {"linked", "drop"}}}
DiskBytes == Sum(ready) + TempBytes(temps \ PassingTemps)

(* No step of a running process takes the directory past max_bytes, in any *)
(* interleaving of checks, reservations, reconciling scans and removals     *)
(* behind the sink's back (spool.cpp Stage, phase 1).  A crash may: it can   *)
(* bring back an unlinked file whose room was used again.                    *)
NeverGrowsPastLimit ==
    [][life = "up" /\ life' = "up" /\ DiskBytes' > DiskBytes
       => DiskBytes' <= conf.maxBytes]_spoolVars
=============================================================================
