---------------------------- MODULE SpoolUpload ----------------------------
(***************************************************************************)
(* The spool uploader (native/csrc/store/uploader.cpp) draining the spool  *)
(* of module Spool into an object store through its own Spool object, with *)
(* several workers, requests that fail before or after they took effect,    *)
(* and a crash at any point.                                                *)
(***************************************************************************)
EXTENDS Spool

CONSTANTS
    Workers,           \* upload threads
    MaxAttempts        \* max_attempts

(* The uploader's part of a deployment: max_in_flight_bytes, the threads    *)
(* that run, and the bound on cancelled batches.                             *)
None == "none"
ASSUME UploadAssumption ==
    /\ MaxAttempts \in Nat \ {0} /\ None \notin Packs /\ Packs # {}
    /\ \A c \in Scenarios : /\ DOMAIN c = SpoolFields \cup {"inFlight", "workers", "cancels"}
                            /\ c.inFlight \in Nat /\ c.cancels \in Nat
                            /\ c.workers \subseteq Workers

(* Pack ids are drawn by the sink: two contents under one pack_id do not     *)
(* race, they come one after the other from one thread.                      *)
ASSUME IdAssumption ==
    \A c \in Scenarios : \/ \A s, t \in c.stagers : s = t
                         \/ \A p, q \in c.packs : Id[p] = Id[q] => p = q

Keys == {Id[p] : p \in Packs}

VARIABLES
    store,      \* object key -> the pack whose bytes it holds, or None
    remaining,  \* packs of the running batch no worker has taken
    up,         \* worker: [pc, pack, tries], tries left in UploadOne
    handed,     \* packs whose PackRef a batch returned (the indexer's input)
    cancels     \* Cancellations so far

uploadVars == <<store, remaining, up, handed, cancels>>
vars == <<spoolVars, uploadVars>>

Busy == {w \in Workers : up[w].pc /= "idle"}
InFlight == MapThenSumSet(LAMBDA w : Size[up[w].pack], Busy)
Goes(w, pc) == up' = [up EXCEPT ![w].pc = pc]
Working(w, pc) == life = "up" /\ up[w].pc = pc

Init ==
    /\ SpoolInit
    /\ store = [k \in Keys |-> None]
    /\ remaining = {} /\ handed = {} /\ cancels = 0
    /\ up = [w \in Workers |-> [pc |-> "idle", pack |-> CHOOSE p \in Packs : TRUE,
                                tries |-> 0]]

(* Mutant: a pack exactly at the in-flight cap is refused.                   *)
UploadPendingBelow ==
    /\ life = "up" /\ remaining = {} /\ Busy = {}
    /\ Quarantine
    /\ remaining' = {p \in Listed : Size[p] < conf.inFlight}
    /\ UNCHANGED <<temps, rotten, accountVars, st, acked, life, countVars,
                   store, up, handed, cancels>>

(* UploadPending: list (quarantining what is corrupt), refuse packs over   *)
(* the in-flight cap, queue the others.                                     *)
UploadPending ==
    /\ life = "up" /\ remaining = {} /\ Busy = {}
    /\ Quarantine
    /\ remaining' = {p \in Listed : Size[p] <= conf.inFlight}
    /\ UNCHANGED <<temps, rotten, accountVars, st, acked, life, countVars,
                   store, up, handed, cancels>>

(* A worker takes a pack that fits under the cap.                          *)
UploadTake(w) ==
    /\ Working(w, "idle") /\ w \in conf.workers
    /\ \E p \in remaining :
         /\ InFlight + Size[p] <= conf.inFlight
         /\ remaining' = remaining \ {p}
         /\ up' = [up EXCEPT ![w] = [pc |-> "head", pack |-> p, tries |-> MaxAttempts]]
    /\ UNCHANGED <<spoolVars, store, handed, cancels>>


(* UploadOne, preflight HEAD: the same pack is verified, another object is *)
(* a conflict that is not retried, nothing leads to the PUT.                *)
UploadHead(w) ==
    /\ Working(w, "head")
    /\ LET p == up[w].pack  there == store[Id[p]] IN
       Goes(w, IF there = None THEN "put" ELSE IF there = p THEN "verify" ELSE "idle")
    /\ UNCHANGED <<spoolVars, store, remaining, handed, cancels>>

(* GET and hash of the object already there.                               *)
UploadVerify(w) ==
    /\ Working(w, "verify")
    /\ Goes(w, IF store[Id[up[w].pack]] = up[w].pack THEN "remove" ELSE "retry")
    /\ UNCHANGED <<spoolVars, store, remaining, handed, cancels>>

(* Read and hash the staged bytes, then PUT them.  A file that is gone is  *)
(* an error to retry; corrupt bytes end the upload.                         *)
UploadPut(w) ==
    /\ Working(w, "put")
    /\ LET p == up[w].pack IN
       IF p \in Listed
       THEN store' = [store EXCEPT ![Id[p]] = p] /\ Goes(w, "visible")
       ELSE UNCHANGED store /\ Goes(w, IF p \in ready THEN "idle" ELSE "retry")
    /\ UNCHANGED <<spoolVars, remaining, handed, cancels>>

(* The PUT took effect and its answer was lost.                            *)
UploadPutUnheard(w) ==
    /\ Working(w, "put") /\ up[w].pack \in Listed
    /\ Fault
    /\ store' = [store EXCEPT ![Id[up[w].pack]] = up[w].pack]
    /\ Goes(w, "retry")
    /\ UNCHANGED <<diskVars, accountVars, st, acked, life, stages, crashes,
                   remaining, handed, cancels>>

(* HEAD after the PUT: there, with the right size.                         *)
UploadVisible(w) ==
    /\ Working(w, "visible")
    /\ LET p == up[w].pack  there == store[Id[p]] IN
       Goes(w, IF there /= None /\ Size[there] = Size[p] THEN "remove" ELSE "retry")
    /\ UNCHANGED <<spoolVars, store, remaining, handed, cancels>>


(* Any request of the attempt, or the removal, fails without effect.       *)
UploadFault(w) ==
    /\ life = "up" /\ up[w].pc \in {"head", "verify", "put", "visible", "remove"}
    /\ Fault
    /\ Goes(w, "retry")
    /\ UNCHANGED <<diskVars, accountVars, st, acked, life, stages, crashes,
                   store, remaining, handed, cancels>>

(* The next attempt after the backoff, or the end of the attempts.         *)
UploadRetry(w) ==
    /\ Working(w, "retry")
    /\ up' = [up EXCEPT ![w].tries = @ - 1,
                        ![w].pc = IF up[w].tries > 1 THEN "head" ELSE "idle"]
    /\ UNCHANGED <<spoolVars, store, remaining, handed, cancels>>

(* Spool::Remove: the unlink, then the directory fsync.                    *)
UploadRemove(w) ==
    /\ Working(w, "remove")
    /\ Unlink(up[w].pack)
    /\ Goes(w, "removed")
    /\ UNCHANGED <<temps, rotten, quarantined, accountVars, st, acked, life,
                   countVars, store, remaining, handed, cancels>>

UploadDone(w) ==
    /\ Working(w, "removed")
    /\ dirty' \in {{}, dirty}            \* the result of FsyncDir is not read
    /\ handed' = handed \cup {up[w].pack}
    /\ Goes(w, "idle")
    /\ UNCHANGED <<ready, temps, rotten, quarantined, accountVars, st, acked,
                   life, countVars, store, remaining, cancels>>

(* A cancel: no pack starts any more, and an upload under way ends with its *)
(* attempt or in its backoff.  The packs stay staged.                       *)
UploadCancel ==
    /\ life = "up" /\ cancels < conf.cancels /\ remaining \cup Busy /= {}
    /\ cancels' = cancels + 1
    /\ remaining' = {}
    /\ up' = [w \in Workers |->
                IF up[w].pc \in {"head", "verify", "put", "visible", "retry"}
                THEN [up[w] EXCEPT !.pc = "idle"] ELSE up[w]]
    /\ UNCHANGED <<spoolVars, store, handed>>

UploadStep(w) ==
    \/ UploadHead(w) \/ UploadVerify(w) \/ UploadPut(w) \/ UploadVisible(w)
    \/ UploadRetry(w) \/ UploadRemove(w) \/ UploadDone(w)

(* A crash also ends the uploader; what it sent stays in the store.        *)
Crash ==
    /\ CrashDisk
    /\ remaining' = {}
    /\ up' = [w \in Workers |-> [up[w] EXCEPT !.pc = "idle"]]
    /\ UNCHANGED <<store, handed, cancels>>

Fixed == UNCHANGED conf
NoUpload == UNCHANGED uploadVars

Next ==
    /\ Fixed
    /\ \/ \E s \in Stagers : \/ \E p \in Packs : StageCheck(s, p) /\ NoUpload
                             \/ StageStep(s) /\ NoUpload
       \/ \E w \in Workers : \/ UploadTake(w) \/ UploadStep(w)
                             \/ UploadPutUnheard(w) \/ UploadFault(w)
       \/ UploadPending \/ UploadCancel
       \/ \E p \in Packs : BitRot(p) /\ NoUpload
       \/ Crash
       \/ RecoverSweep /\ NoUpload
       \/ OpenSpool /\ NoUpload

Spec == Init /\ [][Next]_vars

(* The stagers, the upload threads and the service's cycle keep running,   *)
(* and a process that went down is started again.                           *)
FairSpec ==
    /\ Spec
    /\ \A s \in Stagers : WF_vars(StageStep(s) /\ NoUpload /\ Fixed)
    /\ \A w \in Workers : WF_vars((UploadTake(w) \/ UploadStep(w)) /\ Fixed)
    /\ WF_vars(UploadPending /\ remaining' /= {} /\ Fixed)
    /\ WF_vars(RecoverSweep /\ NoUpload /\ Fixed)
    /\ WF_vars(OpenSpool /\ NoUpload /\ Fixed)

---------------------------------------------------------------------------
(* The object store has the pack under its key.                              *)
Stored(p) == store[Id[p]] = p

(* An acknowledged pack survives every crash: its bytes are in a ready     *)
(* file whose name is durable, in the object store, or set aside by a       *)
(* listing that found bit rot.  Neither a loser of the link race, nor a     *)
(* retry, nor a removal after an upload whose answer was lost breaks it.    *)
AckedSurvives == \A p \in acked : p \in ready \ dirty \/ Stored(p) \/ p \in quarantined

(* Why it does.  A file that was validated or linked is there, or was       *)
(* uploaded or set aside since.                                             *)
Acking == {"linked", "commit", "account", "sync"}
AckingInv ==
    \A s \in Stagers : st[s].pc \in Acking =>
       LET p == st[s].pack IN p \in ready \/ Stored(p) \/ p \in quarantined

(* The packs of a batch are staged and each has one worker, until it is     *)
(* removed; a down process has no batch.                                    *)
BatchInv ==
    /\ remaining \subseteq ready
    /\ \A w \in Busy : up[w].pack \notin remaining /\ (up[w].pc # "removed" => up[w].pack \in ready)
    /\ \A v, w \in Busy : up[v].pack = up[w].pack => v = w
    /\ life # "up" => remaining = {} /\ Busy = {}

(* A pack is removed only once the store has it, and a PUT never replaces   *)
(* another pack.                                                            *)
StoreInv ==
    /\ \A w \in Workers : up[w].pc \in {"visible", "remove", "removed"} => Stored(up[w].pack)
    /\ \A w \in Workers : up[w].pc = "put" => store[Id[up[w].pack]] = None \/ Stored(up[w].pack)
    /\ \A p \in dirty \ ready : Stored(p)

(* Two packs of one id are around only when the store has one of them.      *)
Around(p) ==
    p \in ready \cup dirty \/ \E s \in Stagers : st[s].pc \in {"write", "link"} /\ st[s].pack = p
OneAroundInv ==
    \A p, q \in Packs : Around(p) /\ Around(q) /\ Id[p] = Id[q] => p = q \/ store[Id[p]] # None

StagerSteps == Resting \cup Acking \cup {"write", "link", "lost", "validate", "drop"}
WorkerSteps == {"idle", "head", "verify", "put", "visible", "retry", "remove", "removed"}
UploadTypeOK ==
    /\ conf \in Scenarios
    /\ ready \subseteq conf.packs /\ dirty \subseteq conf.packs /\ acked \subseteq Packs
    /\ st \in [Stagers -> [pc : StagerSteps, pack : Packs]]
    /\ \A s \in Stagers : st[s].pc # "idle" => s \in conf.stagers /\ st[s].pack \in conf.packs
    /\ store \in [Keys -> Packs \cup {None}]
    /\ up \in [Workers -> [pc : WorkerSteps, pack : Packs, tries : Int]]

SpoolInv ==
    UploadTypeOK /\ AckedSurvives /\ AckingInv /\ BatchInv /\ StoreInv /\ OneAroundInv

(* An acknowledged pack reaches the object store, through crashes, cut     *)
(* batches and failed requests, unless its file rots, the cap excludes it   *)
(* or another pack owns its key.                                            *)
AckedIsUploaded ==
    <>[](\A p \in acked : \/ store[Id[p]] /= None
                          \/ p \in rotten \cup quarantined
                          \/ Size[p] > conf.inFlight)
=============================================================================
