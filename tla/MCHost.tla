------------------------------- MODULE MCHost -------------------------------
(***************************************************************************)
(* Small deployments of HostPipeline for TLC.  With the layout constants   *)
(* of the configuration a pack of one record of length 3 has 15 bytes, one *)
(* of two 23; a payload of 15 clears max_pack_bytes and fits no pack.      *)
(***************************************************************************)
EXTENDS HostPipeline

R(c, s, n) == [capture |-> c, scope |-> s, length |-> n]

\* Two scopes, a repeated capture, an oversized record.
MCRecords == <<R("a", 1, 3), R("b", 2, 3), R("b", 2, 3), R("c", 2, 15), R("d", 2, 3)>>

P(c) == Added(<<>>, c, 3)

Base == [maxBytes |-> 100, inFlight |-> 40, store |-> "filesystem", preset |-> <<>>,
         twins |-> {}, calls |-> 0, batches |-> 0, crashes |-> 0, faults |-> 0,
         queueRecords |-> 2, queueBytes |-> 20, packBytes |-> 24, packRecords |-> 2,
         policy |-> "block", timed |-> FALSE, flushTimed |-> FALSE, adapter |-> FALSE,
         records |-> 2, flushes |-> 2, closes |-> FALSE, linger |-> FALSE,
         threads |-> {"s1", "f1"}]

\* Two submitters and two flushers, one of whose calls may time out.
Flushing == [Base EXCEPT !.flushTimed = TRUE, !.threads = {"s1", "f1", "f2"}]

\* A spool with room for one pack fails the second, with a flush in flight.
Failing == [Base EXCEPT !.maxBytes = 20, !.packRecords = 1, !.closes = TRUE, !.threads = {"s1", "f1", "f2"}]

\* Closing while others submit to a short queue.
Closing == [Base EXCEPT !.queueRecords = 1, !.policy = "drop", !.closes = TRUE, !.flushes = 1,
              !.threads = {"s1", "s2", "f1"}]

\* Packs that linger.
Lingering == [Base EXCEPT !.linger = TRUE, !.queueRecords = 1, !.flushes = 1, !.timed = TRUE,
                !.records = 3]

\* Packs that linger while the queue is closed, with flushes in flight.
Leaving == [Lingering EXCEPT !.closes = TRUE, !.records = 2, !.flushes = 2,
              !.threads = {"s1", "f1", "f2"}]

\* The reference sink on top, with every kind of drop.
Adapted == [Base EXCEPT !.adapter = TRUE, !.records = 5, !.packBytes = 22, !.flushes = 1, !.closes = TRUE]

\* Direct callers of the spool, two packs under one id, recovery and uploads.
Spooling == [Base EXCEPT !.records = 0, !.flushes = 0, !.preset = <<P("a"), P("b")>>,
               !.maxBytes = 20, !.calls = 3, !.batches = 2, !.inFlight = 20, !.faults = 1, !.crashes = 1]
Twins == [Spooling EXCEPT !.twins = {1, 2}, !.store = "s3", !.maxBytes = 60, !.calls = 2, !.faults = 2]

\* The oversized record behind a pack that has lingered.
Oversized == {[Lingering EXCEPT !.records = 4, !.queueRecords = 2]}

HostScenarios == {Flushing, Failing, Closing, Lingering, Leaving, Adapted, Spooling, Twins}
=============================================================================
