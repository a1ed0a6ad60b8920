------------------------------ MODULE MCEngine ------------------------------
(* Instances of EngineLifecycle for TLC.                                    *)
EXTENDS EngineLifecycle

(* One engine per process, a record each, a flush; room for all of it.      *)
Base == [writer |-> "engine", record |-> 1, queue |-> 1, pack |-> 2, inFlight |-> 2,
         lives |-> 1, records |-> 2, dirs |-> 2, flushes |-> 1, switches |-> 0,
         crashes |-> 0, stalls |-> 0, failures |-> 0, drops |-> 0]

Crashing == [Base EXCEPT !.crashes = 2, !.records = 1]
Failing == [Base EXCEPT !.failures = 2, !.records = 1, !.flushes = 0]
Stalling == [Base EXCEPT !.stalls = 1, !.records = 1, !.flushes = 0]
Dropping == [Base EXCEPT !.drops = 1, !.lives = 2, !.records = 1, !.flushes = 0]
Switching == [Base EXCEPT !.switches = 2, !.records = 1, !.flushes = 0]
OwnNative == [Base EXCEPT !.writer = "native", !.crashes = 1]
OwnReference == [Base EXCEPT !.writer = "reference", !.stalls = 1]
TooSmall == {[Base EXCEPT !.queue = 0], [Base EXCEPT !.pack = 1], [Base EXCEPT !.inFlight = 1]}

MCScenarios ==
    {Crashing, Failing, Stalling, Dropping, Switching, OwnNative, OwnReference} \cup TooSmall
=============================================================================
