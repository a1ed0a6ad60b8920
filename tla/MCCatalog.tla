----------------------------- MODULE MCCatalog -----------------------------
(* Instances of CatalogPublish for TLC.                                     *)
EXTENDS CatalogLog, CatalogInvariant

Config(n) ==
    [ttl |-> 2, timeout |-> 1, skew |-> 0, ids |-> {1, 2}, faults |-> 0, crashes |-> 0,
     time |-> 4, writers |-> Writers, packs |-> {"p"}, passes |-> n, gcs |-> 0]

(* Takeovers, with an error, with skewed clocks, with a manifest of two      *)
(* chunks, and beside the garbage collector; a crash; and one writer that    *)
(* fails, waits and publishes again beside the garbage collector.            *)
MCSafety ==
    {Config(2), [Config(1) EXCEPT !.faults = 1],
     [Config(1) EXCEPT !.ttl = 3, !.skew = 1, !.time = 5],
     [Config(1) EXCEPT !.packs = {"p", "q"}], [Config(1) EXCEPT !.gcs = 1],
     [Config(1) EXCEPT !.crashes = 1, !.ids = {1, 2, 3}],
     [Config(2) EXCEPT !.gcs = 1, !.faults = 1, !.time = 3, !.writers = {"w1"}]}
============================================================================
