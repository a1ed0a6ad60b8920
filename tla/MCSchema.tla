------------------------------ MODULE MCSchema ------------------------------
(***************************************************************************)
(* Small catalogs for CatalogSchema: a cold start of the fleet, an older    *)
(* build beside it, a teardown that dies partway, catalogs found in other   *)
(* shapes, and a writer that holds the lease all along.                     *)
(***************************************************************************)
EXTENDS CatalogSchema

Complete == [n \in Named |-> IF n = "log" THEN "absent" ELSE "right"]
Earlier == [n \in Named |-> IF n \in {OldTables[k] : k \in 1..4} THEN "old" ELSE "absent"]

Scenario == [obj |-> Blank, stamps |-> {}, rows |-> {}, visible |-> TRUE, indexes |-> TRUE,
             claims |-> 0, cold |-> FALSE, restarts |-> 0,
             crashes |-> 0, olds |-> 0, drops |-> 0]

\* Two processes start on an empty prefix and one of them may die for good.
\* Nobody indexes yet.
Cold == [Scenario EXCEPT !.cold = TRUE, !.crashes = 1, !.indexes = FALSE]

\* The older build initialises and indexes at any moment of the install.
Beside == [Scenario EXCEPT !.olds = 4]

\* An operator tears a working catalog down; the teardown or a process dies.
Teardown == [Scenario EXCEPT !.obj = Complete, !.stamps = {Version}, !.crashes = 1, !.drops = 1]

\* The older build comes by, and a process that raised is started again.
Returning == [Scenario EXCEPT !.olds = 1, !.restarts = 1]

\* Catalogs this build did not leave behind.
Found == {[Scenario EXCEPT !.obj = Earlier, !.rows = OldPacks],
          [Scenario EXCEPT !.obj = Complete, !.stamps = {Other}],
          [Scenario EXCEPT !.obj = [Complete EXCEPT !["views"] = "kind"], !.stamps = {Version}],
          [Scenario EXCEPT !.obj = [Complete EXCEPT !["pack"] = "old"], !.stamps = {Version}],
          [Scenario EXCEPT !.obj = [Complete EXCEPT !["capture"] = "bare"], !.stamps = {Version}],
          [Scenario EXCEPT !.obj = Complete, !.stamps = {Version}, !.rows = OldPacks],
          [Scenario EXCEPT !.obj = [Blank EXCEPT !["log"] = "old"]],
          [Scenario EXCEPT !.visible = FALSE]}

\* Writers acquire and renew the lease over an unfinished install.
Borrowed == [Scenario EXCEPT !.claims = 2, !.obj =
                [Blank EXCEPT !["stamp"] = "right", !["lease"] = "right"]]

SchemaScenarios == Found \cup {Cold, Beside, Teardown, Returning, Borrowed}
=============================================================================
