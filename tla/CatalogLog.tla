----------------------------- MODULE CatalogLog -----------------------------
(***************************************************************************)
(* What the catalog of CatalogPublish promises its readers: the append-only *)
(* log of snapshots of SnapshotLog.                                         *)
(***************************************************************************)
EXTENDS CatalogPublish

(* The log a reader sees: at every version of the watermark table, the packs *)
(* its manifest admits.                                                      *)
ReaderLog == [v \in {r.version : r \in watermark} |-> Admitted(v)]
Log == INSTANCE SnapshotLog WITH log <- ReaderLog

(* The catalog implements an append-only log of snapshots: publishes land   *)
(* one at a time, each above every version published before, and no later   *)
(* publish, late statement or garbage collection changes what a reader sees *)
(* at a published version.                                                  *)
ImplementsSnapshotLog == Log!Spec
=============================================================================
