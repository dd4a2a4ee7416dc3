--------------------------- MODULE MCMonitorFiles ---------------------------
(***************************************************************************)
(* A small instance of MonitorFiles: enough paths for two threads to       *)
(* overwrite each other, and one more execution than the first.            *)
(***************************************************************************)
EXTENDS MonitorFiles

CONSTANTS p1, p2

MCPaths == {p1, p2}
=============================================================================
