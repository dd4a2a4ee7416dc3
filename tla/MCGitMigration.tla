----------------------------- MODULE MCGitMigration -----------------------------
(***************************************************************************)
(* A small instance of GitMigration: workers on the same repository and on *)
(* another one, and two edits, so that the second one may come while the   *)
(* first one is being pushed.                                              *)
(***************************************************************************)
EXTENDS GitMigration

CONSTANTS r1, r2, e1, e2
=============================================================================
