------------------------------ MODULE MCDownloads ------------------------------
(***************************************************************************)
(* A small instance of Downloads: a file, a table and a directory that    *)
(* holds a file and one whose name begins with a dot.                      *)
(***************************************************************************)
EXTENDS Downloads

CONSTANTS script, table, lib, deep, dotted

MCKind ==
    [e \in Entries |-> CASE e = table -> "csv" [] e = lib -> "dir"
                         [] e = dotted -> "dot" [] OTHER -> "file"]

MCParent == [e \in Entries |-> IF e \in {deep, dotted} THEN lib ELSE Root]
=============================================================================
