--------------------------- MODULE MCWorkersQueue ---------------------------
(***************************************************************************)
(* A small instance of WorkersQueue: two drains, which may be one after    *)
(* the other or at once, and enough workers to leave some.                 *)
(***************************************************************************)
EXTENDS WorkersQueue

CONSTANTS w1, w2, w3, d1, d2

MCWorkers == {w1, w2, w3}
MCDrains == {d1, d2}
=============================================================================
