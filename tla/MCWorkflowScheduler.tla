------------------------- MODULE MCWorkflowScheduler -------------------------
(***************************************************************************)
(* A small instance of WorkflowScheduler: more tasks than the level, and   *)
(* more threads, so that the level is what keeps tasks from running.       *)
(***************************************************************************)
EXTENDS WorkflowScheduler

CONSTANTS t1, t2, t3, t4, w1, w2, w3

MCTasks == {t1, t2, t3, t4}
MCThreads == {w1, w2, w3}
=============================================================================
