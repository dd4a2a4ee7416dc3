--------------------------- MODULE MCWorkflowQueue ---------------------------
(***************************************************************************)
(* Small instances of WorkflowQueue for TLC.                               *)
(***************************************************************************)
EXTENDS WorkflowQueue

CONSTANTS a, b

Plain(t)   == [date |-> t, monitor |-> FALSE]
Monitor(t) == [date |-> t, monitor |-> TRUE]

MCContexts == {a, b}
MCOnlyA    == {a}

\* One step; a monitoring step, then a later one; a due step, then a monitoring one.
MCChains ==
    {<<Plain(1)>>, <<Monitor(0), Plain(1)>>, <<Plain(0), Monitor(0)>>}

MCOneChain == {<<Plain(0), Plain(0)>>}
=============================================================================
