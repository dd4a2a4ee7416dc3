------------------------------ MODULE ChainRun ------------------------------
(***************************************************************************)
(* What the workflow contexts promise, without threads, queues or locks:   *)
(* the steps of a chain complete one after the other, each on or after its *)
(* own date; a cancellation lets at most the step in flight complete; a    *)
(* monitoring step that finds its directory missing gives up by cancelling *)
(* its own context; a context is disposed only once it is finished, and    *)
(* stays so.  WorkflowQueue implements it.                                 *)
(***************************************************************************)
EXTENDS Naturals, Sequences

CONSTANT Contexts

VARIABLES
    chain,      \* chain[c]: the steps, a sequence of [date, monitor] records
    now,        \* the wall clock
    phase,      \* phase[c]: "open", "finished" or "disposed"
    completed,  \* completed[c]: how many steps have completed
    cancelled,  \* cancelled[c]: the cancellation token of the context
    late        \* late[c]: how many steps completed after the cancellation

vars == <<chain, now, phase, completed, cancelled, late>>

Init ==
    /\ phase = [c \in Contexts |-> "open"]
    /\ completed = [c \in Contexts |-> 0]
    /\ cancelled = [c \in Contexts |-> FALSE]
    /\ late = [c \in Contexts |-> 0]

\* The next step of c exists and its date has come.
CanStart(c) ==
    /\ phase[c] = "open"
    /\ completed[c] < Len(chain[c])
    /\ chain[c][completed[c] + 1].date <= now

\* Leaving its next step behind, c is finished if that was the last.
PhaseAfterStep(c) ==
    IF completed[c] + 1 = Len(chain[c])
    THEN [phase EXCEPT ![c] = "finished"] ELSE phase

CompleteStep(c) ==
    /\ CanStart(c)
    /\ cancelled[c] => late[c] = 0
    /\ completed' = [completed EXCEPT ![c] = @ + 1]
    /\ late' = [late EXCEPT ![c] = IF cancelled[c] THEN 1 ELSE @]
    /\ phase' = PhaseAfterStep(c)
    /\ UNCHANGED <<chain, now, cancelled>>

\* The next step is a monitoring step whose directory does not exist.
GiveUp(c) ==
    /\ CanStart(c)
    /\ chain[c][completed[c] + 1].monitor
    /\ cancelled' = [cancelled EXCEPT ![c] = TRUE]
    /\ phase' = PhaseAfterStep(c)
    /\ UNCHANGED <<chain, now, completed, late>>

Cancel(c) ==
    /\ cancelled' = [cancelled EXCEPT ![c] = TRUE]
    /\ UNCHANGED <<chain, now, phase, completed, late>>

Dispose(c) ==
    /\ phase[c] = "finished"
    /\ phase' = [phase EXCEPT ![c] = "disposed"]
    /\ UNCHANGED <<chain, now, completed, cancelled, late>>

Tick ==
    /\ now' = now + 1
    /\ UNCHANGED <<chain, phase, completed, cancelled, late>>

Next ==
    \/ \E c \in Contexts : CompleteStep(c) \/ GiveUp(c) \/ Cancel(c) \/ Dispose(c)
    \/ Tick

Spec == Init /\ [][Next]_vars
=============================================================================
