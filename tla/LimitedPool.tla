----------------------------- MODULE LimitedPool -----------------------------
(***************************************************************************)
(* What a task scheduler with a concurrency level promises, whatever list, *)
(* counter and pool threads it uses: a task runs once; a task either takes *)
(* one of the slots, of which there are MaxConcurrency, or runs in the     *)
(* place of a running task that asked for it; it gives its slot back when  *)
(* it is done.  WorkflowScheduler implements it.                           *)
(***************************************************************************)
EXTENDS Naturals, FiniteSets

CONSTANTS Tasks, MaxConcurrency

VARIABLES
    phase,   \* phase[t]: "new", "queued", "running" or "done"
    slots    \* the running tasks that hold a slot

vars == <<phase, slots>>

Init ==
    /\ phase = [t \in Tasks |-> "new"]
    /\ slots = {}

Become(t, p) == phase' = [phase EXCEPT ![t] = p]

Submit(t) ==
    /\ phase[t] = "new"
    /\ Become(t, "queued")
    /\ UNCHANGED slots

Start(t) ==
    /\ phase[t] = "queued"
    /\ Cardinality(slots) < MaxConcurrency
    /\ Become(t, "running")
    /\ slots' = slots \cup {t}

\* A running task runs t itself.
StartInPlace(t) ==
    /\ phase[t] \in {"new", "queued"}
    /\ \E p \in Tasks : phase[p] = "running"
    /\ Become(t, "running")
    /\ UNCHANGED slots

Finish(t) ==
    /\ phase[t] = "running"
    /\ Become(t, "done")
    /\ slots' = slots \ {t}

Next == \E t \in Tasks : Submit(t) \/ Start(t) \/ StartInPlace(t) \/ Finish(t)

Spec == Init /\ [][Next]_vars
=============================================================================
