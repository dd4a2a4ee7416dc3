------------------------------ MODULE FileGate ------------------------------
(***************************************************************************)
(* What a file monitoring workflow promises, with whatever threads, field  *)
(* and executions: it handles a path once its file was there, each path    *)
(* for itself and for good, and opens the gate for its successor, for      *)
(* good, once it has handled them all.  MonitorFiles implements it; that   *)
(* the gate does open is not promised.                                     *)
(***************************************************************************)
CONSTANT Paths

VARIABLES
    arrived,   \* the paths whose file has been there
    handled,   \* the paths that were handled
    open       \* the successor may go

vars == <<arrived, handled, open>>

Init == arrived = {} /\ handled = {} /\ open = FALSE

Arrive(p) ==
    /\ arrived' = arrived \cup {p}
    /\ UNCHANGED <<handled, open>>

Handle(p) ==
    /\ p \in arrived
    /\ handled' = handled \cup {p}
    /\ UNCHANGED <<arrived, open>>

Open ==
    /\ handled = Paths
    /\ open' = TRUE
    /\ UNCHANGED <<arrived, handled>>

Next == Open \/ \E p \in Paths : Arrive(p) \/ Handle(p)

Spec == Init /\ [][Next]_vars
=============================================================================
