----------------------------- MODULE SerialQueue -----------------------------
(***************************************************************************)
(* What a queue of workers promises, whatever guards it: a worker that was *)
(* put in is begun at most once, workers are begun in the order they were  *)
(* put in, and one works at a time.  WorkersQueue implements it.           *)
(***************************************************************************)
EXTENDS Naturals, Sequences

CONSTANTS Workers, NoWorker

VARIABLES
    accepted,  \* the workers put in so far, in order
    begun,     \* how many of them have been begun
    working    \* the one that works, or NoWorker

vars == <<accepted, begun, working>>

Init ==
    /\ accepted = <<>>
    /\ begun = 0
    /\ working = NoWorker

Accept(w) ==
    /\ \A i \in 1..Len(accepted) : accepted[i] # w
    /\ accepted' = Append(accepted, w)
    /\ UNCHANGED <<begun, working>>

Begin ==
    /\ working = NoWorker
    /\ begun < Len(accepted)
    /\ begun' = begun + 1
    /\ working' = accepted[begun + 1]
    /\ UNCHANGED accepted

End ==
    /\ working # NoWorker
    /\ working' = NoWorker
    /\ UNCHANGED <<accepted, begun>>

Next == (\E w \in Workers : Accept(w)) \/ Begin \/ End

Spec == Init /\ [][Next]_vars
=============================================================================
