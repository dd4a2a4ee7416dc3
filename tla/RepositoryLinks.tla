--------------------------- MODULE RepositoryLinks ---------------------------
(***************************************************************************)
(* What linking scripts to repositories promises, whatever queries fail    *)
(* and however many calls link at once: a repository is linked to one      *)
(* script of the graph, the first that asked for it, for ever; and the     *)
(* scripts a call answers for, when it returns, have linked repositories.  *)
(* GraphSync implements it.                                                *)
(***************************************************************************)
CONSTANTS Commands, RepositoryOf, NoRepository, Calls

VARIABLES
    known,    \* the scripts of the graph
    on,       \* on[c]: the repository c is linked to
    answer    \* answer[k]: the scripts call k answers for, none before it returns

vars == <<known, on, answer>>

Init ==
    /\ known = {}
    /\ on = [c \in Commands |-> NoRepository]
    /\ answer = [k \in Calls |-> {}]

Linked(c) == \E d \in Commands : on[d] = RepositoryOf[c]

Know(c) ==
    /\ known' = known \cup {c}
    /\ UNCHANGED <<on, answer>>

Link(c) ==
    /\ c \in known /\ ~Linked(c)
    /\ on' = [on EXCEPT ![c] = RepositoryOf[c]]
    /\ UNCHANGED <<known, answer>>

Answer(k, S) ==
    /\ answer[k] = {}
    /\ \A c \in S : c \in known /\ Linked(c)
    /\ answer' = [answer EXCEPT ![k] = S]
    /\ UNCHANGED <<known, on>>

Next ==
    \/ \E c \in Commands : Know(c) \/ Link(c)
    \/ \E k \in Calls, S \in SUBSET Commands : Answer(k, S)

Spec == Init /\ [][Next]_vars
=============================================================================
