------------------------------ MODULE EditFlow ------------------------------
(***************************************************************************)
(* What the migration promises of the edits of a repository, whatever      *)
(* commands fail and however the pushes of several workers overlap: an     *)
(* edit is made, committed and published in this order, nothing that was   *)
(* committed or published is lost again, also what others have published,  *)
(* and the legacy remote gets something only once its address has stuck.   *)
(* GitMigration implements it.                                             *)
(***************************************************************************)
CONSTANTS Repos, Edits

VARIABLES
    made,        \* made[r]: the edits made here
    committed,   \* committed[r]: the edits of the last commit
    published,   \* published[r][m]: the edits the remote m has
    stuck        \* the repositories whose old address could not be removed

vars == <<made, committed, published, stuck>>

Init ==
    /\ made = [r \in Repos |-> {}] /\ committed = [r \in Repos |-> {}]
    /\ published = [r \in Repos |-> [m \in {"legacy", "bitbucket"} |-> {}]]
    /\ stuck = {}

Make(r, e) ==
    /\ made' = [made EXCEPT ![r] = @ \cup {e}]
    /\ UNCHANGED <<committed, published, stuck>>

MakeElsewhere(r, e) ==
    /\ published' = [published EXCEPT ![r]["bitbucket"] = @ \cup {e}]
    /\ UNCHANGED <<made, committed, stuck>>

Commit(r, S) ==
    /\ committed[r] \subseteq S /\ S \subseteq made[r]
    /\ committed' = [committed EXCEPT ![r] = S]
    /\ UNCHANGED <<made, published, stuck>>

Stick(r) ==
    /\ stuck' = stuck \cup {r}
    /\ UNCHANGED <<made, committed, published>>

Publish(r, m, S) ==
    /\ m = "legacy" => r \in stuck
    /\ published[r][m] \subseteq S /\ S \subseteq committed[r]
    /\ published' = [published EXCEPT ![r][m] = S]
    /\ UNCHANGED <<made, committed, stuck>>

Next ==
    \E r \in Repos :
        \/ Stick(r)
        \/ \E e \in Edits : Make(r, e) \/ MakeElsewhere(r, e)
        \/ \E S \in SUBSET Edits :
              Commit(r, S) \/ \E m \in {"legacy", "bitbucket"} : Publish(r, m, S)

Spec == Init /\ [][Next]_vars
=============================================================================
