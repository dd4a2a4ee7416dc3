------------------------------- MODULE GraphSync -------------------------------
(***************************************************************************)
(* ScriptSyncService.generateGraphRepos: three dataflow blocks list the    *)
(* scripts of a host in the graph, link each of them to the repository its *)
(* path names, and go over the links again.  A link is a CREATE of the     *)
(* repository's node and of the relation IS_ON, so a repository has one    *)
(* node and one script; the constraint refuses all others, and the refusal *)
(* is swallowed.  Several calls may run at once, and discovery writes the  *)
(* same graph meanwhile.                                                   *)
(*                                                                         *)
(* pc[k] is the block that has the message of call k, "new" before, "done" *)
(* when the last block is through with it, "unlisted" or "unlinked" when   *)
(* the block that has it faults.  Each block is told to complete when the  *)
(* one before it is over, and the caller waits for the second and for the  *)
(* third.                                                                  *)
(***************************************************************************)
EXTENDS Naturals, ScriptGraph

CONSTANTS
    Repositories,   \* the names of the repositories
    RepositoryOf,   \* RepositoryOf[c]: the name in the path of c's script
    Improper,       \* the names that are blank or contain "crontab"
    NoRepository,
    MaxCalls        \* bound: how many calls there are

ASSUME RepositoriesAssumption ==
    /\ RepositoryOf \in [Commands -> Repositories] /\ NoRepository \notin Repositories
    /\ NoNode \notin Commands
ASSUME CallsAssumption == MaxCalls \in Nat

Calls == 1..MaxCalls

\* syncScripts, generateRepositories and reflectChanges.
Stages == {"list", "link", "reflect"}

VARIABLES
    on,        \* on[c]: the repository that c's script IS_ON
    call,      \* call[k]: "new", "waits" for the blocks, "returned", "threw"
    over,      \* over[k]: the blocks that have completed or faulted
    pc,        \* pc[k]: see above
    host,      \* host[k]: the host the call is for
    listed,    \* listed[k]: the scripts it has listed
    todo,      \* todo[k]: those its block has still to take
    current,   \* current[k]: the one reflectToGraph links for the second time
    missed     \* history: missed[k]: the scripts k has tried, and every query failed

callVars == <<host, listed>>
pipeVars == <<call, over>>
vars == <<graphVars, on, pc, pipeVars, callVars, todo, current, missed>>

Init ==
    /\ GraphInit
    /\ on = [c \in Commands |-> NoRepository]
    /\ call = [k \in Calls |-> "new"] /\ over = [k \in Calls |-> {}]
    /\ pc = [k \in Calls |-> "new"] /\ host = [k \in Calls |-> NoHost]
    /\ listed = [k \in Calls |-> {}] /\ todo = [k \in Calls |-> {}]
    /\ current = [k \in Calls |-> NoNode]
    /\ missed = [k \in Calls |-> {}]

Goes(k, to) == pc' = [pc EXCEPT ![k] = to]

IsOver(k, b) == over' = [over EXCEPT ![k] = @ \cup {b}]

-----------------------------------------------------------------------------
(* The graph.  An operator marked `Slip' is a way the code could be got      *)
(* wrong, and not part of Next.                                              *)

\* Slip: the node is created again for the last script that asks for it.
LinkTakes(c) ==
    on' = [d \in Commands |->
              IF script[c] = NoNode THEN on[d]
              ELSE IF d = c THEN RepositoryOf[c]
              ELSE IF on[d] = RepositoryOf[c] THEN NoRepository ELSE on[d]]

\* ScriptRepositoryRepository.Link: no script, no node; a node that is there is
\* not created again.
Link(c) ==
    on' = IF script[c] # NoNode /\ \A d \in Commands : on[d] # RepositoryOf[c]
          THEN [on EXCEPT ![c] = RepositoryOf[c]] ELSE on

\* c counts as missed if it was not tried before, or missed then.
TryFails(k, c) ==
    missed' = [missed EXCEPT ![k] =
                  IF pc[k] = "link" THEN @ \cup {c} ELSE @]

\* k's query to link c, which may fail: Link swallows that.
TryLink(k, c) ==
    \/ Link(c) /\ missed' = [missed EXCEPT ![k] = @ \ {c}]
    \/ UNCHANGED on /\ TryFails(k, c)

\* Discovery stores a host, or a script of a host: all it does (GraphSpec).
Discovers ==
    /\ Discovered
    /\ UNCHANGED <<on, pc, pipeVars, callVars, todo, current, missed>>

-----------------------------------------------------------------------------
(* The call.                                                                 *)

\* generateGraphRepos posts the host to its first block, and tells that block to
\* complete.
Generate(k, h) ==
    /\ pc[k] = "new" /\ Goes(k, "list")
    /\ call' = [call EXCEPT ![k] = "waits"]
    /\ host' = [host EXCEPT ![k] = h]
    /\ UNCHANGED <<graphVars, on, over, listed, todo, current, missed>>

\* The query failed, or the graph cannot be reached: the block faults.
ListFails(k) ==
    /\ pc[k] = "list" /\ Goes(k, "unlisted") /\ IsOver(k, "list")
    /\ UNCHANGED <<graphVars, on, call, callVars, todo, current, missed>>

\* The scripts are handed to the second block.  A block that hands its message on
\* was told to complete before; it does so here, which nobody waits for sooner.
GetAllScripts(k) ==
    /\ pc[k] = "list" /\ Goes(k, "link") /\ IsOver(k, "list")
    /\ LET found == {c \in Commands : script[c] # NoNode /\ script[c].host = host[k]}
       IN  /\ listed' = [listed EXCEPT ![k] = found]
           /\ todo' = [todo EXCEPT ![k] = found]
    /\ UNCHANGED <<graphVars, on, call, host, current, missed>>

LinkToRepository(k, c) ==
    /\ pc[k] = "link" /\ c \in todo[k]
    /\ TryLink(k, c)
    /\ todo' = [todo EXCEPT ![k] = @ \ {c}]
    /\ UNCHANGED <<graphVars, pc, pipeVars, callVars, current>>

\* The graph cannot be reached: nobody catches it, and the block faults
\* with what it has.
LinkThrows(k) ==
    /\ pc[k] = "link" /\ todo[k] # {} /\ Goes(k, "unlinked") /\ IsOver(k, "link")
    /\ listed' = [listed EXCEPT ![k] = {}] /\ todo' = [todo EXCEPT ![k] = {}]
    /\ UNCHANGED <<graphVars, on, call, host, current, missed>>

\* The message goes on to reflectChanges.
Linked(k) ==
    /\ pc[k] = "link" /\ todo[k] = {} /\ Goes(k, "reflect") /\ IsOver(k, "link")
    /\ todo' = [todo EXCEPT ![k] = listed[k]]
    /\ UNCHANGED <<graphVars, on, call, callVars, current, missed>>

\* reflectToGraph takes the next script: a proper name is linked at once, ...
ReflectProper(k, c) ==
    /\ pc[k] = "reflect" /\ c \in todo[k] /\ current[k] = NoNode
    /\ RepositoryOf[c] \notin Improper
    /\ TryLink(k, c)
    /\ current' = [current EXCEPT ![k] = c]
    /\ UNCHANGED <<graphVars, pc, pipeVars, callVars, todo>>

\* ... one that does not look like a repository is logged, ...
ReflectImproper(k, c) ==
    /\ pc[k] = "reflect" /\ c \in todo[k] /\ current[k] = NoNode
    /\ RepositoryOf[c] \in Improper
    /\ current' = [current EXCEPT ![k] = c]
    /\ UNCHANGED <<graphVars, on, pc, pipeVars, callVars, todo, missed>>

\* ... and either is linked in the second loop.
ReflectAgain(k) ==
    /\ pc[k] = "reflect" /\ current[k] # NoNode
    /\ TryLink(k, current[k])
    /\ todo' = [todo EXCEPT ![k] = @ \ {current[k]}]
    /\ current' = [current EXCEPT ![k] = NoNode]
    /\ UNCHANGED <<graphVars, pc, pipeVars, callVars>>

\* reflectToGraph has gone over all of them.
Reflected(k) ==
    /\ pc[k] = "reflect" /\ todo[k] = {} /\ Goes(k, "done")
    /\ UNCHANGED <<graphVars, on, pipeVars, callVars, todo, current, missed>>

-----------------------------------------------------------------------------
(* How the blocks and the call end.                                          *)

dataVars == <<graphVars, on, pc, callVars, todo, current, missed>>

Before(b) == IF b = "reflect" THEN "link" ELSE "list"

\* Slip: the continuation comes only when the block before did not fault.
ToldOnSuccess(k, b) ==
    Before(b) \in over[k] /\ pc[k] \notin {"unlisted", "unlinked"}

\* b is told to complete by the continuation of the block before, which comes
\* whether that completed or faulted.
Told(k, b) == Before(b) \in over[k]

\* A block that gets no message any more completes when it is told to.
Completes(k, b) ==
    /\ b \notin over[k] /\ Told(k, b) /\ pc[k] # b
    /\ IsOver(k, b)
    /\ UNCHANGED <<call, dataVars>>

\* generateRepositories.Completion.Wait() throws: that block faulted.
Throws(k) ==
    /\ call[k] = "waits" /\ pc[k] = "unlinked"
    /\ call' = [call EXCEPT ![k] = "threw"]
    /\ UNCHANGED <<over, dataVars>>

\* Slip: the last block is not waited for.
ReturnsEarly(k) ==
    /\ call[k] = "waits" /\ "link" \in over[k] /\ pc[k] # "unlinked"
    /\ call' = [call EXCEPT ![k] = "returned"]
    /\ UNCHANGED <<over, dataVars>>

\* Both have completed: generateRepositories, and then reflectChanges, which never
\* faults.
Returns(k) ==
    /\ call[k] = "waits" /\ {"link", "reflect"} \subseteq over[k] /\ pc[k] # "unlinked"
    /\ call' = [call EXCEPT ![k] = "returned"]
    /\ UNCHANGED <<over, dataVars>>

Works(k) ==
    \/ ListFails(k) \/ GetAllScripts(k) \/ LinkThrows(k) \/ Linked(k)
    \/ ReflectAgain(k) \/ Reflected(k)
    \/ \E c \in Commands :
          LinkToRepository(k, c) \/ ReflectProper(k, c) \/ ReflectImproper(k, c)

Ends(k) ==
    Throws(k) \/ Returns(k) \/ \E b \in {"link", "reflect"} : Completes(k, b)

Next ==
    \/ Discovers
    \/ \E k \in Calls : Works(k) \/ Ends(k) \/ \E h \in Hosts : Generate(k, h)

Spec == Init /\ [][Next]_vars

\* The blocks and their continuations run on the thread pool, and a query ends.
FairSpec == Spec /\ \A k \in Calls : WF_vars(Works(k)) /\ WF_vars(Ends(k))

-----------------------------------------------------------------------------
(* Properties.                                                               *)

Types ==
    /\ GraphTypeOK
    /\ on \in [Commands -> Repositories \cup {NoRepository}]
    /\ call \in [Calls -> {"new", "waits", "returned", "threw"}]
    /\ over \in [Calls -> SUBSET Stages]
    /\ pc \in [Calls -> {"new", "list", "link", "reflect", "done", "unlisted", "unlinked"}]
    /\ host \in [Calls -> Hosts \cup {NoHost}]
    /\ listed \in [Calls -> SUBSET Commands] /\ todo \in [Calls -> SUBSET Commands]
    /\ current \in [Calls -> Commands \cup {NoNode}]
    /\ missed \in [Calls -> SUBSET Commands]

CallsOK ==
    \A k \in Calls :
        /\ todo[k] \subseteq listed[k]
        /\ current[k] # NoNode => pc[k] = "reflect" /\ current[k] \in todo[k]
        /\ pc[k] \in {"new", "list"} => listed[k] = {}
        /\ pc[k] # "new" => host[k] \in Hosts
        /\ \A c \in listed[k] : script[c] # NoNode /\ script[c].host = host[k]
        /\ call[k] \in {"returned", "threw"} => pc[k] \notin Stages

\* Every variable has its shape: what a call has to link it has listed, every script
\* is listed under its host, and a call that is over has no message under way.
TypeOK == Types /\ CallsOK

\* The repository of c has exactly one script.
HasOneScript(c) ==
    \E d \in Commands : \A e \in Commands : on[e] = RepositoryOf[c] <=> e = d

\* When a call has returned, the repository of every script it listed is in the
\* graph and one script is linked to it, though the call found the constraint in
\* its way, other calls were linking the same repositories, and some of its
\* queries failed: all those for that script would have to
\* (ScriptSyncService:164-219).
ReturnedMeansLinked ==
    \A k \in Calls : call[k] = "returned" =>
        \A c \in listed[k] \ missed[k] : HasOneScript(c)

\* Calls that link the same repositories at once, beside a discovery, do what
\* RepositoryLinks promises: the second loop, another call or a retry never takes
\* a repository from the script that has it (ScriptRepositoryRepository:50-74).
Answers == [k \in Calls |-> IF call[k] = "returned" THEN listed[k] \ missed[k] ELSE {}]
Known == {c \in Commands : script[c] # NoNode}

Links == INSTANCE RepositoryLinks WITH known <- Known, answer <- Answers

ImplementsRepositoryLinks == Links!Spec

\* A call comes back, whichever block faults and with whatever message: each block
\* behind it is told to complete all the same (ScriptSyncService:62-67).
CallEnds == \A k \in Calls : call[k] = "waits" ~> call[k] \in {"returned", "threw"}

(* Why these hold.                                                           *)

\* Once it was tried without a failure, a script's repository is there.
TriedInv ==
    \A k \in Calls : pc[k] \in {"link", "reflect", "done"} =>
        \A c \in listed[k] \ missed[k] :
            HasOneScript(c) \/ (pc[k] = "link" /\ c \in todo[k])

\* A script is linked to the repository of its path, and a repository to one script.
LinkInv ==
    \A c \in Commands :
        /\ on[c] \in {NoRepository, RepositoryOf[c]}
        /\ \A d \in Commands : on[c] = on[d] /\ on[c] # NoRepository => c = d

\* A block is over only when the ones before it are and the message is behind it or
\* lost, and the caller is where the blocks have let it go.
PipeInv ==
    \A k \in Calls :
        /\ pc[k] = "new" <=> call[k] = "new"
        /\ "list" \in over[k] <=> pc[k] \notin {"new", "list"}
        /\ "link" \in over[k] => pc[k] \notin {"new", "list", "link"}
        /\ "reflect" \in over[k] => "link" \in over[k] /\ pc[k] # "reflect"
        /\ pc[k] = "unlisted" => listed[k] = {}
        /\ call[k] = "threw" => pc[k] = "unlinked"
        /\ call[k] = "returned" => "reflect" \in over[k] /\ pc[k] # "unlinked"

\* The inductive invariant.
IInv == TypeOK /\ PipeInv /\ LinkInv /\ TriedInv
=============================================================================
