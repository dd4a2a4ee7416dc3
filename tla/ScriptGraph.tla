----------------------------- MODULE ScriptGraph -----------------------------
(***************************************************************************)
(* The part of the graph that discovery writes: the hosts, and the script  *)
(* executions with the host that HOSTS them.  The constraints the          *)
(* repositories create make a host unique by its name and a script         *)
(* execution unique by its command, so the graph is a set of hosts and a   *)
(* function from commands.  A query that fails is swallowed by the         *)
(* repository and changes nothing; a connection that cannot be made is     *)
(* not, and is the caller's exception.                                     *)
(***************************************************************************)
CONSTANTS
    Hosts,      \* the names of the remote hosts
    Roles,      \* the roles the crontabs name
    Commands,   \* the commands the crontabs run
    NoHost,     \* no host name: null or ""
    NoRole,     \* the role before the first one is read
    NoNode      \* a command without a script execution

ASSUME NamesAssumption ==
    /\ NoHost \notin Hosts
    /\ NoRole \notin Roles
    /\ NoNode \notin [host : Hosts, role : Roles \cup {NoRole}]

VARIABLES
    hosts,      \* the RemoteHost nodes
    script      \* script[c]: the ScriptExecution node of command c, with its host

graphVars == <<hosts, script>>

ScriptNodes == [host : Hosts, role : Roles \cup {NoRole}]

GraphTypeOK ==
    /\ hosts \subseteq Hosts
    /\ script \in [Commands -> ScriptNodes \cup {NoNode}]

GraphInit ==
    /\ hosts = {}
    /\ script = [c \in Commands |-> NoNode]

\* Slip: the host found missing is not put in.
MatchHost(h) ==
    /\ hosts' = hosts
    /\ UNCHANGED script

\* RemoteHostRepository.Create: a MERGE on the name.
CreateHost(h) ==
    /\ hosts' = hosts \cup {h}
    /\ UNCHANGED script

\* ScriptExecutionRepository.CreateAndMatch: nothing is matched, so nothing is
\* created, when the host is not there; a second CREATE of a command is refused.
CreateAndMatch(c, r, h) ==
    /\ script' = IF h \in hosts /\ script[c] = NoNode
                 THEN [script EXCEPT ![c] = [host |-> h, role |-> r]] ELSE script
    /\ UNCHANGED hosts

\* The query threw and the repository returned null.
QueryFails == UNCHANGED graphVars

\* A step of discovery: a host is stored, or a script of a host, without a role if
\* its line stood above the first one that names a role.
Discovered ==
    \/ \E h \in Hosts : CreateHost(h)
    \/ \E c \in Commands, r \in Roles \cup {NoRole}, h \in Hosts : CreateAndMatch(c, r, h)

\* What discovery does to the graph, whichever hosts it reads and in whatever
\* order: it puts hosts in, and scripts on the hosts that are there, and nothing
\* leaves the graph or changes (ReaderStateContext:58-62).  CronDiscovery
\* implements it, and GraphSync relies on it.
GraphSpec == GraphInit /\ [][Discovered]_graphVars
=============================================================================
