---------------------------- MODULE CronDiscovery ----------------------------
(***************************************************************************)
(* The discovery of crontabs: CronDiscoveryService.Discover makes a worker *)
(* for a host and enqueues it, the worker connects, reads the crontab line *)
(* by line, and each line puts the one shared ReaderStateContext into a    *)
(* state that is handled at once.  Two threads use that context: the       *)
(* caller of Discover, whose new worker initializes it, and the drain of   *)
(* the workers queue.  setState writes the field currentState and then     *)
(* handles what the field holds, which is two steps here; so is handling   *)
(* an InitialReaderState, which names the host and then stores it.         *)
(*                                                                         *)
(* Of the queue only its promise is used (SerialQueue): in order, one      *)
(* worker at a time, and no Enqueue while a worker works.                  *)
(*                                                                         *)
(* pc[a] tells where a thread stands:                                      *)
(*    "idle"     outside                                                   *)
(*    "handle"   has assigned currentState (ReaderStateContext:71)         *)
(*    "create"   has assigned currentHostName (InitialReaderState:24)      *)
(*    "enqueue"  the caller's worker is initialized                        *)
(*    "connect"  the worker was dequeued                                   *)
(*    "fetch"    the worker has initialized the context again              *)
(*    "read"     the worker is between two lines                           *)
(***************************************************************************)
EXTENDS Naturals, Sequences, ScriptGraph

CONSTANTS
    Crontabs,        \* the crontabs a host may have: sequences of lines
    MaxDiscoveries   \* bound: how many calls of Discover there are

RoleLine(r) == [kind |-> "role", role |-> r]
ScriptLine(c) == [kind |-> "script", command |-> c]
BrokenLine == [kind |-> "broken"]   \* fewer than five fields: GetCron throws
Lines == {RoleLine(r) : r \in Roles} \cup {ScriptLine(c) : c \in Commands}
            \cup {BrokenLine}

ASSUME CrontabsAssumption == Crontabs \subseteq Seq(Lines)
ASSUME DiscoveriesAssumption == MaxDiscoveries \in Nat

VARIABLES
    hostName,      \* currentHostName
    currentRole,   \* currentRole
    currentState,  \* currentState
    crontab,       \* crontab[h]: what `crontab -l' prints on h, without blank lines
    pc,            \* pc[a]: see above
    host,          \* host[a]: the host of the worker that a makes or runs
    creating,      \* creating[a]: the host of the InitialReaderState a handles
    line,          \* how many lines the worker has parsed
    session,       \* the worker's SSH session is up
    queue,         \* the hosts of the enqueued workers
    discoveries,   \* calls of Discover so far (bounded)
    readTo,        \* history: readTo[h]: how many lines of h were handled
    crossed,       \* history: both threads were in the context at once
    lossy          \* history: a query failed

contextVars == <<hostName, currentRole, currentState>>
workerVars == <<line, session>>
queueVars == <<queue, discoveries>>

vars == <<contextVars, graphVars, crontab, pc, host, creating, workerVars,
          queueVars, readTo, crossed, lossy>>

Threads == {"caller", "worker"}

Initial(h) == [kind |-> "initial", host |-> h]
NoState == [kind |-> "null"]

Init ==
    /\ GraphInit
    /\ hostName = NoHost /\ currentRole = NoRole /\ currentState = NoState
    /\ crontab \in [Hosts -> Crontabs]
    /\ pc = [a \in Threads |-> "idle"]
    /\ host = [a \in Threads |-> NoHost]
    /\ creating = [a \in Threads |-> NoHost]
    /\ line = 0 /\ session = FALSE
    /\ queue = <<>> /\ discoveries = 0
    /\ readTo = [h \in Hosts |-> 0]
    /\ crossed = FALSE /\ lossy = FALSE

-----------------------------------------------------------------------------
(* The reader context.  An operator marked `Slip' is a way the code could be *)
(* got wrong, and not part of Next.                                          *)

\* Thread a is using the context, if pc is at.
Inside(a, at) == at[a] \in {"handle", "create", "fetch", "read"}

Move(a, to) ==
    /\ pc' = [pc EXCEPT ![a] = to]
    /\ crossed' = (crossed \/ \A b \in Threads : Inside(b, pc'))

\* Where a thread goes on when its state was handled.
Resumes(a) == IF a = "caller" THEN "enqueue" ELSE IF line = 0 THEN "fetch" ELSE "read"

\* setState for an InitialReaderState: refused as long as no host is named.
SetInitial(a, h) ==
    /\ hostName # NoHost
    /\ currentState' = Initial(h)
    /\ Move(a, "handle")

\* The worker's line counts as handled, whichever state was found in the field.
Handled(a) ==
    readTo' = IF a = "worker" /\ line > readTo[host[a]]
              THEN [readTo EXCEPT ![host[a]] = line] ELSE readTo

\* Slip: the role is not remembered.
HandleRoleLost(a) ==
    /\ pc[a] = "handle" /\ currentState.kind = "role"
    /\ Move(a, Resumes(a))
    /\ Handled(a)
    /\ UNCHANGED <<contextVars, graphVars, crontab, host, creating, workerVars,
                   queueVars, lossy>>

\* Slip: a script that is there is made the host's own.
HandleScriptTakes(a) ==
    /\ pc[a] = "handle" /\ currentState.kind = "script"
    /\ \/ /\ hostName \in hosts
          /\ script' = [script EXCEPT ![currentState.command] =
                            [host |-> hostName, role |-> currentRole]]
          /\ UNCHANGED <<hosts, lossy>>
       \/ QueryFails /\ lossy' = TRUE
    /\ Move(a, Resumes(a))
    /\ Handled(a)
    /\ UNCHANGED <<contextVars, crontab, host, creating, workerVars, queueVars>>

\* InitialReaderState.handle names the host ...
HandleInitial(a) ==
    /\ pc[a] = "handle" /\ currentState.kind = "initial"
    /\ hostName' = currentState.host
    /\ creating' = [creating EXCEPT ![a] = currentState.host]
    /\ Move(a, "create")
    /\ UNCHANGED <<currentRole, currentState, graphVars, crontab, host, workerVars,
                   queueVars, readTo, lossy>>

\* ... and stores it.
StoreHost(a) ==
    /\ pc[a] = "create"
    /\ \/ CreateHost(creating[a]) /\ UNCHANGED lossy
       \/ QueryFails /\ lossy' = TRUE
    /\ Move(a, Resumes(a))
    /\ Handled(a)
    /\ UNCHANGED <<contextVars, crontab, host, creating, workerVars, queueVars>>

HandleRole(a) ==
    /\ pc[a] = "handle" /\ currentState.kind = "role"
    /\ currentRole' = currentState.role
    /\ Move(a, Resumes(a))
    /\ Handled(a)
    /\ UNCHANGED <<hostName, currentState, graphVars, crontab, host, creating,
                   workerVars, queueVars, lossy>>

\* NewScriptReaderState.handle: role and host are what the context says now.
HandleScript(a) ==
    /\ pc[a] = "handle" /\ currentState.kind = "script"
    /\ \/ /\ CreateAndMatch(currentState.command, currentRole, hostName)
          /\ UNCHANGED lossy
       \/ QueryFails /\ lossy' = TRUE
    /\ Move(a, Resumes(a))
    /\ Handled(a)
    /\ UNCHANGED <<contextVars, crontab, host, creating, workerVars, queueVars>>

\* The graph cannot be reached: GetConnection's exception leaves setState, and
\* with it Discover or the worker.
Unreachable(a) ==
    /\ \/ pc[a] = "create"
       \/ pc[a] = "handle" /\ currentState.kind = "script"
    /\ Move(a, "idle")
    /\ UNCHANGED <<contextVars, graphVars, crontab, host, creating, workerVars,
                   queueVars, readTo, lossy>>

-----------------------------------------------------------------------------
(* The caller of CronDiscoveryService, and the worker in the drain.          *)

\* The owner of the context assigns its public property, which is the only way
\* a first InitialReaderState is ever let in.
AssignHostName(h) ==
    /\ hostName = NoHost
    /\ hostName' = h
    /\ UNCHANGED <<currentRole, currentState, graphVars, crontab, pc, host, creating,
                   workerVars, queueVars, readTo, crossed, lossy>>

\* Discover: the constructor of the worker initializes the shared context.
Discover(h) ==
    /\ pc["caller"] = "idle" /\ discoveries < MaxDiscoveries
    /\ discoveries' = discoveries + 1
    /\ host' = [host EXCEPT !["caller"] = h]
    /\ SetInitial("caller", h)
    /\ UNCHANGED <<hostName, currentRole, graphVars, crontab, creating, workerVars,
                   queue, readTo, lossy>>

\* ... or throws ReaderStateContextNotInitializedException.
DiscoverThrows(h) ==
    /\ pc["caller"] = "idle" /\ discoveries < MaxDiscoveries
    /\ hostName = NoHost
    /\ discoveries' = discoveries + 1
    /\ host' = [host EXCEPT !["caller"] = h]
    /\ UNCHANGED <<contextVars, graphVars, crontab, pc, creating, workerVars, queue,
                   readTo, crossed, lossy>>

\* The permit of the queue is free, and the worker goes in.
Enqueue ==
    /\ pc["caller"] = "enqueue" /\ pc["worker"] = "idle"
    /\ queue' = Append(queue, host["caller"])
    /\ Move("caller", "idle")
    /\ UNCHANGED <<contextVars, graphVars, crontab, host, creating, workerVars,
                   discoveries, readTo, lossy>>

\* Slip: the reader's position is left over from the worker before.
BeginWorkInside ==
    /\ pc["worker"] = "idle" /\ queue # <<>>
    /\ queue' = Tail(queue)
    /\ host' = [host EXCEPT !["worker"] = Head(queue)]
    /\ session' = FALSE
    /\ Move("worker", "connect")
    /\ UNCHANGED <<contextVars, graphVars, crontab, creating, line, discoveries,
                   readTo, lossy>>

\* DeqeueAllAsync takes the next worker and calls doWork.
BeginWork ==
    /\ pc["worker"] = "idle" /\ queue # <<>>
    /\ queue' = Tail(queue)
    /\ host' = [host EXCEPT !["worker"] = Head(queue)]
    /\ line' = 0 /\ session' = FALSE
    /\ Move("worker", "connect")
    /\ UNCHANGED <<contextVars, graphVars, crontab, creating, discoveries, readTo, lossy>>

\* ConnectSSH faults (no key, authentication), or GetCronFile found no session
\* and returned null, or a line has too few fields: doWork throws.
WorkThrows ==
    /\ \/ pc["worker"] = "connect"
       \/ pc["worker"] = "fetch" /\ ~session
       \/ /\ pc["worker"] = "read" /\ line < Len(crontab[host["worker"]])
          /\ crontab[host["worker"]][line + 1] = BrokenLine
    /\ Move("worker", "idle")
    /\ UNCHANGED <<contextVars, graphVars, crontab, host, creating, workerVars,
                   queueVars, readTo, lossy>>

\* Slip: the context keeps the host of the last worker that was made.
ReinitializeNot ==
    /\ pc["worker"] = "connect"
    /\ session' \in BOOLEAN
    /\ Move("worker", "fetch")
    /\ UNCHANGED <<contextVars, graphVars, crontab, host, creating, line,
                   queueVars, readTo, lossy>>

\* ConnectSSH returned, with a session or with an error it only logged, and the
\* context is initialized again.
Reinitialize ==
    /\ pc["worker"] = "connect"
    /\ session' \in BOOLEAN
    /\ SetInitial("worker", host["worker"])
    /\ UNCHANGED <<hostName, currentRole, graphVars, crontab, host, creating, line,
                   queueVars, readTo, lossy>>

\* GetCronFile returns the crontab, ...
GetCronFile ==
    /\ pc["worker"] = "fetch" /\ session
    /\ Move("worker", "read")
    /\ UNCHANGED <<contextVars, graphVars, crontab, host, creating, workerVars,
                   queueVars, readTo, lossy>>

\* ... or an empty text when `crontab -l' failed, and the work ends as well as
\* it does after the last line.
WorkEnds ==
    /\ \/ pc["worker"] = "fetch" /\ session
       \/ pc["worker"] = "read" /\ line = Len(crontab[host["worker"]])
    /\ Move("worker", "idle")
    /\ UNCHANGED <<contextVars, graphVars, crontab, host, creating, workerVars,
                   queueVars, readTo, lossy>>

\* Slip: the reader does not come past a line.
ReadLineAgain ==
    /\ pc["worker"] = "read" /\ line < Len(crontab[host["worker"]])
    /\ crontab[host["worker"]][line + 1] # BrokenLine
    /\ currentState' = crontab[host["worker"]][line + 1]
    /\ Move("worker", "handle")
    /\ line' = IF line = 0 THEN 1 ELSE line
    /\ UNCHANGED <<hostName, currentRole, graphVars, crontab, host, creating,
                   session, queueVars, readTo, lossy>>

\* Parse makes the state of the next line and setState assigns it.
ReadLine ==
    /\ pc["worker"] = "read" /\ line < Len(crontab[host["worker"]])
    /\ crontab[host["worker"]][line + 1] # BrokenLine
    /\ currentState' = crontab[host["worker"]][line + 1]
    /\ line' = line + 1
    /\ Move("worker", "handle")
    /\ UNCHANGED <<hostName, currentRole, graphVars, crontab, host, creating,
                   session, queueVars, readTo, lossy>>

Handle(a) ==
    \/ HandleInitial(a) \/ StoreHost(a) \/ HandleRole(a) \/ HandleScript(a)
    \/ Unreachable(a)

Work ==
    \/ WorkThrows \/ Reinitialize \/ GetCronFile \/ WorkEnds \/ ReadLine
    \/ Handle("worker")

Next ==
    \/ \E h \in Hosts : AssignHostName(h) \/ Discover(h) \/ DiscoverThrows(h)
    \/ Handle("caller") \/ Enqueue
    \/ BeginWork \/ Work

Spec == Init /\ [][Next]_vars

\* The drain goes on with the worker it has; nothing makes a caller drain again
\* after a worker threw, so BeginWork is not fair.
FairSpec == Spec /\ WF_vars(Work)

-----------------------------------------------------------------------------
(* Properties.                                                               *)

States == {NoState} \cup {Initial(h) : h \in Hosts} \cup Lines

\* Every variable has its shape: a thread that handles has a state to handle, a
\* worker that works has a host and has not parsed more lines than there are.
TypeOK ==
    /\ GraphTypeOK
    /\ hostName \in Hosts \cup {NoHost}
    /\ currentRole \in Roles \cup {NoRole}
    /\ currentState \in States \ {BrokenLine}
    /\ crontab \in [Hosts -> Crontabs]
    /\ pc \in [Threads -> {"idle", "handle", "create", "enqueue", "connect",
                           "fetch", "read"}]
    /\ pc["caller"] \notin {"connect", "fetch", "read"} /\ pc["worker"] # "enqueue"
    /\ host \in [Threads -> Hosts \cup {NoHost}]
    /\ creating \in [Threads -> Hosts \cup {NoHost}]
    /\ \A a \in Threads :
          /\ pc[a] # "idle" => host[a] # NoHost /\ (pc[a] = "handle" => currentState # NoState)
          /\ pc[a] = "create" => creating[a] # NoHost
    /\ line \in Nat /\ session \in BOOLEAN
    /\ pc["worker"] # "idle" => line <= Len(crontab[host["worker"]])
    /\ queue \in Seq(Hosts) /\ discoveries \in 0..MaxDiscoveries
    /\ readTo \in [Hosts -> Nat]
    /\ crossed \in BOOLEAN /\ lossy \in BOOLEAN

\* Line i of a crontab is the script c.
RunsAt(lines, i, c) ==
    /\ i \in 1..Len(lines)
    /\ lines[i] = ScriptLine(c)

\* r is named by the last role line among the first i lines.
RoleAt(lines, i, r) ==
    \E j \in 1..i :
        /\ lines[j] = RoleLine(r)
        /\ \A k \in (j + 1)..i : lines[k].kind # "role"

StartsWithRole(lines) == Len(lines) > 0 /\ lines[1].kind = "role"

\* As long as no worker was made while another one read, every script is hosted
\* by a machine whose crontab runs it (NewScriptReaderState:24).
OnHostThatRunsIt ==
    ~crossed => \A c \in Commands : script[c] # NoNode =>
        \E i \in 1..Len(crontab[script[c].host]) : RunsAt(crontab[script[c].host], i, c)

\* ... and its role is the one of the comment above it in that crontab, if the
\* crontab begins with one as the parser expects (NewScriptReaderState:23).
\* A crontab that does not begins with the last role of the host before it.
RoleFromItsCrontab ==
    ~crossed => \A c \in Commands : script[c] # NoNode =>
        LET lines == crontab[script[c].host]
        IN  StartsWithRole(lines) =>
                \E i \in 1..Len(lines) :
                    RunsAt(lines, i, c) /\ RoleAt(lines, i, script[c].role)

\* As long as no query failed either, every script line that was handled has its
\* script in the graph, also when the worker threw at a later line.
HandledMeansStored ==
    ~crossed /\ ~lossy => \A h \in Hosts, c \in Commands :
        \A i \in 1..readTo[h] : RunsAt(crontab[h], i, c) => script[c] # NoNode

\* A script stays on the host that was the first to be read with it: the second
\* host that runs the same command gets nothing (ScriptExecutionRepository:169).
FirstHostKeeps ==
    [][\A c \in Commands : script[c] # NoNode => script'[c] = script[c]]_vars

\* A worker that was begun ends or throws.
WorkerEnds == pc["worker"] = "connect" ~> pc["worker"] = "idle"

(* Why these hold.                                                           *)

\* The worker has parsed a line and its state is still to be handled.
AtLine == pc["worker"] \in {"handle", "create"} /\ line > 0

\* No line is skipped: what was parsed was handled, but for the last line.
ReadInv ==
    /\ pc["worker"] \in {"connect", "fetch"} => line = 0
    /\ pc["worker"] = "read" => line <= readTo[host["worker"]]
    /\ AtLine => line - 1 <= readTo[host["worker"]]
    /\ \A h \in Hosts : readTo[h] <= Len(crontab[h])

\* While the worker has the context for itself, it finds what it put there: its
\* state and its host.
AloneInv ==
    /\ ~crossed => ~ \A a \in Threads : Inside(a, pc)
    /\ ~crossed /\ pc["caller"] = "handle" => currentState = Initial(host["caller"])
    /\ ~crossed /\ pc["worker"] = "handle" =>
          currentState = IF line = 0 THEN Initial(host["worker"])
                         ELSE crontab[host["worker"]][line]
    /\ ~crossed /\ pc["worker"] = "create" => line = 0 /\ creating["worker"] = host["worker"]
    /\ ~crossed /\ (pc["worker"] \in {"create", "fetch", "read"} \/ AtLine)
          => hostName = host["worker"]

\* ... and the last role it read.
RoleInv ==
    LET lines == crontab[host["worker"]]
    IN  /\ ~crossed /\ AtLine /\ line > 1 /\ StartsWithRole(lines)
              => RoleAt(lines, line - 1, currentRole)
        /\ ~crossed /\ pc["worker"] = "read" /\ line > 0 /\ StartsWithRole(lines)
              => RoleAt(lines, line, currentRole)

\* Without a failed query the host of the worker is in the graph before its
\* crontab is fetched.
StoredInv ==
    ~crossed /\ ~lossy /\ (pc["worker"] \in {"fetch", "read"} \/ AtLine)
        => host["worker"] \in hosts

\* The inductive invariant.
IInv ==
    /\ TypeOK /\ ReadInv /\ AloneInv /\ RoleInv /\ StoredInv
    /\ OnHostThatRunsIt /\ RoleFromItsCrontab /\ HandledMeansStored
=============================================================================
