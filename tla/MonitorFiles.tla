---------------------------- MODULE MonitorFiles ----------------------------
(***************************************************************************)
(* A file monitoring workflow: AbstractMonitorFilesWorkflow with its two   *)
(* kinds, local files and files behind an SFTP session.  Execute starts    *)
(* one thread for each awaited path and comes back; a thread polls for its *)
(* file, takes the path off the field _Paths, and the one that finds the   *)
(* field empty sets _CanGoNext.  The field is read, filtered and assigned  *)
(* without a lock, which is three steps here.                              *)
(*                                                                         *)
(* A thread is <<e, p>>: started by the e-th execution for path p.         *)
(*    "none"     was not started                                           *)
(*    "polling"  in the while loop over FileExists (:66)                   *)
(*    "found"    the file was there (:71)                                  *)
(*    "read"     has read the field _Paths (:96)                           *)
(*    "written"  has assigned what is left of it (:96)                     *)
(*    "over"     has counted the field (:97)                               *)
(***************************************************************************)
EXTENDS Naturals

CONSTANTS
    Paths,          \* the paths given to the constructor
    MaxExecutions   \* bound: how often the engine executes the workflow

ASSUME PathsAssumption == Paths # {}
ASSUME ExecutionsAssumption == MaxExecutions \in Nat

VARIABLES
    remote,      \* a MonitorFilesSSHWorkflow, else a MonitorLocalFilesWorkflow
    awaited,     \* the field _Paths
    CanGoNext,   \* _CanGoNext
    call,        \* the current or last Execute
    executions,  \* calls of Execute so far (bounded)
    todo,        \* the paths the foreach has not come to, in any order
    session,     \* _sftpClient: "null", "down" or "up"; "up" for local files
    pc,          \* pc[t]: where thread t stands
    local,       \* local[t]: the value of _Paths thread t has read
    dirs,        \* the paths whose directory exists
    files,       \* the paths that exist
    alive,       \* no thread has ended the process with an exception
    arrived,     \* history: the paths that have existed
    overlap      \* history: a thread read _Paths between another's read and write

vars == <<remote, awaited, CanGoNext, call, executions, todo, session,
          pc, local, dirs, files, alive, arrived, overlap>>

fieldVars == <<awaited, CanGoNext, local, overlap>>
callVars == <<call, executions, todo, session>>
envVars == <<dirs, files, arrived>>

Threads == (1..MaxExecutions) \X Paths

Calls == {"idle", "connecting", "monitoring", "returned", "gaveup", "threw"}
PCs == {"none", "polling", "found", "read", "written", "over"}

Init ==
    /\ remote \in BOOLEAN
    /\ awaited = Paths
    /\ CanGoNext = FALSE
    /\ call = "idle" /\ executions = 0 /\ todo = {}
    /\ session = IF remote THEN "null" ELSE "up"
    /\ pc = [t \in Threads |-> "none"]
    /\ local = [t \in Threads |-> {}]
    /\ dirs \in SUBSET Paths
    /\ files = {} /\ arrived = {}
    /\ alive = TRUE
    /\ overlap = FALSE

-----------------------------------------------------------------------------
(* Execute.  The engine calls it again only after it threw.  An operator     *)
(* marked `Slip' is a way the code could be got wrong, and not part of Next. *)

CanExecute ==
    /\ alive
    /\ call \in {"idle", "threw"}
    /\ executions < MaxExecutions
    /\ executions' = executions + 1

\* The foreach runs over the list that _Paths is now.
ExecuteLocal ==
    /\ CanExecute
    /\ ~remote
    /\ call' = "monitoring"
    /\ todo' = awaited
    /\ UNCHANGED <<remote, fieldVars, session, pc, envVars, alive>>

\* ConnectSFTP: _sftpClient is a new client, not connected yet; or the private
\* key is missing and the field stays what it was.
ExecuteRemote ==
    /\ CanExecute
    /\ remote
    /\ \/ call' = "connecting" /\ session' = "down" /\ UNCHANGED todo
       \/ call' = "monitoring" /\ todo' = awaited /\ UNCHANGED session
    /\ UNCHANGED <<remote, fieldVars, pc, envVars, alive>>

\* Slip: an execution begins with the whole list again.
ConnectAfresh ==
    /\ alive
    /\ call = "connecting"
    /\ session' \in {"up", "down"}
    /\ call' = "monitoring"
    /\ awaited' = Paths /\ todo' = Paths
    /\ UNCHANGED <<remote, executions, CanGoNext, local, overlap, pc, envVars, alive>>

\* Connect succeeds or fails; ConnectSFTP swallows the exception.
Connect ==
    /\ alive
    /\ call = "connecting"
    /\ session' \in {"up", "down"}
    /\ call' = "monitoring"
    /\ todo' = awaited
    /\ UNCHANGED <<remote, executions, fieldVars, pc, envVars, alive>>

Visiting(p) ==
    /\ alive
    /\ call = "monitoring"
    /\ p \in todo

\* The directory exists: a thread for the path.
StartThread(p) ==
    /\ Visiting(p)
    /\ session = "up"
    /\ p \in dirs
    /\ todo' = todo \ {p}
    /\ pc' = [pc EXCEPT ![<<executions, p>>] = "polling"]
    /\ UNCHANGED <<remote, call, executions, session, fieldVars, envVars, alive>>

\* SSHClientNotConnectedException is caught: the path gets no thread.
SkipPath(p) ==
    /\ Visiting(p)
    /\ session = "down"
    /\ todo' = todo \ {p}
    /\ UNCHANGED <<remote, call, executions, session, fieldVars, pc, envVars, alive>>

\* Slip: the local workflow does not catch the exception.
GiveUpUncaught(p) ==
    /\ Visiting(p)
    /\ \/ session = "up" /\ p \notin dirs
       \/ session = "null"
    /\ todo' = {}
    /\ call' = "threw"
    /\ UNCHANGED <<remote, executions, session, fieldVars, pc, envVars, alive>>

\* DirectoryNotFoundException, a null _sftpClient, or whatever the server answers
\* the query for the directory with: the paths after p get no thread.  Only the local
\* workflow catches it, and cancels its context.
GiveUp(p) ==
    /\ Visiting(p)
    /\ \/ session = "up" /\ (remote \/ p \notin dirs)
       \/ session = "null"
    /\ todo' = {}
    /\ call' = IF remote THEN "threw" ELSE "gaveup"
    /\ UNCHANGED <<remote, executions, session, fieldVars, pc, envVars, alive>>

MonitorReturns ==
    /\ alive
    /\ call = "monitoring"
    /\ todo = {}
    /\ call' = "returned"
    /\ UNCHANGED <<remote, executions, todo, session, fieldVars, pc, envVars, alive>>

-----------------------------------------------------------------------------
(* The threads *)

At(t, label) == alive /\ pc[t] = label

Become(t, label) == pc' = [pc EXCEPT ![t] = label]

\* Slip: the thread looks once and ends.
FindFileOnce(t) ==
    /\ At(t, "polling")
    /\ session = "up"
    /\ Become(t, IF t[2] \in files THEN "found" ELSE "none")
    /\ UNCHANGED <<remote, fieldVars, callVars, envVars, alive>>

\* Slip: that the directory of the file exists is enough.
FindDirectory(t) ==
    /\ At(t, "polling")
    /\ session = "up"
    /\ t[2] \in dirs
    /\ Become(t, "found")
    /\ UNCHANGED <<remote, fieldVars, callVars, envVars, alive>>

\* FileExists is true.  Until then the thread sleeps and polls again.
FindFile(t) ==
    /\ At(t, "polling")
    /\ session = "up"
    /\ t[2] \in files
    /\ Become(t, "found")
    /\ UNCHANGED <<remote, fieldVars, callVars, envVars, alive>>

\* FileExists throws, SSHClientNotConnectedException or, while the session is up, an
\* exception of its query: nothing catches it.
PollThrows(t) ==
    /\ At(t, "polling")
    /\ remote
    /\ alive' = FALSE
    /\ UNCHANGED <<remote, fieldVars, callVars, pc, envVars>>

Reading(t) == pc[t] = "read"

\* onFileIsPresent reads _Paths ...
ReadPaths(t) ==
    /\ At(t, "found")
    /\ Become(t, "read")
    /\ local' = [local EXCEPT ![t] = awaited]
    /\ overlap' = (overlap \/ \E u \in Threads : Reading(u))
    /\ UNCHANGED <<remote, awaited, CanGoNext, callVars, envVars, alive>>

\* ... and assigns it without the path.
WritePaths(t) ==
    /\ At(t, "read")
    /\ Become(t, "written")
    /\ awaited' = local[t] \ {t[2]}
    /\ UNCHANGED <<remote, CanGoNext, local, overlap, callVars, envVars, alive>>

\* Slip: the list that was read is counted.
CountStale(t) ==
    /\ At(t, "written")
    /\ Become(t, "over")
    /\ CanGoNext' = (CanGoNext \/ local[t] = {})
    /\ UNCHANGED <<remote, awaited, local, overlap, callVars, envVars, alive>>

\* _Paths.Count() == 0: onAllFilesArePresent.
CountPaths(t) ==
    /\ At(t, "written")
    /\ Become(t, "over")
    /\ CanGoNext' = (CanGoNext \/ awaited = {})
    /\ UNCHANGED <<remote, awaited, local, overlap, callVars, envVars, alive>>

-----------------------------------------------------------------------------
(* The file system and the network *)

MakeDirectory(p) ==
    /\ p \notin dirs
    /\ dirs' = dirs \cup {p}
    /\ UNCHANGED <<remote, fieldVars, callVars, pc, files, arrived, alive>>

FileArrives(p) ==
    /\ p \in dirs \ files
    /\ files' = files \cup {p}
    /\ arrived' = arrived \cup {p}
    /\ UNCHANGED <<remote, fieldVars, callVars, pc, dirs, alive>>

FileLeaves(p) ==
    /\ p \in files
    /\ files' = files \ {p}
    /\ UNCHANGED <<remote, fieldVars, callVars, pc, dirs, arrived, alive>>

SessionDrops ==
    /\ remote
    /\ session = "up"
    /\ session' = "down"
    /\ UNCHANGED <<remote, call, executions, todo, fieldVars, pc, envVars, alive>>

CallStep ==
    \/ ExecuteLocal \/ ExecuteRemote \/ Connect \/ MonitorReturns
    \/ \E p \in Paths : StartThread(p) \/ SkipPath(p) \/ GiveUp(p)

ThreadStep ==
    \E t \in Threads :
        FindFile(t) \/ PollThrows(t) \/ ReadPaths(t) \/ WritePaths(t) \/ CountPaths(t)

EnvStep ==
    \/ SessionDrops
    \/ \E p \in Paths : MakeDirectory(p) \/ FileArrives(p) \/ FileLeaves(p)

Next == CallStep \/ ThreadStep \/ EnvStep

Spec == Init /\ [][Next]_vars

\* Threads run.  Nothing is assumed of the engine, the files or the network.
Fairness ==
    \A t \in Threads :
        WF_vars(FindFile(t)) /\ WF_vars(ReadPaths(t)) /\ WF_vars(WritePaths(t)) /\ WF_vars(CountPaths(t))

FairSpec == Spec /\ Fairness

-----------------------------------------------------------------------------
(* Properties *)

Handling == {"found", "read", "written", "over"}
Off == {"written", "over"}

\* A thread of p has taken p off the list.
Handled(p) == \E t \in Threads : t[2] = p /\ pc[t] \in Off

\* A thread of p has come to its end.
Ended(p) == \E t \in Threads : t[2] = p /\ pc[t] = "over"

\* The shape of the state; only an SSH workflow lets its exception out.
TypeOK ==
    /\ remote \in BOOLEAN
    /\ awaited \in SUBSET Paths
    /\ CanGoNext \in BOOLEAN
    /\ call \in Calls
    /\ executions \in 0..MaxExecutions
    /\ call = "threw" => remote
    /\ todo \in SUBSET Paths
    /\ session \in {"null", "down", "up"}
    /\ pc \in [Threads -> PCs]
    /\ local \in [Threads -> SUBSET Paths]
    /\ dirs \in SUBSET Paths
    /\ files \in SUBSET Paths
    /\ alive \in BOOLEAN
    /\ arrived \in SUBSET Paths
    /\ overlap \in BOOLEAN

\* A path is off the field, or off the copy a thread is about to write back,
\* only when a thread of its own has taken it off, and its file was there.
HandledInv ==
    /\ files \subseteq arrived
    /\ \A t \in Threads : pc[t] \in Handling => t[2] \in arrived
    /\ \A p \in Paths \ awaited : Handled(p)
    /\ \A t \in Threads : Reading(t) => \A p \in Paths \ local[t] : Handled(p)
    /\ CanGoNext => \A p \in Paths : Handled(p)

\* As long as no two threads were between their read and their write at once,
\* the copy a thread holds is current and a path taken off stays off; when the
\* field is empty and the flag not set, the thread of some path has to count.
QuietInv ==
    ~overlap =>
        /\ \A t, u \in Threads : Reading(t) /\ Reading(u) => t = u
        /\ \A t \in Threads : Reading(t) => local[t] = awaited
        /\ \A t \in Threads : pc[t] \in Off => t[2] \notin awaited
        /\ awaited = {} /\ ~CanGoNext => \E p \in Paths : ~Ended(p)

\* A thread is started once: it is still to be started while its execution has
\* not come to its path.
FreshInv ==
    \A t \in Threads :
        /\ t[1] > executions => pc[t] = "none"
        /\ t[1] = executions /\ call = "connecting" => pc[t] = "none"
        /\ t[1] = executions /\ call = "monitoring" /\ t[2] \in todo => pc[t] = "none"

IInv == TypeOK /\ FreshInv /\ HandledInv /\ QuietInv

\* The monitor never says it has finished before every file was there and was
\* found by a thread of its own, whatever the threads overwrite of one another,
\* and whatever paths were skipped or given up (onAllFilesArePresent, :97).
GoMeansAllHandled == CanGoNext => \A p \in Paths : p \in arrived /\ Handled(p)

\* Whatever the threads overwrite of one another, and however often it is executed,
\* a monitor is the gate of FileGate: a path is handled only when its file was
\* there, stays handled, and all of them are handled when _CanGoNext is set, which
\* it then stays (:66-99).
Gate == INSTANCE FileGate WITH
    handled <- {p \in Paths : Handled(p)}, open <- CanGoNext

ImplementsFileGate == Gate!Spec

\* If the threads did not overlap, a monitor whose threads have all come to an
\* end has set the flag, executions that threw half-way included (:75, :97).
QuietMonitorGoes == ~overlap /\ (\A p \in Paths : Ended(p)) => CanGoNext

\* A path that was taken off comes back only by an overlap of two threads, and never
\* by executing the monitor again: what the execution that threw has found stays
\* found (:96, WorkflowRunningState:21).
PathsShrink == [][awaited' \subseteq awaited \/ overlap]_vars

\* A watched path whose file comes to stay, however late, is taken off, if the
\* session stays too and the process lives (:66-72).
Settled(t) == t[2] \in files /\ session = "up" /\ alive

WatchedFileIsHandled ==
    \A t \in Threads :
        <>[]Settled(t) /\ <>(pc[t] = "polling") => <>(pc[t] = "over")

\* What the comment of _CanGoNext says (BaseMonitoringWorkflow.cs:18), of the
\* moment all threads are done: not so, for two threads may write at once.
AllEndedGoes == (\A p \in Paths : Ended(p)) => CanGoNext

\* The command that follows a monitor in the program prints `File has been found'
\* (Program.cs:93): the engine goes on to it when Execute has returned, with every
\* file having been there.
NextStepFindsFiles == call = "returned" => arrived = Paths
=============================================================================
