------------------------------- MODULE Downloads -------------------------------
(***************************************************************************)
(* SSHClient.DownloadDirectory as a step of a workflow calls it: it walks  *)
(* over the listing of a remote directory, goes into its directories, and  *)
(* for each file moves the local copy to a .bak copy, creates the local    *)
(* file anew and fills it.  A fetch that fails is only logged and leaves   *)
(* the file it created; the session may drop, the server may refuse, the   *)
(* local file system may throw and the process may die at every step.      *)
(*                                                                         *)
(* A tree is walked by `at', the directory whose loop runs, and todo[d],   *)
(* what the loop over d has not come to: the loops above it are those of   *)
(* its parents.  Remote paths are put together without a separator, so     *)
(* they are right only under a root that is written with a slash at its    *)
(* end (slash), and never two levels down.                                 *)
(***************************************************************************)
EXTENDS Naturals

CONSTANTS
    Entries,     \* what is below the remote directory
    Kind,        \* Kind[e]: see Kinds
    Parent,      \* Parent[e]: the directory e is in
    Root,        \* the remote directory itself
    NoEntry,     \* no file in hand
    NoFile,      \* the file does not exist
    Partial,     \* a file that is empty or was cut off
    MaxVersion,  \* bound: how often a remote file changes
    MaxCalls     \* bound: calls of DownloadDirectory

\* A directory whose name is in IgnoreDirectories is not entered but taken for a
\* file; ".csv" files are left out; "dot" is a file whose name begins with a dot.
Kinds == {"file", "csv", "dot", "dir", "ignored"}

Dirs == {Root} \cup {e \in Entries : Kind[e] = "dir"}

ASSUME TreeAssumption ==
    /\ Root \notin Entries /\ NoEntry \notin Entries
    /\ Kind \in [Entries -> Kinds]
    /\ Parent \in [Entries -> Dirs]

ASSUME BoundsAssumption == MaxVersion \in Nat /\ MaxCalls \in Nat

ASSUME ContentAssumption == NoFile \notin Nat /\ Partial \notin Nat /\ NoFile # Partial

VARIABLES
    slash,      \* the remote path ends with a slash
    client,     \* _sftpClient: "null", "down" or "up"
    remote,     \* remote[e]: the version the server has
    local, bak, \* local[e], bak[e]: the local copy and its .bak copy
    pc,         \* "idle", "loop", "move", "create", "fetch", "returned", "threw"
    at, todo,   \* see above
    file,       \* the file in hand
    calls,      \* calls so far (bounded)
    listed,     \* history: this call got the listing of the root
    fetched,    \* history: what this call has filled
    failed,     \* history: what this call could not fill
    good,       \* history: good[e]: the last version e had locally
    rotations   \* history: rotations[e]: how often it was moved on since then

walkVars == <<at, todo, file>>
localVars == <<local, bak, good, rotations>>
callVars == <<calls, listed, fetched, failed>>
vars == <<slash, client, remote, localVars, pc, walkVars, callVars>>

Contents == Nat \cup {NoFile, Partial}

Children(d) == {e \in Entries : Parent[e] = d}

\* The remote path of e leads to e.
Right(e) == slash /\ Parent[e] = Root

Copied(e) == Kind[e] \in {"file", "ignored"}

\* Version 0 is a copy that was there before.
Init ==
    /\ slash \in BOOLEAN /\ client = "null"
    /\ remote = [e \in Entries |-> 1]
    /\ local \in {l \in [Entries -> {NoFile, 0}] : \A e \in Entries : l[e] = 0 => Copied(e)}
    /\ bak = [e \in Entries |-> NoFile]
    /\ pc = "idle" /\ at = Root /\ todo = [d \in Dirs |-> {}] /\ file = NoEntry
    /\ calls = 0 /\ listed = FALSE /\ fetched = {} /\ failed = {}
    /\ good = local /\ rotations = [e \in Entries |-> 0]

-----------------------------------------------------------------------------
(* The environment.                                                          *)

\* ConnectSFTP: the key is missing, the server refuses, or the session is up.
Connect ==
    /\ pc \in {"idle", "returned", "threw"}
    /\ client' \in {client, "down", "up"}
    /\ UNCHANGED <<slash, remote, localVars, pc, walkVars, callVars>>

SessionDrops ==
    /\ client = "up"
    /\ client' = "down"
    /\ UNCHANGED <<slash, remote, localVars, pc, walkVars, callVars>>

RemoteChanges(e) ==
    /\ Kind[e] = "file" /\ remote[e] < MaxVersion
    /\ remote' = [remote EXCEPT ![e] = @ + 1]
    /\ UNCHANGED <<slash, client, localVars, pc, walkVars, callVars>>

\* Nothing of the call is left, where it was and what it did.
Forget ==
    /\ at' = Root /\ todo' = [d \in Dirs |-> {}] /\ file' = NoEntry
    /\ listed' = FALSE /\ fetched' = {} /\ failed' = {}

\* The process dies and is started again; the files stay as they are.
Crash ==
    /\ pc' = "idle" /\ client' = "null"
    /\ Forget
    /\ UNCHANGED <<slash, remote, localVars, calls>>

-----------------------------------------------------------------------------
(* DownloadDirectory.  An operator marked `Slip' is a way the code could be  *)
(* got wrong, and not part of Next.                                          *)

\* The first call, a later one, or the engine's retry of one that threw: there is
\* no client, no session or a blank remote path, no listing, or the loop begins.  The
\* local path is not blank.
Call ==
    /\ pc \in {"idle", "returned", "threw"} /\ calls < MaxCalls
    /\ calls' = calls + 1
    /\ \/ pc' = (IF client = "null" THEN "threw" ELSE "returned") /\ Forget
       \/ client = "up" /\ pc' = "threw" /\ Forget
       \/ /\ client = "up" /\ pc' = "loop"
          /\ listed' = TRUE /\ fetched' = {} /\ failed' = {}
          /\ at' = Root /\ file' = NoEntry
          /\ todo' = [[d \in Dirs |-> {}] EXCEPT ![Root] = Children(Root)]
    /\ UNCHANGED <<slash, client, remote, localVars>>

\* The loop over `at' is left, for the one above it.
Leave ==
    /\ pc' = IF at = Root THEN "returned" ELSE "loop"
    /\ at' = IF at = Root THEN Root ELSE Parent[at]

Take(e) == e \in todo[at] /\ todo' = [todo EXCEPT ![at] = @ \ {e}]

LoopEnds ==
    /\ pc = "loop" /\ todo[at] = {}
    /\ Leave
    /\ UNCHANGED <<slash, client, remote, localVars, todo, file, callVars>>

\* Slip: the file whose name begins with a dot ends the whole download.
VisitDotQuits(e) ==
    /\ pc = "loop" /\ Kind[e] = "dot" /\ Take(e)
    /\ pc' = "returned"
    /\ UNCHANGED <<slash, client, remote, localVars, at, file, callVars>>

\* A file whose name begins with a dot ends the loop over its directory.
VisitDot(e) ==
    /\ pc = "loop" /\ Kind[e] = "dot" /\ Take(e)
    /\ Leave
    /\ UNCHANGED <<slash, client, remote, localVars, file, callVars>>

VisitCsv(e) ==
    /\ pc = "loop" /\ Kind[e] = "csv" /\ Take(e)
    /\ UNCHANGED <<slash, client, remote, localVars, pc, at, file, callVars>>

\* Slip: the directory is not done with when it was entered.
VisitDirAgain(e) ==
    /\ pc = "loop" /\ Kind[e] = "dir" /\ e \in todo[at]
    /\ at' = e /\ todo' = [todo EXCEPT ![e] = Children(e)]
    /\ UNCHANGED <<slash, client, remote, localVars, pc, file, callVars>>

\* Slip: what is in the directory is put into the loop that found it.
VisitDirFlat(e) ==
    /\ pc = "loop" /\ Kind[e] = "dir" /\ e \in todo[at] /\ client = "up" /\ Right(e)
    /\ todo' = [todo EXCEPT ![at] = (@ \ {e}) \cup Children(e)]
    /\ UNCHANGED <<slash, client, remote, localVars, pc, at, file, callVars>>

\* A directory: the call for it returns at once without a session, throws
\* without a listing, or begins its loop.
VisitDir(e) ==
    /\ pc = "loop" /\ Kind[e] = "dir" /\ e \in todo[at]
    /\ \/ client # "up" /\ Take(e) /\ UNCHANGED <<pc, at, file, callVars>>
       \/ client = "up" /\ pc' = "threw" /\ Forget /\ UNCHANGED calls
       \/ /\ client = "up" /\ Right(e)
          /\ at' = e
          /\ todo' = [todo EXCEPT ![at] = @ \ {e}, ![e] = Children(e)]
          /\ UNCHANGED <<pc, file, callVars>>
    /\ UNCHANGED <<slash, client, remote, localVars>>

\* Slip: no .bak copy is made.
VisitFileOver(e) ==
    /\ pc = "loop" /\ Copied(e) /\ Take(e)
    /\ file' = e
    /\ pc' = "create"
    /\ UNCHANGED <<slash, client, remote, localVars, at, callVars>>

\* A file: its local copy, if there is one, is about to be moved, and the .bak
\* copy is deleted for that.
VisitFile(e) ==
    /\ pc = "loop" /\ Copied(e) /\ Take(e)
    /\ file' = e
    /\ IF local[e] = NoFile
       THEN pc' = "create" /\ UNCHANGED localVars
       ELSE /\ pc' = "move"
            /\ bak' = [bak EXCEPT ![e] = NoFile]
            /\ rotations' = [rotations EXCEPT ![e] = @ + 1]
            /\ UNCHANGED <<local, good>>
    /\ UNCHANGED <<slash, client, remote, at, callVars>>

Move ==
    /\ pc = "move"
    /\ bak' = [bak EXCEPT ![file] = local[file]]
    /\ local' = [local EXCEPT ![file] = NoFile]
    /\ pc' = "create"
    /\ UNCHANGED <<slash, client, remote, good, rotations, walkVars, callVars>>

Create ==
    /\ pc = "create"
    /\ local' = [local EXCEPT ![file] = Partial]
    /\ pc' = "fetch"
    /\ UNCHANGED <<slash, client, remote, bak, good, rotations, walkVars, callVars>>

\* The local file system refuses one of these: a file is in use, or the local
\* directory, which nobody creates, is not there.
LocalThrows ==
    /\ \/ pc = "loop" /\ \E e \in todo[at] : Copied(e) /\ local[e] # NoFile /\ bak[e] # NoFile
       \/ pc \in {"move", "create"}
    /\ pc' = "threw"
    /\ Forget
    /\ UNCHANGED <<slash, client, remote, localVars, calls>>

Fetch ==
    /\ pc = "fetch" /\ client = "up" /\ Right(file) /\ Kind[file] = "file"
    /\ local' = [local EXCEPT ![file] = remote[file]]
    /\ good' = [good EXCEPT ![file] = remote[file]]
    /\ rotations' = [rotations EXCEPT ![file] = 0]
    /\ fetched' = fetched \cup {file}
    /\ pc' = "loop" /\ file' = NoEntry
    /\ UNCHANGED <<slash, client, remote, bak, at, todo, calls, listed, failed>>

\* The exception is caught and logged, and the loop goes on.
FetchFails ==
    /\ pc = "fetch"
    /\ failed' = failed \cup {file}
    /\ pc' = "loop" /\ file' = NoEntry
    /\ UNCHANGED <<slash, client, remote, localVars, at, todo, calls, listed, fetched>>

Walk ==
    \/ LoopEnds
    \/ \E e \in Entries : VisitDot(e) \/ VisitCsv(e) \/ VisitDir(e) \/ VisitFile(e)
    \/ Move \/ Create \/ LocalThrows \/ Fetch \/ FetchFails

Next ==
    \/ Connect \/ SessionDrops \/ (\E e \in Entries : RemoteChanges(e)) \/ Crash
    \/ Call \/ Walk

Spec == Init /\ [][Next]_vars

\* The thread of a call runs.
FairSpec == Spec /\ WF_vars(Walk)

-----------------------------------------------------------------------------
(* Properties.                                                               *)

\* Every variable has its shape, and there is a file in hand while one is moved,
\* created or filled.
TypeOK ==
    /\ slash \in BOOLEAN /\ client \in {"null", "down", "up"}
    /\ remote \in [Entries -> Nat]
    /\ local \in [Entries -> Contents] /\ bak \in [Entries -> Contents]
    /\ good \in [Entries -> Nat \cup {NoFile}] /\ rotations \in [Entries -> Nat]
    /\ pc \in {"idle", "loop", "move", "create", "fetch", "returned", "threw"}
    /\ at \in Dirs /\ todo \in [Dirs -> SUBSET Entries]
    /\ \A d \in Dirs : todo[d] \subseteq Children(d)
    /\ IF pc \in {"move", "create", "fetch"}
       THEN file \in Entries /\ Copied(file) ELSE file = NoEntry
    /\ calls \in 0..MaxCalls /\ listed \in BOOLEAN
    /\ fetched \in SUBSET Entries /\ failed \in SUBSET Entries

\* The last good copy of a file is kept, as the local file or as its .bak copy,
\* until it has been moved on twice: one download that fails, or dies anywhere,
\* loses nothing (SSHClient:112-118).  The second one in a row does lose it.
LastGoodSurvives ==
    \A e \in Entries :
        good[e] # NoFile /\ rotations[e] <= 1 => good[e] \in {local[e], bak[e]}

\* A call that listed the directory and returned has come to every file right in
\* it, unless a file there begins with a dot: it was filled with what the server
\* had, or its failure was logged (SSHClient:100-129).  What happens in the
\* directories below does not matter for that.
ReturnedMeansTried ==
    pc = "returned" /\ listed /\ (\A e \in Children(Root) : Kind[e] # "dot")
        => \A e \in Children(Root) : Copied(e) =>
              e \in failed \/ (e \in fetched /\ local[e] = good[e])

\* A call that was begun returns or throws, whatever the tree looks like.
CallEnds == pc = "loop" ~> pc \in {"idle", "returned", "threw"}

(* Why these hold.                                                           *)

\* While the first move is under way the good copy is where it is taken from or
\* already where it goes to.
CopyInv ==
    /\ \A e \in Entries : rotations[e] = 0 => good[e] = NoFile \/ local[e] = good[e]
    /\ \A e \in Entries : good[e] # NoFile /\ rotations[e] = 1 =>
          \/ bak[e] = good[e] /\ ~(pc = "move" /\ file = e)
          \/ local[e] = good[e] /\ ~(pc \in {"create", "fetch"} /\ file = e)
    /\ pc \in {"move", "create", "fetch"} => rotations[file] # 0 \/ good[file] = NoFile

\* The loop over the root has come to all that is not left in it.
RootInv ==
    listed /\ pc \in {"loop", "move", "create", "fetch"} =>
        \A e \in Children(Root) : Copied(e) =>
            /\ e \in todo[Root] \/ e \in failed \/ e \in fetched \/ e = file
            /\ e \in fetched => e \notin todo[Root] /\ e # file /\ local[e] = good[e]
            /\ e = file => e \notin todo[Root]

\* The inductive invariant.
IInv == TypeOK /\ LastGoodSurvives /\ ReturnedMeansTried /\ CopyInv /\ RootInv
=============================================================================
