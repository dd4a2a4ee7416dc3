------------------------------ MODULE GitMigration ------------------------------
(***************************************************************************)
(* The migration of a repository: GitMigrationWorker.doWork sends one      *)
(* message down a pipeline whose blocks download the scripts, remove and   *)
(* add the remote, stage, commit and push.  Every command goes through     *)
(* WinAPI.system, whose result nobody looks at, so a command that fails is *)
(* passed by.  doWork waits for the commit and not for the push: the next  *)
(* worker of the drain may begin, on the same repository too, while pushes *)
(* are pending.  Of the workers queue only its promise is used             *)
(* (SerialQueue): one worker at a time.                                    *)
(*                                                                         *)
(* What a repository holds is a set of edits: its working tree, its index, *)
(* its last commit and what each remote has.                               *)
(***************************************************************************)
EXTENDS Naturals

CONSTANTS
    Repos,       \* the repositories
    NoRepo,      \* a worker that was not begun
    Edits,       \* the changes that may be made, in a working tree or on a host
    MaxWorkers   \* bound: how many workers are begun

ASSUME WorkersAssumption == MaxWorkers \in Nat
ASSUME ReposAssumption == NoRepo \notin Repos

Workers == 1..MaxWorkers
Remotes == {"legacy", "bitbucket"}

VARIABLES
    onHost,     \* onHost[r]: the edits in the script files of the host
    work,       \* work[r]: ... in the working tree
    index,      \* index[r]: ... in the index
    head,       \* head[r]: ... in the last commit
    published,  \* published[r][m]: ... in the remote m
    remote,     \* remote[r]: where the remote of the default name points to, or "none"
    begun,      \* how many workers were begun
    repo,       \* repo[k]: the repository of the k-th worker
    pc,         \* pc[k]: the stage of its pipeline, "new" before, "returned" after
    push,       \* push[k]: "none", "pending", "sending", "over"
    target,     \* target[k]: the remote k pushes to
    sent,       \* sent[k]: the edits it pushes
    failed,     \* history: failed[k]: "no", "yes", or "rm": the remote was not removed
    seen,       \* history: seen[k]: work and onHost when k was begun
    edited      \* the edits that were made (each is made once)

fileVars == <<onHost, work, edited>>
gitVars == <<index, head, published, remote>>
pushVars == <<push, target, sent>>
workerVars == <<begun, repo, pc, seen>>
vars == <<fileVars, gitVars, workerVars, pushVars, failed>>

\* The working copies are clones of the legacy repositories.
Init ==
    /\ onHost = [r \in Repos |-> {}] /\ work = [r \in Repos |-> {}]
    /\ index = [r \in Repos |-> {}] /\ head = [r \in Repos |-> {}]
    /\ published = [r \in Repos |-> [m \in Remotes |-> {}]]
    /\ remote = [r \in Repos |-> "legacy"]
    /\ begun = 0
    /\ repo = [k \in Workers |-> NoRepo] /\ pc = [k \in Workers |-> "new"]
    /\ push = [k \in Workers |-> "none"]
    /\ target = [k \in Workers |-> "none"] /\ sent = [k \in Workers |-> {}]
    /\ failed = [k \in Workers |-> "no"]
    /\ seen = [k \in Workers |-> [work |-> {}, onHost |-> {}]]
    /\ edited = {}

-----------------------------------------------------------------------------
(* The environment.                                                          *)

EditHere(r, e) ==
    /\ e \notin edited /\ edited' = edited \cup {e}
    /\ work' = [work EXCEPT ![r] = @ \cup {e}]
    /\ UNCHANGED <<onHost, gitVars, workerVars, pushVars, failed>>

EditOnHost(r, e) ==
    /\ e \notin edited /\ edited' = edited \cup {e}
    /\ onHost' = [onHost EXCEPT ![r] = @ \cup {e}]
    /\ UNCHANGED <<work, gitVars, workerVars, pushVars, failed>>

\* Somebody else pushes to the new repository, from where nothing is ever pulled.
EditOnBitbucket(r, e) ==
    /\ e \notin edited /\ edited' = edited \cup {e}
    /\ published' = [published EXCEPT ![r]["bitbucket"] = @ \cup {e}]
    /\ UNCHANGED <<onHost, work, index, head, remote, workerVars, pushVars, failed>>

-----------------------------------------------------------------------------
(* The worker.  An operator marked `Slip' is a way the code could be got     *)
(* wrong, and not part of Next.                                              *)

InPipeline == {"download", "rm", "add remote", "add", "commit"}

Goes(k, from, to) == pc[k] = from /\ pc' = [pc EXCEPT ![k] = to]

Failed(k) == IF failed[k] = "rm" THEN "rm" ELSE "yes"

Fails(k) == failed' = [failed EXCEPT ![k] = Failed(k)]

\* The drain begins the next worker.
Begin(r) ==
    /\ begun < MaxWorkers
    /\ \A k \in Workers : pc[k] \in {"new", "returned"}
    /\ begun' = begun + 1
    /\ repo' = [repo EXCEPT ![begun + 1] = r]
    /\ pc' = [pc EXCEPT ![begun + 1] = "download"]
    /\ seen' = [seen EXCEPT ![begun + 1] = [work |-> work[r], onHost |-> onHost[r]]]
    /\ UNCHANGED <<fileVars, gitVars, pushVars, failed>>

\* The graph cannot be reached, and doWork throws; or the repository was never
\* cloned, and it returns.
NothingToDo(k) ==
    /\ Goes(k, "download", "returned")
    /\ Fails(k)
    /\ UNCHANGED <<begun, repo, seen, fileVars, gitVars, pushVars>>

\* downloadRecentVersion always throws: GetAll is the one for an object, which
\* casts the repository to a host.  Its task is not awaited, so nobody knows.
Download(k) ==
    /\ Goes(k, "download", "rm")
    /\ UNCHANGED <<begun, repo, seen, fileVars, gitVars, pushVars, failed>>

RemoveRemote(k) ==
    /\ Goes(k, "rm", "add remote")
    /\ \/ remote' = [remote EXCEPT ![repo[k]] = "none"] /\ UNCHANGED failed
       \/ UNCHANGED remote /\ failed' = [failed EXCEPT ![k] = "rm"]
    /\ UNCHANGED <<index, head, published, begun, repo, seen, fileVars, pushVars>>

\* A remote of that name that is still there is not touched.
AddRemote(k) ==
    /\ Goes(k, "add remote", "add")
    /\ \/ /\ remote[repo[k]] = "none"
          /\ remote' = [remote EXCEPT ![repo[k]] = "bitbucket"] /\ UNCHANGED failed
       \/ UNCHANGED remote /\ Fails(k)
    /\ UNCHANGED <<index, head, published, begun, repo, seen, fileVars, pushVars>>

\* Slip: the files are not staged.
AddNoFiles(k) ==
    /\ Goes(k, "add", "commit")
    /\ UNCHANGED <<gitVars, begun, repo, seen, fileVars, pushVars, failed>>

\* Slip: the block is linked to the push as well as to the commit.
AddAllFilesAndPush(k) ==
    /\ Goes(k, "add", "commit")
    /\ index' = [index EXCEPT ![repo[k]] = work[repo[k]]]
    /\ push' = [push EXCEPT ![k] = "pending"]
    /\ UNCHANGED <<head, published, remote, begun, repo, seen, fileVars, target, sent, failed>>

AddAllFiles(k) ==
    /\ Goes(k, "add", "commit")
    /\ \/ index' = [index EXCEPT ![repo[k]] = work[repo[k]]] /\ UNCHANGED failed
       \/ UNCHANGED index /\ Fails(k)
    /\ UNCHANGED <<head, published, remote, begun, repo, seen, fileVars, pushVars>>

\* Slip: a commit that failed is not pushed, nor is one with nothing in it.
CreateCommitOrStop(k) ==
    /\ Goes(k, "commit", "returned")
    /\ \/ /\ head' = [head EXCEPT ![repo[k]] = index[repo[k]]]
          /\ push' = [push EXCEPT ![k] =
                         IF head[repo[k]] = index[repo[k]] THEN "over" ELSE "pending"]
          /\ UNCHANGED failed
       \/ UNCHANGED head /\ Fails(k) /\ push' = [push EXCEPT ![k] = "over"]
    /\ UNCHANGED <<index, published, remote, begun, repo, seen, fileVars, target, sent>>

\* The last stage doWork waits for; it hands its message to the push and doWork
\* returns.
CreateCommit(k) ==
    /\ Goes(k, "commit", "returned")
    /\ \/ head' = [head EXCEPT ![repo[k]] = index[repo[k]]] /\ UNCHANGED failed
       \/ UNCHANGED head /\ Fails(k)
    /\ push' = [push EXCEPT ![k] = "pending"]
    /\ UNCHANGED <<index, published, remote, begun, repo, seen, fileVars, target, sent>>

\* Slip: the push waits for a remote.
PushAllWaits(k) ==
    /\ push[k] = "pending" /\ remote[repo[k]] # "none"
    /\ push' = [push EXCEPT ![k] = "sending"]
    /\ target' = [target EXCEPT ![k] = remote[repo[k]]]
    /\ sent' = [sent EXCEPT ![k] = head[repo[k]]]
    /\ UNCHANGED <<fileVars, gitVars, workerVars, failed>>

\* git push reads the remote and the commit ...
PushAll(k) ==
    /\ push[k] = "pending"
    /\ \/ /\ remote[repo[k]] # "none"
          /\ push' = [push EXCEPT ![k] = "sending"]
          /\ target' = [target EXCEPT ![k] = remote[repo[k]]]
          /\ sent' = [sent EXCEPT ![k] = head[repo[k]]]
          /\ UNCHANGED failed
       \/ /\ push' = [push EXCEPT ![k] = "over"] /\ Fails(k)
          /\ UNCHANGED <<target, sent>>
    /\ UNCHANGED <<fileVars, gitVars, workerVars>>

PushOver(k) ==
    /\ push[k] = "sending"
    /\ push' = [push EXCEPT ![k] = "over"]
    /\ target' = [target EXCEPT ![k] = "none"] /\ sent' = [sent EXCEPT ![k] = {}]

\* Slip: the push is forced.
ForcePushEnds(k) ==
    /\ PushOver(k)
    /\ published' = [published EXCEPT ![repo[k]][target[k]] = sent[k]]
    /\ UNCHANGED <<index, head, remote, failed, fileVars, workerVars>>

\* ... and the server takes what adds to what it has.
PushEnds(k) ==
    /\ PushOver(k)
    /\ \/ /\ published[repo[k]][target[k]] \subseteq sent[k]
          /\ published' = [published EXCEPT ![repo[k]][target[k]] = sent[k]]
          /\ UNCHANGED failed
       \/ UNCHANGED published /\ Fails(k)
    /\ UNCHANGED <<index, head, remote, fileVars, workerVars>>

\* The process dies: the worker is gone, and so are the pushes that are pending.
\* git is a process of its own, and goes on with a push that it is sending; the
\* commands of the pipeline are short, and count as done or not begun.
Crash ==
    /\ pc' = [k \in Workers |-> IF pc[k] = "new" THEN "new" ELSE "returned"]
    /\ push' = [k \in Workers |-> IF push[k] = "pending" THEN "over" ELSE push[k]]
    /\ failed' = [k \in Workers |->
                     IF pc[k] \in InPipeline \/ push[k] = "pending"
                     THEN Failed(k) ELSE failed[k]]
    /\ UNCHANGED <<fileVars, gitVars, begun, repo, seen, target, sent>>

Pipeline(k) ==
    \/ NothingToDo(k) \/ Download(k) \/ RemoveRemote(k) \/ AddRemote(k)
    \/ AddAllFiles(k) \/ CreateCommit(k)

Pushes(k) == PushAll(k) \/ PushEnds(k)

Next ==
    \/ \E r \in Repos, e \in Edits : EditHere(r, e) \/ EditOnHost(r, e) \/ EditOnBitbucket(r, e)
    \/ \E r \in Repos : Begin(r)
    \/ \E k \in Workers : Pipeline(k) \/ Pushes(k)
    \/ Crash

Spec == Init /\ [][Next]_vars

\* The blocks of the pipeline run, and a command that was started ends.
FairSpec == Spec /\ \A k \in Workers : WF_vars(Pipeline(k)) /\ WF_vars(Pushes(k))

-----------------------------------------------------------------------------
(* Properties.                                                               *)

\* Every variable has its shape: the workers were begun in their order, and one
\* pushes only after it has committed.
TypeOK ==
    /\ onHost \in [Repos -> SUBSET Edits] /\ work \in [Repos -> SUBSET Edits]
    /\ index \in [Repos -> SUBSET Edits] /\ head \in [Repos -> SUBSET Edits]
    /\ published \in [Repos -> [Remotes -> SUBSET Edits]]
    /\ remote \in [Repos -> Remotes \cup {"none"}]
    /\ begun \in 0..MaxWorkers
    /\ repo \in [Workers -> Repos \cup {NoRepo}]
    /\ pc \in [Workers -> InPipeline \cup {"new", "returned"}]
    /\ push \in [Workers -> {"none", "pending", "sending", "over"}]
    /\ target \in [Workers -> Remotes \cup {"none"}]
    /\ sent \in [Workers -> SUBSET Edits]
    /\ failed \in [Workers -> {"no", "yes", "rm"}]
    /\ seen \in [Workers -> [work : SUBSET Edits, onHost : SUBSET Edits]]
    /\ edited \in SUBSET Edits
    /\ \A k \in Workers :
          /\ k <= begun <=> pc[k] # "new"
          /\ k <= begun <=> repo[k] \in Repos
          /\ push[k] # "none" => pc[k] = "returned"
          /\ push[k] = "sending" <=> target[k] \in Remotes

Ended(k) == pc[k] = "returned" /\ push[k] \notin {"pending", "sending"}

\* k was the last worker on its repository.
LastOne(k) == \A j \in Workers : j > k => repo[j] # repo[k]

\* Nothing is pushed to the legacy repository, unless a command that should have
\* removed its address failed, which nobody notices (GitMigrationWorker:77).
NeverToLegacy ==
    \A r \in Repos : published[r]["legacy"] # {} =>
        \E k \in Workers : repo[k] = r /\ failed[k] = "rm"

\* What was in the working tree when a worker was begun is in a commit when its
\* doWork has returned with every command done, whoever else was at work
\* meanwhile (GitMigrationWorker:116).
ReturnedMeansCommitted ==
    \A k \in Workers :
        pc[k] = "returned" /\ failed[k] = "no" => seen[k].work \subseteq head[repo[k]]

\* When the push of the last worker has ended and it had no failure, the new
\* repository has the last commit: whatever earlier workers failed to do, whatever
\* was lost with a process, and though their pushes may still be pending
\* (GitMigrationWorker:96-121).
LastMeansPublished ==
    \A k \in 1..begun :
        LastOne(k) /\ failed[k] = "no" /\ Ended(k)
            => head[repo[k]] \subseteq published[repo[k]]["bitbucket"]

\* What a remote has it keeps (GitCommands:9).
PublishedGrows ==
    [][\A r \in Repos, m \in Remotes : published[r][m] \subseteq published'[r][m]]_vars

\* The repositories whose legacy address a worker could not remove.
Stuck == {r \in Repos : \E k \in Workers : repo[k] = r /\ failed[k] = "rm"}

Flow == INSTANCE EditFlow WITH made <- work, committed <- head, stuck <- Stuck

\* Every edit goes from the working tree through a commit to a remote, and no
\* commit and no push loses one again, also one of somebody else's, though pushes
\* overlap, fail and die (GitMigrationWorker:86-99, GitCommands:9).
ImplementsEditFlow == Flow!Spec

\* A worker that was begun returns and its push ends.
MigrationEnds == \A k \in Workers : pc[k] = "download" ~> Ended(k)

(* Why these hold.                                                           *)

\* One worker is in its pipeline, the one begun last.
OneInPipeline == \A k \in Workers : pc[k] \in InPipeline => k = begun

\* A commit has nothing that was not staged, the index nothing that was not there.
GrowInv == \A r \in Repos : head[r] \subseteq index[r] /\ index[r] \subseteq work[r]

\* What a worker found is carried from stage to stage.
CarryInv ==
    \A k \in 1..begun :
        /\ seen[k].work \subseteq work[repo[k]]
        /\ failed[k] = "no" =>
              /\ pc[k] = "commit" => seen[k].work \subseteq index[repo[k]]
              /\ pc[k] = "returned" => seen[k].work \subseteq head[repo[k]]

\* After the first worker that removed the remote it never points back.
AwayInv ==
    \A k \in 1..begun :
        (\A j \in Workers : repo[j] = repo[k] => failed[j] # "rm") =>
            /\ pc[k] \in {"add remote", "add", "commit"} \/ push[k] # "none"
                  => remote[repo[k]] # "legacy"
            /\ target[k] # "legacy"

\* What is being pushed is in a commit.
SentInv == \A k \in Workers : push[k] = "sending" => sent[k] \subseteq head[repo[k]]

\* The last worker without a failure finds the remote it has put in.
LastInv ==
    \A k \in 1..begun : LastOne(k) /\ failed[k] = "no" =>
        /\ pc[k] = "add remote" => remote[repo[k]] = "none"
        /\ pc[k] \in {"add", "commit"} \/ push[k] = "pending" => remote[repo[k]] = "bitbucket"
        /\ pc[k] = "returned" => push[k] # "none"
        /\ push[k] = "sending" => target[k] = "bitbucket" /\ head[repo[k]] \subseteq sent[k]

\* The inductive invariant.
IInv ==
    /\ TypeOK /\ OneInPipeline /\ GrowInv /\ CarryInv /\ SentInv /\ AwayInv /\ LastInv
    /\ NeverToLegacy /\ LastMeansPublished

-----------------------------------------------------------------------------
\* The summary of ScriptSyncService: the script files are downloaded from the
\* host to push unsaved changes to the repository (ScriptSyncService:21).
UnsavedChangesPushed ==
    \A k \in 1..begun :
        Ended(k) /\ failed[k] = "no"
            => seen[k].onHost \subseteq published[repo[k]]["bitbucket"]
=============================================================================
