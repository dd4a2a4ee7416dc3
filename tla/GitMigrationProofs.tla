--------------------------- MODULE GitMigrationProofs ---------------------------
(***************************************************************************)
(* The safety of the migration, for any repositories, edits and number of  *)
(* workers.  AwayInv follows the address of a repository away from the     *)
(* legacy remote, CarryInv what a worker found up to its commit, LastInv   *)
(* the commit of the last worker up to the new remote.                     *)
(***************************************************************************)
EXTENDS GitMigration, TLAPS

PCs == InPipeline \cup {"new", "returned"}

\* The variables of the types, by actor.
FileType ==
  /\ onHost \in [Repos -> SUBSET Edits] /\ work \in [Repos -> SUBSET Edits]
  /\ edited \in SUBSET Edits

GitType ==
  /\ index \in [Repos -> SUBSET Edits] /\ head \in [Repos -> SUBSET Edits]
  /\ published \in [Repos -> [Remotes -> SUBSET Edits]]
  /\ remote \in [Repos -> Remotes \cup {"none"}]

WorkerType ==
  /\ begun \in 0..MaxWorkers
  /\ repo \in [Workers -> Repos \cup {NoRepo}]
  /\ pc \in [Workers -> PCs]
  /\ failed \in [Workers -> {"no", "yes", "rm"}]
  /\ seen \in [Workers -> [work : SUBSET Edits, onHost : SUBSET Edits]]
  /\ \A k \in Workers : (k <= begun <=> pc[k] # "new") /\ (k <= begun <=> repo[k] \in Repos)

PushType ==
  /\ push \in [Workers -> {"none", "pending", "sending", "over"}]
  /\ target \in [Workers -> Remotes \cup {"none"}]
  /\ sent \in [Workers -> SUBSET Edits]
  /\ \A k \in Workers : /\ push[k] # "none" => pc[k] = "returned"
                        /\ push[k] = "sending" <=> target[k] \in Remotes

LEMMA TypeParts == TypeOK <=> FileType /\ GitType /\ WorkerType /\ PushType
  BY DEF TypeOK, FileType, GitType, WorkerType, PushType, PCs

-----------------------------------------------------------------------------
(* Types *)

LEMMA InitType == Init => TypeOK
  <1> SUFFICES ASSUME Init PROVE FileType /\ GitType /\ WorkerType /\ PushType
    BY TypeParts
  <1>1. FileType /\ GitType
    BY DEF Init, FileType, GitType, Remotes
  <1>2. WorkerType
    BY WorkersAssumption, ReposAssumption DEF Init, WorkerType, PCs, Workers
  <1>3. PushType
    BY DEF Init, PushType, Remotes
  <1> QED
    BY <1>1, <1>2, <1>3

\* A stage of a worker that was begun.
LEMMA GoesType ==
  ASSUME WorkerType, NEW k \in Workers, NEW f, NEW t, Goes(k, f, t),
         f \in InPipeline, t \in PCs \ {"new"}
  PROVE  /\ pc' \in [Workers -> PCs] /\ pc'[k] = t /\ k <= begun /\ repo[k] \in Repos
         /\ \A j \in Workers : j # k => pc'[j] = pc[j]
         /\ \A j \in Workers : pc'[j] # "new" <=> pc[j] # "new"
  BY DEF Goes, WorkerType, PCs, InPipeline

LEMMA FailsType ==
  ASSUME WorkerType, NEW k \in Workers,
         Fails(k) \/ failed' = [failed EXCEPT ![k] = "rm"] \/ UNCHANGED failed
  PROVE  failed' \in [Workers -> {"no", "yes", "rm"}]
  BY DEF Fails, Failed, WorkerType

LEMMA StepType == TypeOK /\ [Next]_vars => TypeOK'
  <1> SUFFICES ASSUME FileType, GitType, WorkerType, PushType, [Next]_vars
               PROVE  FileType' /\ GitType' /\ WorkerType' /\ PushType'
    BY DEF TypeOK, FileType, GitType, WorkerType, PushType, PCs
  <1> USE DEF fileVars, gitVars, workerVars, pushVars
  <1>1. ASSUME NEW r \in Repos, NEW e \in Edits,
               EditHere(r, e) \/ EditOnHost(r, e) \/ EditOnBitbucket(r, e)
        PROVE  FileType' /\ GitType' /\ WorkerType' /\ PushType'
    <2>1. FileType'
      BY <1>1 DEF EditHere, EditOnHost, EditOnBitbucket, FileType
    <2>2. GitType'
      <3>1. published' \in [Repos -> [Remotes -> SUBSET Edits]]
        BY <1>1 DEF EditHere, EditOnHost, EditOnBitbucket, GitType, Remotes
      <3> QED
        BY <1>1, <3>1 DEF EditHere, EditOnHost, EditOnBitbucket, GitType
    <2>3. WorkerType' /\ PushType'
      BY <1>1 DEF EditHere, EditOnHost, EditOnBitbucket, WorkerType, PushType
    <2> QED
      BY <2>1, <2>2, <2>3
  <1>2. ASSUME NEW r \in Repos, Begin(r)
        PROVE  FileType' /\ GitType' /\ WorkerType' /\ PushType'
    <2>1. begun + 1 \in Workers /\ begun' = begun + 1 /\ begun' \in 0..MaxWorkers
      BY <1>2, WorkersAssumption DEF Begin, WorkerType, Workers
    <2>2. [work |-> work[r], onHost |-> onHost[r]] \in [work : SUBSET Edits, onHost : SUBSET Edits]
      BY DEF FileType
    <2>3. /\ repo' \in [Workers -> Repos \cup {NoRepo}] /\ pc' \in [Workers -> PCs]
          /\ seen' \in [Workers -> [work : SUBSET Edits, onHost : SUBSET Edits]]
      BY <1>2, <2>1, <2>2 DEF Begin, WorkerType, PCs, InPipeline
    <2>4. ASSUME NEW k \in Workers
          PROVE  /\ k <= begun' <=> pc'[k] # "new"
                 /\ k <= begun' <=> repo'[k] \in Repos
      <3>1. k <= begun' <=> k <= begun \/ k = begun + 1
        BY <2>1, WorkersAssumption DEF Workers, WorkerType
      <3> QED
        BY <1>2, <2>1, <3>1 DEF Begin, WorkerType
    <2>5. \A k \in Workers : pc[k] = "returned" => pc'[k] = "returned"
      <3>1. pc[begun + 1] = "new"
        BY <2>1, WorkersAssumption DEF WorkerType, Workers
      <3> QED
        BY <1>2, <2>1, <3>1 DEF Begin, WorkerType
    <2> QED
      BY <1>2, <2>1, <2>3, <2>4, <2>5
      DEF Begin, FileType, GitType, WorkerType, PushType
  <1>3. ASSUME NEW k \in Workers, Pipeline(k)
        PROVE  FileType' /\ GitType' /\ WorkerType' /\ PushType'
    <2>1. \E f \in InPipeline, t \in PCs \ {"new"} : Goes(k, f, t)
      BY <1>3 DEF Pipeline, NothingToDo, Download, RemoveRemote, AddRemote, AddAllFiles,
                  CreateCommit, PCs, InPipeline
    <2>2. /\ pc' \in [Workers -> PCs] /\ repo[k] \in Repos
          /\ \A j \in Workers : pc'[j] # "new" <=> pc[j] # "new"
          /\ \A j \in Workers : pc[j] = "returned" => pc'[j] = "returned"
      BY <2>1, GoesType DEF Goes, InPipeline, WorkerType
    <2>3. failed' \in [Workers -> {"no", "yes", "rm"}]
      BY <1>3, FailsType DEF Pipeline, NothingToDo, Download, RemoveRemote, AddRemote,
                             AddAllFiles, CreateCommit
    <2>4. WorkerType' /\ FileType'
      BY <1>3, <2>2, <2>3 DEF Pipeline, NothingToDo, Download, RemoveRemote, AddRemote,
                              AddAllFiles, CreateCommit, WorkerType, FileType
    <2>5. GitType'
      BY <1>3, <2>2 DEF Pipeline, NothingToDo, Download, RemoveRemote, AddRemote,
                        AddAllFiles, CreateCommit, GitType, FileType, Remotes
    <2>6. PushType'
      <3>1. CASE CreateCommit(k)
        BY <3>1, <2>2, GoesType DEF CreateCommit, PushType, Goes, WorkerType
      <3>2. CASE UNCHANGED pushVars
        BY <3>2, <2>2 DEF PushType
      <3> QED
        BY <1>3, <3>1, <3>2 DEF Pipeline, NothingToDo, Download, RemoveRemote, AddRemote,
                                AddAllFiles
    <2> QED
      BY <2>4, <2>5, <2>6
  <1>4. ASSUME NEW k \in Workers, PushAll(k)
        PROVE  FileType' /\ GitType' /\ WorkerType' /\ PushType'
    <2>1. repo[k] \in Repos
      BY <1>4 DEF PushAll, PushType, WorkerType
    <2>2. failed' \in [Workers -> {"no", "yes", "rm"}]
      BY <1>4, FailsType DEF PushAll
    <2>3. PushType'
      <3>1. remote[repo[k]] \in Remotes \cup {"none"} /\ head[repo[k]] \in SUBSET Edits
        BY <2>1 DEF GitType
      <3>2. CASE /\ remote[repo[k]] # "none"
                 /\ push' = [push EXCEPT ![k] = "sending"]
                 /\ target' = [target EXCEPT ![k] = remote[repo[k]]]
                 /\ sent' = [sent EXCEPT ![k] = head[repo[k]]]
        BY <1>4, <3>1, <3>2 DEF PushAll, PushType
      <3>3. CASE push' = [push EXCEPT ![k] = "over"] /\ UNCHANGED <<target, sent>>
        BY <1>4, <3>3 DEF PushAll, PushType
      <3> QED
        BY <1>4, <3>2, <3>3 DEF PushAll
    <2> QED
      BY <1>4, <2>2, <2>3 DEF PushAll, FileType, GitType, WorkerType
  <1>5. ASSUME NEW k \in Workers, PushEnds(k)
        PROVE  FileType' /\ GitType' /\ WorkerType' /\ PushType'
    <2>1. repo[k] \in Repos /\ target[k] \in Remotes
      BY <1>5 DEF PushEnds, PushOver, PushType, WorkerType
    <2>2. failed' \in [Workers -> {"no", "yes", "rm"}]
      BY <1>5, FailsType DEF PushEnds
    <2>3. PushType'
      BY <1>5, <2>1 DEF PushEnds, PushOver, PushType, Remotes
    <2>4. published' \in [Repos -> [Remotes -> SUBSET Edits]]
      <3>1. /\ sent[k] \in SUBSET Edits /\ published \in [Repos -> [Remotes -> SUBSET Edits]]
            /\ published[repo[k]] \in [Remotes -> SUBSET Edits]
        BY <2>1 DEF PushType, GitType
      <3>2. CASE published' = [published EXCEPT ![repo[k]][target[k]] = sent[k]]
        BY <2>1, <3>1, <3>2
      <3> QED
        BY <1>5, <3>1, <3>2 DEF PushEnds
    <2> QED
      BY <1>5, <2>2, <2>3, <2>4 DEF PushEnds, FileType, GitType, WorkerType
  <1>6. CASE Crash
    <2>1. WorkerType'
      BY <1>6 DEF Crash, WorkerType, PCs, Failed
    <2>2. PushType'
      BY <1>6, <2>1 DEF Crash, PushType, WorkerType, Remotes
    <2> QED
      BY <1>6, <2>1, <2>2 DEF Crash, FileType, GitType
  <1>7. CASE UNCHANGED vars
    BY <1>7 DEF vars, FileType, GitType, WorkerType, PushType
  <1> QED
    BY <1>1, <1>2, <1>3, <1>4, <1>5, <1>6, <1>7 DEF Next, Pushes

\* The state always has its declared shape: workers are begun in their order, and
\* push after they have returned.
THEOREM TypeCorrect == Spec => []TypeOK
  <1>1. Init => TypeOK
    BY InitType
  <1>2. TypeOK /\ [Next]_vars => TypeOK'
    BY StepType
  <1> QED
    BY <1>1, <1>2, PTL DEF Spec

-----------------------------------------------------------------------------
(* What a step leaves alone *)

\* Nothing is taken back: not the repository of a worker, what it found, or that
\* it failed.
LEMMA StepKeeps ==
  ASSUME TypeOK, [Next]_vars, NEW k \in 1..begun
  PROVE  /\ k \in Workers /\ k \in 1..begun' /\ repo[k] \in Repos
         /\ repo'[k] = repo[k] /\ seen'[k] = seen[k]
         /\ failed[k] = "rm" => failed'[k] = "rm"
         /\ failed'[k] = "no" => failed[k] = "no"
  <1>0. /\ k \in Workers /\ begun \in 0..MaxWorkers /\ repo[k] \in Repos
        /\ repo \in [Workers -> Repos \cup {NoRepo}]
        /\ failed \in [Workers -> {"no", "yes", "rm"}]
        /\ seen \in [Workers -> [work : SUBSET Edits, onHost : SUBSET Edits]]
    BY WorkersAssumption DEF TypeOK, Workers
  <1>1. ASSUME NEW r \in Repos, Begin(r)
        PROVE  /\ k \in 1..begun' /\ repo'[k] = repo[k] /\ seen'[k] = seen[k]
               /\ UNCHANGED failed
    <2>1. begun + 1 \in Workers /\ k # begun + 1 /\ begun' = begun + 1
      BY <1>0, <1>1, WorkersAssumption DEF Begin, Workers
    <2> QED
      BY <1>0, <1>1, <2>1 DEF Begin
  <1>2. ASSUME UNCHANGED <<begun, repo, seen>>,
               \/ UNCHANGED failed
               \/ \E j \in Workers : Fails(j) \/ failed' = [failed EXCEPT ![j] = "rm"]
               \/ Crash
        PROVE  /\ repo'[k] = repo[k] /\ seen'[k] = seen[k] /\ k \in 1..begun'
               /\ failed[k] = "rm" => failed'[k] = "rm"
               /\ failed'[k] = "no" => failed[k] = "no"
    BY <1>0, <1>2 DEF Fails, Failed, Crash
  <1>3. ASSUME NEW j \in Workers, Pipeline(j)
        PROVE  /\ UNCHANGED <<begun, repo, seen>>
               /\ UNCHANGED failed \/ Fails(j) \/ failed' = [failed EXCEPT ![j] = "rm"]
    BY <1>3 DEF Pipeline, NothingToDo, Download, RemoveRemote, AddRemote, AddAllFiles,
                CreateCommit
  <1>4. ASSUME NEW j \in Workers, Pushes(j)
        PROVE  UNCHANGED <<begun, repo, seen>> /\ (UNCHANGED failed \/ Fails(j))
    BY <1>4 DEF Pushes, PushAll, PushEnds, workerVars
  <1>5. ASSUME NEW r \in Repos, NEW e \in Edits,
               EditHere(r, e) \/ EditOnHost(r, e) \/ EditOnBitbucket(r, e)
        PROVE  UNCHANGED <<begun, repo, seen, failed>>
    BY <1>5 DEF EditHere, EditOnHost, EditOnBitbucket, workerVars
  <1>6. CASE Crash
    BY <1>0, <1>2, <1>6 DEF Crash
  <1>7. CASE UNCHANGED vars
    BY <1>0, <1>2, <1>7 DEF vars, workerVars
  <1> QED
    BY <1>0, <1>1, <1>2, <1>3, <1>4, <1>5, <1>6, <1>7 DEF Next

LEMMA StepLast ==
  ASSUME TypeOK, [Next]_vars, NEW k \in 1..begun, LastOne(k)'
  PROVE  LastOne(k)
  <1> SUFFICES ASSUME NEW j \in Workers, j > k, repo[j] = repo[k]
               PROVE  FALSE
    BY DEF LastOne
  <1>1. repo[k] \in Repos /\ repo'[k] = repo[k]
    BY StepKeeps
  <1>2. j \in 1..begun
    BY <1>1, WorkersAssumption DEF TypeOK, Workers
  <1>3. repo'[j] = repo[j]
    BY <1>2, StepKeeps
  <1> QED
    BY <1>1, <1>3 DEF LastOne

\* A worker in its pipeline was begun.
LEMMA PipelineBegun ==
  ASSUME TypeOK, OneInPipeline, NEW k \in Workers, pc[k] \in InPipeline
  PROVE  k = begun /\ k \in 1..begun /\ repo[k] \in Repos
  <1>1. k = begun
    BY DEF OneInPipeline
  <1>2. pc[k] # "new"
    BY DEF InPipeline
  <1>3. k <= begun /\ repo[k] \in Repos
    BY <1>2 DEF TypeOK
  <1> QED
    BY <1>1, <1>3, WorkersAssumption DEF Workers

LEMMA StepOne == TypeOK /\ OneInPipeline /\ [Next]_vars => OneInPipeline'
  <1> SUFFICES ASSUME TypeOK, OneInPipeline, [Next]_vars, NEW k \in Workers,
                      pc'[k] \in InPipeline
               PROVE  k = begun'
    BY DEF OneInPipeline
  <1>0. pc \in [Workers -> InPipeline \cup {"new", "returned"}]
    BY DEF TypeOK
  <1>1. ASSUME NEW r \in Repos, Begin(r)
        PROVE  k = begun'
    BY <1>0, <1>1 DEF Begin, InPipeline
  <1>2. ASSUME NEW j \in Workers, Pipeline(j)
        PROVE  k = begun'
    <2>1. begun' = begun /\ pc[j] \in InPipeline /\ (k # j => pc'[k] = pc[k])
      BY <1>0, <1>2 DEF Pipeline, NothingToDo, Download, RemoveRemote, AddRemote,
                        AddAllFiles, CreateCommit, Goes, InPipeline
    <2> QED
      BY <2>1 DEF OneInPipeline
  <1>3. CASE UNCHANGED <<pc, begun>>
    BY <1>3 DEF OneInPipeline
  <1>4. CASE Crash
    BY <1>4 DEF Crash, InPipeline
  <1> QED
    BY <1>1, <1>2, <1>3, <1>4 DEF Next, Pushes, PushAll, PushEnds, EditHere, EditOnHost,
       EditOnBitbucket, workerVars, vars

\* What a remote has it keeps.
LEMMA StepPublishes ==
  ASSUME TypeOK, [Next]_vars, NEW r \in Repos, NEW m \in Remotes
  PROVE  published[r][m] \subseteq published'[r][m]
  <1>0. published \in [Repos -> [Remotes -> SUBSET Edits]] /\ published[r] \in [Remotes -> SUBSET Edits]
    BY DEF TypeOK
  <1>1. CASE UNCHANGED published
    BY <1>1
  <1>2. ASSUME NEW s \in Repos, NEW e \in Edits, EditOnBitbucket(s, e)
        PROVE  published[r][m] \subseteq published'[r][m]
    BY <1>0, <1>2 DEF EditOnBitbucket
  <1>3. ASSUME NEW k \in Workers, PushEnds(k)
        PROVE  published[r][m] \subseteq published'[r][m]
    BY <1>0, <1>1, <1>3 DEF PushEnds
  <1> QED
    BY <1>1, <1>2, <1>3
    DEF Next, Pipeline, NothingToDo, Download, RemoveRemote, AddRemote, AddAllFiles,
        CreateCommit, Pushes, PushAll, EditHere, EditOnHost, Begin, Crash, gitVars, vars

-----------------------------------------------------------------------------
(* From the working tree to the commit *)

\* What may change in the files and commits of a repository, and by whom.
LEMMA StepFiles ==
  ASSUME TypeOK, OneInPipeline, [Next]_vars, NEW r \in Repos
  PROVE  /\ work[r] \subseteq work'[r]
         /\ \/ index'[r] = index[r]
            \/ index'[r] = work[r] /\ work'[r] = work[r] /\ head'[r] = head[r]
         /\ \/ head'[r] = head[r]
            \/ /\ head'[r] = index[r] /\ index'[r] = index[r]
               /\ repo[begun] = r /\ begun \in Workers
  <1>0. /\ work \in [Repos -> SUBSET Edits] /\ index \in [Repos -> SUBSET Edits]
        /\ head \in [Repos -> SUBSET Edits]
    BY DEF TypeOK
  <1>1. CASE UNCHANGED <<work, index, head>>
    BY <1>1
  <1>2. ASSUME NEW s \in Repos, NEW e \in Edits, EditHere(s, e)
        PROVE  work[r] \subseteq work'[r] /\ UNCHANGED <<index, head>>
    BY <1>0, <1>2 DEF EditHere, gitVars
  <1>3. ASSUME NEW k \in Workers, AddAllFiles(k)
        PROVE  /\ UNCHANGED <<work, head>>
               /\ index'[r] = index[r] \/ index'[r] = work[r]
    BY <1>0, <1>3 DEF AddAllFiles, fileVars
  <1>4. ASSUME NEW k \in Workers, CreateCommit(k)
        PROVE  /\ UNCHANGED <<work, index>>
               /\ \/ head'[r] = head[r]
                  \/ head'[r] = index[r] /\ repo[begun] = r /\ begun \in Workers
    <2>1. k = begun
      BY <1>4, PipelineBegun DEF CreateCommit, Goes, InPipeline
    <2> QED
      BY <1>0, <1>4, <2>1 DEF CreateCommit, fileVars
  <1> QED
    BY <1>1, <1>2, <1>3, <1>4
    DEF Next, Pipeline, NothingToDo, Download, RemoveRemote, AddRemote, Pushes, PushAll,
        PushEnds, EditOnHost, EditOnBitbucket, Begin, Crash, fileVars, gitVars, vars

LEMMA StepGrow == TypeOK /\ OneInPipeline /\ GrowInv /\ [Next]_vars => GrowInv'
  <1> SUFFICES ASSUME TypeOK, OneInPipeline, GrowInv, [Next]_vars, NEW r \in Repos
               PROVE  head'[r] \subseteq index'[r] /\ index'[r] \subseteq work'[r]
    BY DEF GrowInv
  <1>1. head[r] \subseteq index[r] /\ index[r] \subseteq work[r]
    BY DEF GrowInv
  <1> QED
    BY <1>1, StepFiles

LEMMA StepCarry ==
  TypeOK /\ OneInPipeline /\ GrowInv /\ CarryInv /\ [Next]_vars => CarryInv'
  <1> SUFFICES ASSUME TypeOK, OneInPipeline, GrowInv, CarryInv, [Next]_vars,
                      NEW k \in 1..begun'
               PROVE  /\ seen'[k].work \subseteq work'[repo'[k]]
                      /\ failed'[k] = "no" =>
                            /\ pc'[k] = "commit" => seen'[k].work \subseteq index'[repo'[k]]
                            /\ pc'[k] = "returned" => seen'[k].work \subseteq head'[repo'[k]]
    BY DEF CarryInv
  <1>0. /\ begun \in 0..MaxWorkers /\ pc \in [Workers -> InPipeline \cup {"new", "returned"}]
        /\ repo \in [Workers -> Repos \cup {NoRepo}]
        /\ failed \in [Workers -> {"no", "yes", "rm"}]
        /\ seen \in [Workers -> [work : SUBSET Edits, onHost : SUBSET Edits]]
    BY DEF TypeOK
  <1>1. ASSUME NEW r \in Repos, Begin(r), k = begun + 1
        PROVE  seen'[k].work = work'[repo'[k]] /\ pc'[k] = "download"
    <2>1. k \in Workers
      BY <1>0, <1>1, WorkersAssumption DEF Begin, Workers
    <2> QED
      BY <1>0, <1>1, <2>1 DEF Begin, fileVars
  <1>2. CASE k \in 1..begun
    <2> DEFINE r == repo[k]
    <2>1. /\ k \in Workers /\ r \in Repos /\ repo'[k] = r /\ seen'[k] = seen[k]
          /\ failed'[k] = "no" => failed[k] = "no"
      BY <1>2, StepKeeps
    <2>2. /\ work[r] \subseteq work'[r] /\ index[r] \subseteq index'[r]
          /\ head[r] \subseteq head'[r]
      BY <2>1, StepFiles DEF GrowInv
    <2>3. /\ seen[k].work \subseteq work[r]
          /\ failed[k] = "no" =>
                /\ pc[k] = "commit" => seen[k].work \subseteq index[r]
                /\ pc[k] = "returned" => seen[k].work \subseteq head[r]
      BY <1>2 DEF CarryInv
    <2>4. ASSUME failed'[k] = "no", pc'[k] # pc[k]
          PROVE  \/ pc'[k] \notin {"commit", "returned"}
                 \/ pc'[k] = "commit" /\ index'[r] = work[r]
                 \/ pc'[k] = "returned" /\ pc[k] = "commit" /\ head'[r] = index[r]
      <3>1. ASSUME NEW j \in Workers, Pipeline(j)
            PROVE  j = k
        BY <1>0, <2>1, <2>4, <3>1
        DEF Pipeline, NothingToDo, Download, RemoveRemote, AddRemote, AddAllFiles,
            CreateCommit, Goes
      <3>2. CASE NothingToDo(k)
        BY <1>0, <2>1, <2>4, <3>2 DEF NothingToDo, Fails, Failed
      <3>3. CASE Download(k) \/ RemoveRemote(k) \/ AddRemote(k)
        BY <1>0, <2>1, <3>3 DEF Download, RemoveRemote, AddRemote, Goes
      <3>4. CASE AddAllFiles(k)
        <4>1. pc'[k] = "commit"
          BY <1>0, <2>1, <3>4 DEF AddAllFiles, Goes
        <4>2. ~Fails(k)
          BY <1>0, <2>1, <2>4 DEF Fails, Failed
        <4> QED
          BY <2>1, <3>4, <4>1, <4>2 DEF AddAllFiles, TypeOK
      <3>5. CASE CreateCommit(k)
        <4>1. pc'[k] = "returned" /\ pc[k] = "commit"
          BY <1>0, <2>1, <3>5 DEF CreateCommit, Goes
        <4>2. ~Fails(k)
          BY <1>0, <2>1, <2>4 DEF Fails, Failed
        <4> QED
          BY <2>1, <3>5, <4>1, <4>2 DEF CreateCommit, TypeOK
      <3>6. ASSUME NEW s \in Repos, Begin(s)
            PROVE  FALSE
        BY <1>0, <1>2, <2>1, <2>4, <3>6 DEF Begin
      <3>7. CASE Crash
        BY <1>0, <2>1, <2>4, <3>7 DEF Crash, Failed
      <3> QED
        BY <2>4, <3>1, <3>2, <3>3, <3>4, <3>5, <3>6, <3>7
        DEF Next, Pipeline, Pushes, PushAll, PushEnds, EditHere, EditOnHost,
            EditOnBitbucket, workerVars, vars
    <2> QED
      BY <2>1, <2>2, <2>3, <2>4
  <1>3. ASSUME k \notin 1..begun
        PROVE  k = begun + 1 /\ \E r \in Repos : Begin(r)
    <2>1. begun' # begun
      BY <1>3
    <2>2. \E r \in Repos : Begin(r)
      BY <2>1 DEF Next, Pipeline, NothingToDo, Download, RemoveRemote, AddRemote, AddAllFiles,
        CreateCommit, Pushes, PushAll, PushEnds, EditHere, EditOnHost, EditOnBitbucket,
        Crash, workerVars, vars
    <2>3. begun' = begun + 1
      BY <2>2 DEF Begin
    <2> QED
      BY <1>0, <1>3, <2>2, <2>3
  <1> QED
    BY <1>1, <1>2, <1>3

\* A worker that is begun by this step stands before its pipeline.
LEMMA StepBegins ==
  ASSUME TypeOK, [Next]_vars, NEW k \in 1..begun', k \notin 1..begun
  PROVE  /\ k \in Workers /\ pc'[k] = "download" /\ push'[k] = "none"
         /\ target'[k] = "none" /\ seen'[k].work = work'[repo'[k]]
  <1>0. /\ begun \in 0..MaxWorkers /\ pc \in [Workers -> InPipeline \cup {"new", "returned"}]
        /\ repo \in [Workers -> Repos \cup {NoRepo}]
        /\ seen \in [Workers -> [work : SUBSET Edits, onHost : SUBSET Edits]]
    BY DEF TypeOK
  <1>1. begun' # begun
    OBVIOUS
  <1>2. PICK r \in Repos : Begin(r)
    BY <1>1 DEF Next, Pipeline, NothingToDo, Download, RemoveRemote, AddRemote, AddAllFiles,
       CreateCommit, Pushes, PushAll, PushEnds, EditHere, EditOnHost, EditOnBitbucket,
       Crash, workerVars, vars
  <1>3. k = begun + 1 /\ k \in Workers
    BY <1>0, <1>2, WorkersAssumption DEF Begin, Workers
  <1>4. pc[k] = "new"
    BY <1>0, <1>3 DEF TypeOK
  <1>5. push[k] = "none" /\ target[k] = "none"
    BY <1>3, <1>4 DEF TypeOK
  <1> QED
    BY <1>0, <1>2, <1>3, <1>5 DEF Begin, fileVars, pushVars

-----------------------------------------------------------------------------
(* From the commit to the remotes *)

LEMMA StepSent ==
  TypeOK /\ OneInPipeline /\ GrowInv /\ SentInv /\ [Next]_vars => SentInv'
  <1> SUFFICES ASSUME TypeOK, OneInPipeline, GrowInv, SentInv, [Next]_vars,
                      NEW k \in Workers, push'[k] = "sending"
               PROVE  sent'[k] \subseteq head'[repo'[k]]
    BY DEF SentInv
  <1>0. /\ push \in [Workers -> {"none", "pending", "sending", "over"}]
        /\ sent \in [Workers -> SUBSET Edits]
    BY DEF TypeOK
  <1>1. push[k] # "none" => /\ repo[k] \in Repos /\ repo'[k] = repo[k]
                            /\ head[repo[k]] \subseteq head'[repo[k]]
    <2>1. push[k] # "none" => k \in 1..begun
      BY WorkersAssumption DEF TypeOK, Workers
    <2>2. ASSUME NEW r \in Repos
          PROVE  head[r] \subseteq head'[r]
      BY StepFiles DEF GrowInv
    <2> QED
      BY <2>1, <2>2, StepKeeps
  <1>2. CASE PushAll(k)
    BY <1>0, <1>1, <1>2 DEF PushAll, gitVars
  <1>3. ASSUME ~ PushAll(k)
        PROVE  push[k] = "sending" /\ sent'[k] = sent[k]
    <2>1. CASE UNCHANGED pushVars
      BY <2>1 DEF pushVars
    <2>2. ASSUME NEW j \in Workers, PushAll(j), j # k
          PROVE  push[k] = "sending" /\ sent'[k] = sent[k]
      BY <1>0, <2>2 DEF PushAll
    <2>3. ASSUME NEW j \in Workers, PushEnds(j)
          PROVE  push[k] = "sending" /\ sent'[k] = sent[k]
      BY <1>0, <2>3 DEF PushEnds, PushOver
    <2>4. ASSUME NEW j \in Workers, CreateCommit(j)
          PROVE  push[k] = "sending" /\ sent'[k] = sent[k]
      BY <1>0, <2>4 DEF CreateCommit
    <2>5. CASE Crash
      BY <1>0, <2>5 DEF Crash
    <2> QED
      BY <1>3, <2>1, <2>2, <2>3, <2>4, <2>5
      DEF Next, Pipeline, NothingToDo, Download, RemoveRemote, AddRemote, AddAllFiles,
          Pushes, EditHere, EditOnHost, EditOnBitbucket, Begin, vars
  <1> QED
    BY <1>1, <1>2, <1>3 DEF SentInv

-----------------------------------------------------------------------------
(* Away from the legacy remote *)

Past(k) == pc[k] \in {"add remote", "add", "commit"} \/ push[k] # "none"

\* What may change in the address of a repository, and by whom.
LEMMA StepRemote ==
  ASSUME TypeOK, OneInPipeline, [Next]_vars, NEW r \in Repos, remote'[r] # remote[r]
  PROVE  /\ begun \in Workers /\ repo[begun] = r
         /\ \/ RemoveRemote(begun) /\ remote'[r] = "none"
            \/ AddRemote(begun) /\ remote[r] = "none" /\ remote'[r] = "bitbucket"
  <1>0. remote \in [Repos -> Remotes \cup {"none"}]
    BY DEF TypeOK
  <1>1. PICK k \in Workers : RemoveRemote(k) \/ AddRemote(k)
    BY DEF Next, Pipeline, NothingToDo, Download, AddAllFiles, CreateCommit, Pushes, PushAll,
           PushEnds, EditHere, EditOnHost, EditOnBitbucket, Begin, Crash, gitVars, vars
  <1>2. k = begun
    BY <1>1, PipelineBegun DEF RemoveRemote, AddRemote, Goes, InPipeline
  <1> QED
    BY <1>0, <1>1, <1>2 DEF RemoveRemote, AddRemote

\* What may bring a worker past the removal, or to a target.
LEMMA StepPast ==
  ASSUME TypeOK, [Next]_vars, NEW k \in 1..begun, k \in Workers
  PROVE  /\ Past(k)' /\ ~Past(k) => RemoveRemote(k)
         /\ target'[k] \notin {target[k], "none"} =>
               push[k] = "pending" /\ target'[k] = remote[repo[k]]
  <1>0. /\ pc \in [Workers -> InPipeline \cup {"new", "returned"}]
        /\ push \in [Workers -> {"none", "pending", "sending", "over"}]
        /\ target \in [Workers -> Remotes \cup {"none"}] /\ begun \in 0..MaxWorkers
    BY DEF TypeOK
  <1>1. ASSUME NEW j \in Workers, Pipeline(j)
        PROVE  /\ Past(k)' /\ ~Past(k) => RemoveRemote(k)
               /\ UNCHANGED target
    BY <1>0, <1>1 DEF Pipeline, NothingToDo, Download, RemoveRemote, AddRemote, AddAllFiles,
                      CreateCommit, Goes, Past, pushVars
  <1>2. ASSUME NEW j \in Workers, PushAll(j)
        PROVE  /\ Past(k)' => Past(k)
               /\ target'[k] \notin {target[k], "none"} =>
                     push[k] = "pending" /\ target'[k] = remote[repo[k]]
    <2>1. CASE j = k
      BY <1>0, <1>2, <2>1 DEF PushAll, Past, workerVars
    <2>2. CASE j # k
      BY <1>0, <1>2, <2>2 DEF PushAll, Past, workerVars
    <2> QED
      BY <2>1, <2>2
  <1>3. ASSUME NEW j \in Workers, PushEnds(j)
        PROVE  (Past(k)' => Past(k)) /\ target'[k] \in {target[k], "none"}
    BY <1>0, <1>3 DEF PushEnds, PushOver, Past, workerVars
  <1>4. CASE UNCHANGED <<pc, push, target>>
    BY <1>4 DEF Past
  <1>5. ASSUME NEW r \in Repos, Begin(r)
        PROVE  (Past(k)' => Past(k)) /\ UNCHANGED target
    BY <1>0, <1>5 DEF Begin, Past, pushVars
  <1>6. CASE Crash
    BY <1>0, <1>6 DEF Crash, Past
  <1> QED
    BY <1>1, <1>2, <1>3, <1>4, <1>5, <1>6
    DEF Next, Pushes, EditHere, EditOnHost, EditOnBitbucket, workerVars, pushVars, vars

\* Every worker on a repository has removed the remote, or has yet to.
Removed(r) == \A j \in Workers : repo[j] = r => failed[j] # "rm"

LEMMA StepRemoved ==
  ASSUME TypeOK, [Next]_vars, NEW r \in Repos, Removed(r)'
  PROVE  Removed(r)
  <1> SUFFICES ASSUME NEW j \in Workers, repo[j] = r, failed[j] = "rm"
               PROVE  FALSE
    BY DEF Removed
  <1>1. j \in 1..begun
    BY WorkersAssumption DEF TypeOK, Workers
  <1> QED
    BY <1>1, StepKeeps DEF Removed

LEMMA StepAway == TypeOK /\ OneInPipeline /\ AwayInv /\ [Next]_vars => AwayInv'
  <1> SUFFICES ASSUME TypeOK, OneInPipeline, AwayInv, [Next]_vars,
                      NEW k \in 1..begun', Removed(repo[k])'
               PROVE  (Past(k)' => remote'[repo'[k]] # "legacy") /\ target'[k] # "legacy"
    BY DEF AwayInv, Removed, Past
  <1>1. CASE k \notin 1..begun
    BY <1>1, StepBegins DEF Past
  <1>2. CASE k \in 1..begun
    <2>1. k \in Workers /\ repo[k] \in Repos /\ repo'[k] = repo[k]
      BY <1>2, StepKeeps
    <2>2. Removed(repo[k])
      <3>1. Removed(repo[k])' => \A r \in Repos : r = repo[k] => Removed(r)'
        BY <2>1 DEF Removed
      <3> QED
        BY <2>1, <3>1, StepRemoved
    <2>3. (Past(k) => remote[repo[k]] # "legacy") /\ target[k] # "legacy"
      BY <1>2, <2>2 DEF AwayInv, Removed, Past
    <2>4. remote'[repo[k]] = remote[repo[k]] \/ remote'[repo[k]] \in {"none", "bitbucket"}
      BY <2>1, StepRemote
    <2>5. CASE RemoveRemote(k)
      <3>1. \/ remote'[repo[k]] = "none"
            \/ failed'[k] = "rm"
        BY <2>1, <2>5 DEF RemoveRemote, TypeOK
      <3>2. failed'[k] # "rm"
        BY <2>1 DEF Removed
      <3> QED
        BY <1>2, <2>1, <2>3, <2>5, <3>1, <3>2, StepPast DEF RemoveRemote, pushVars
    <2>6. CASE ~RemoveRemote(k)
      <3>1. Past(k)' => Past(k)
        BY <1>2, <2>1, <2>6, StepPast
      <3>2. target'[k] # "legacy"
        <4>1. push[k] = "pending" => Past(k)
          BY DEF Past
        <4> QED
          BY <1>2, <2>1, <2>3, <4>1, StepPast
      <3> QED
        BY <2>1, <2>3, <2>4, <3>1, <3>2
    <2> QED
      BY <2>5, <2>6
  <1> QED
    BY <1>1, <1>2

LEMMA StepLegacy == TypeOK /\ AwayInv /\ NeverToLegacy /\ [Next]_vars => NeverToLegacy'
  <1> SUFFICES ASSUME TypeOK, AwayInv, NeverToLegacy, [Next]_vars, NEW r \in Repos,
                      published'[r]["legacy"] # {}
               PROVE  \E k \in Workers : repo'[k] = r /\ failed'[k] = "rm"
    BY DEF NeverToLegacy
  <1>0. published \in [Repos -> [Remotes -> SUBSET Edits]] /\ published[r] \in [Remotes -> SUBSET Edits]
    BY DEF TypeOK
  <1>1. \E k \in Workers : repo[k] = r /\ failed[k] = "rm"
    <2>1. CASE published'[r]["legacy"] = published[r]["legacy"]
      BY <2>1 DEF NeverToLegacy
    <2>2. ASSUME NEW k \in Workers, PushEnds(k), repo[k] = r, target[k] = "legacy"
          PROVE  \E j \in Workers : repo[j] = r /\ failed[j] = "rm"
      <3>1. k \in 1..begun
        BY <2>2, WorkersAssumption DEF TypeOK, Workers
      <3> QED
        BY <2>2, <3>1 DEF AwayInv
    <2>3. ASSUME NEW k \in Workers, PushEnds(k), ~(repo[k] = r /\ target[k] = "legacy")
          PROVE  published'[r]["legacy"] = published[r]["legacy"]
      <3>1. CASE UNCHANGED published
        BY <3>1
      <3>2. CASE published' = [published EXCEPT ![repo[k]][target[k]] = sent[k]]
        <4>1. CASE repo[k] # r
          BY <1>0, <3>2, <4>1
        <4>2. CASE repo[k] = r /\ target[k] # "legacy"
          BY <1>0, <3>2, <4>2
        <4> QED
          BY <2>3, <4>1, <4>2
      <3> QED
        BY <2>3, <3>1, <3>2 DEF PushEnds
    <2>4. ASSUME NEW s \in Repos, NEW e \in Edits, EditOnBitbucket(s, e)
          PROVE  published'[r]["legacy"] = published[r]["legacy"]
      BY <1>0, <2>4 DEF EditOnBitbucket
    <2> QED
      BY <2>1, <2>2, <2>3, <2>4
      DEF Next, Pipeline, NothingToDo, Download, RemoveRemote, AddRemote, AddAllFiles,
          CreateCommit, Pushes, PushAll, EditHere, EditOnHost, Begin, Crash, gitVars, vars
  <1>2. PICK k \in Workers : repo[k] = r /\ failed[k] = "rm"
    BY <1>1
  <1>3. k \in 1..begun
    BY <1>2, WorkersAssumption DEF TypeOK, Workers
  <1> QED
    BY <1>2, <1>3, StepKeeps

-----------------------------------------------------------------------------
(* The last worker *)

\* What k itself does to its pipeline and its push.
LEMMA StepOfLast ==
  ASSUME TypeOK, OneInPipeline, LastInv, LastMeansPublished, [Next]_vars,
         NEW k \in 1..begun, LastOne(k), failed[k] = "no", failed'[k] = "no"
  PROVE  LET r == repo[k]
         IN  /\ pc'[k] = "add remote" => remote'[r] = "none"
             /\ pc'[k] \in {"add", "commit"} \/ push'[k] = "pending" => remote'[r] = "bitbucket"
             /\ pc'[k] = "returned" => push'[k] # "none"
             /\ push'[k] = "sending" => target'[k] = "bitbucket" /\ head'[r] \subseteq sent'[k]
             /\ push'[k] = "over" /\ pc'[k] = "returned"
                   => head'[r] \subseteq published'[r]["bitbucket"]
  <1> DEFINE r == repo[k]
             Same == /\ pc'[k] = pc[k] /\ push'[k] = push[k] /\ target'[k] = target[k]
                     /\ sent'[k] = sent[k] /\ remote'[r] = remote[r] /\ head'[r] = head[r]
  <1>0. /\ k \in Workers /\ r \in Repos /\ begun \in 0..MaxWorkers
        /\ pc \in [Workers -> InPipeline \cup {"new", "returned"}] /\ pc[k] # "new"
        /\ push \in [Workers -> {"none", "pending", "sending", "over"}]
        /\ target \in [Workers -> Remotes \cup {"none"}]
        /\ sent \in [Workers -> SUBSET Edits]
        /\ failed \in [Workers -> {"no", "yes", "rm"}]
        /\ remote \in [Repos -> Remotes \cup {"none"}] /\ head \in [Repos -> SUBSET Edits]
        /\ published \in [Repos -> [Remotes -> SUBSET Edits]]
        /\ push[k] # "none" => pc[k] = "returned"
    BY StepKeeps DEF TypeOK
  <1>1. /\ pc[k] = "add remote" => remote[r] = "none"
        /\ pc[k] \in {"add", "commit"} \/ push[k] = "pending" => remote[r] = "bitbucket"
        /\ pc[k] = "returned" => push[k] # "none"
        /\ push[k] = "sending" => target[k] = "bitbucket" /\ head[r] \subseteq sent[k]
        /\ push[k] = "over" /\ pc[k] = "returned" => head[r] \subseteq published[r]["bitbucket"]
    BY DEF LastInv, LastMeansPublished, Ended
  <1>2. published[r]["bitbucket"] \subseteq published'[r]["bitbucket"]
    BY <1>0, StepPublishes DEF Remotes
  <1>3. ~Fails(k)
    BY <1>0 DEF Fails, Failed
  <1>4. ASSUME NEW j \in Workers, repo[j] = r, pc[j] \in InPipeline
        PROVE  j = k
    <2>1. j = begun
      BY <1>4, PipelineBegun
    <2> QED
      BY <1>0, <1>4, <2>1 DEF LastOne
  <1>5. CASE Same
    BY <1>1, <1>2, <1>5
  <1>6. ASSUME NEW j \in Workers, Pipeline(j), j # k
        PROVE  Same
    <2>1. pc[j] \in InPipeline
      BY <1>6 DEF Pipeline, NothingToDo, Download, RemoveRemote, AddRemote, AddAllFiles,
                  CreateCommit, Goes, InPipeline
    <2>2. repo[j] # r
      BY <1>4, <1>6, <2>1
    <2>3. CASE NothingToDo(j) \/ Download(j) \/ RemoveRemote(j)
      BY <1>0, <1>6, <2>2, <2>3 DEF NothingToDo, Download, RemoveRemote, Goes, gitVars, pushVars
    <2>4. CASE AddRemote(j)
      BY <1>0, <1>6, <2>2, <2>4 DEF AddRemote, Goes, gitVars, pushVars
    <2>5. CASE AddAllFiles(j)
      BY <1>0, <1>6, <2>2, <2>5 DEF AddAllFiles, Goes, gitVars, pushVars
    <2>6. CASE CreateCommit(j)
      BY <1>0, <1>6, <2>2, <2>6 DEF CreateCommit, Goes, gitVars, pushVars
    <2> QED
      BY <1>6, <2>3, <2>4, <2>5, <2>6 DEF Pipeline
  <1>7. CASE NothingToDo(k)
    BY <1>3, <1>7 DEF NothingToDo
  <1>8. CASE Download(k)
    BY <1>0, <1>1, <1>8 DEF Download, Goes, pushVars, gitVars
  <1>9. CASE RemoveRemote(k)
    <2>1. pc'[k] = "add remote" /\ remote'[r] = "none" /\ push'[k] = push[k] /\ push[k] = "none"
      BY <1>0, <1>9 DEF RemoveRemote, Goes, pushVars
    <2> QED
      BY <2>1
  <1>10. CASE AddRemote(k)
    <2>1. pc'[k] = "add" /\ remote'[r] = "bitbucket" /\ push'[k] = push[k] /\ push[k] = "none"
      BY <1>0, <1>3, <1>10 DEF AddRemote, Goes, pushVars
    <2> QED
      BY <2>1
  <1>11. CASE AddAllFiles(k)
    <2>1. /\ pc'[k] = "commit" /\ remote'[r] = remote[r] /\ pc[k] = "add"
          /\ push'[k] = push[k] /\ push[k] = "none"
      BY <1>0, <1>11 DEF AddAllFiles, Goes, pushVars
    <2> QED
      BY <1>1, <2>1
  <1>12. CASE CreateCommit(k)
    <2>1. /\ pc'[k] = "returned" /\ remote'[r] = remote[r] /\ pc[k] = "commit"
          /\ push'[k] = "pending"
      BY <1>0, <1>12 DEF CreateCommit, Goes
    <2> QED
      BY <1>1, <2>1
  <1>13. ASSUME NEW j \in Workers, Pushes(j), j # k
         PROVE  Same
    BY <1>0, <1>13 DEF Pushes, PushAll, PushEnds, PushOver, workerVars, gitVars
  <1>14. CASE PushAll(k)
    <2>1. /\ push[k] = "pending" /\ push'[k] = "sending" /\ target'[k] = remote[r]
          /\ sent'[k] = head[r] /\ UNCHANGED <<pc, remote, head>>
      BY <1>0, <1>3, <1>14 DEF PushAll, workerVars, gitVars
    <2> QED
      BY <1>0, <1>1, <2>1
  <1>15. CASE PushEnds(k)
    <2>1. /\ push[k] = "sending" /\ push'[k] = "over" /\ UNCHANGED <<pc, remote, head>>
          /\ published' = [published EXCEPT ![r][target[k]] = sent[k]]
      BY <1>0, <1>3, <1>15 DEF PushEnds, PushOver, workerVars
    <2>2. published'[r]["bitbucket"] = sent[k]
      BY <1>0, <1>1, <2>1 DEF Remotes
    <2> QED
      BY <1>0, <1>1, <2>1, <2>2
  <1>16. CASE Crash
    <2>1. pc[k] = "returned" /\ push[k] # "pending"
      BY <1>0, <1>1, <1>16 DEF Crash, Failed, InPipeline
    <2>2. Same
      BY <1>0, <1>16, <2>1 DEF Crash, gitVars
    <2> QED
      BY <1>5, <2>2
  <1>17. ASSUME NEW s \in Repos, Begin(s)
         PROVE  Same
    BY <1>0, <1>17 DEF Begin, gitVars, pushVars
  <1>18. ASSUME NEW s \in Repos, NEW e \in Edits,
                EditHere(s, e) \/ EditOnHost(s, e) \/ EditOnBitbucket(s, e)
         PROVE  Same
    BY <1>18 DEF EditHere, EditOnHost, EditOnBitbucket, workerVars, gitVars, pushVars
  <1>19. CASE UNCHANGED vars
    BY <1>5, <1>19 DEF vars, workerVars, gitVars, pushVars
  <1> QED
    BY <1>5, <1>6, <1>7, <1>8, <1>9, <1>10, <1>11, <1>12, <1>13, <1>14, <1>15, <1>16,
       <1>17, <1>18, <1>19 DEF Next, Pipeline, Pushes

LEMMA StepLastInv ==
  TypeOK /\ OneInPipeline /\ LastInv /\ LastMeansPublished /\ [Next]_vars
      => LastInv' /\ LastMeansPublished'
  <1> SUFFICES ASSUME TypeOK, OneInPipeline, LastInv, LastMeansPublished, [Next]_vars,
                      NEW k \in 1..begun', LastOne(k)', failed'[k] = "no"
               PROVE  LET r == repo'[k]
                      IN  /\ pc'[k] = "add remote" => remote'[r] = "none"
                          /\ pc'[k] \in {"add", "commit"} \/ push'[k] = "pending"
                                => remote'[r] = "bitbucket"
                          /\ pc'[k] = "returned" => push'[k] # "none"
                          /\ push'[k] = "sending" =>
                                target'[k] = "bitbucket" /\ head'[r] \subseteq sent'[k]
                          /\ Ended(k)' => head'[r] \subseteq published'[r]["bitbucket"]
    BY DEF LastInv, LastMeansPublished
  <1>1. CASE k \notin 1..begun
    BY <1>1, StepBegins DEF Ended
  <1>2. CASE k \in 1..begun
    <2>1. failed[k] = "no" /\ repo'[k] = repo[k] /\ k \in Workers
      BY <1>2, StepKeeps
    <2>2. LastOne(k)
      BY <1>2, StepLast
    <2>3. push'[k] \in {"none", "pending", "sending", "over"}
      BY <2>1, StepType DEF TypeOK
    <2> QED
      BY <1>2, <2>1, <2>2, <2>3, StepOfLast DEF Ended
  <1> QED
    BY <1>1, <1>2

-----------------------------------------------------------------------------
(* The theorems *)

LEMMA InitInv == Init => IInv
  <1> SUFFICES ASSUME Init PROVE IInv
    OBVIOUS
  <1>1. TypeOK
    BY InitType
  <1>2. 1..begun = {}
    BY DEF Init
  <1>3. OneInPipeline /\ GrowInv /\ SentInv /\ NeverToLegacy
    BY DEF Init, OneInPipeline, GrowInv, SentInv, NeverToLegacy, InPipeline, Remotes
  <1>4. CarryInv /\ AwayInv /\ LastInv /\ LastMeansPublished
    BY <1>2 DEF CarryInv, AwayInv, LastInv, LastMeansPublished
  <1> QED
    BY <1>1, <1>3, <1>4 DEF IInv

\* Addresses, commits and pushes of all workers agree at all times (the pipeline
\* of GitMigrationWorker and the pushes it does not wait for).
THEOREM Invariant == Spec => []IInv
  <1>1. Init => IInv
    BY InitInv
  <1>2. IInv /\ [Next]_vars => IInv'
    BY StepType, StepOne, StepGrow, StepCarry, StepSent, StepAway, StepLegacy, StepLastInv DEF IInv
  <1> QED
    BY <1>1, <1>2, PTL DEF Spec

\* Nothing is pushed to the legacy repository unless its removal failed.
THEOREM NeverToLegacyCorrect == Spec => []NeverToLegacy
  <1>1. IInv => NeverToLegacy
    BY DEF IInv
  <1> QED
    BY <1>1, Invariant, PTL

\* A worker that returned without a failure has committed what it found.
THEOREM ReturnedMeansCommittedCorrect == Spec => []ReturnedMeansCommitted
  <1>1. IInv => ReturnedMeansCommitted
    <2> SUFFICES ASSUME IInv, NEW k \in Workers, pc[k] = "returned", failed[k] = "no"
                 PROVE  seen[k].work \subseteq head[repo[k]]
      BY DEF ReturnedMeansCommitted
    <2>1. k \in 1..begun
      BY WorkersAssumption DEF IInv, TypeOK, Workers
    <2> QED
      BY <2>1 DEF IInv, CarryInv
  <1> QED
    BY <1>1, Invariant, PTL

\* When the last worker on a repository had no failure and its push has ended, the
\* new remote has the last commit.
THEOREM LastMeansPublishedCorrect == Spec => []LastMeansPublished
  <1>1. IInv => LastMeansPublished
    BY DEF IInv
  <1> QED
    BY <1>1, Invariant, PTL

\* What a remote has it keeps.
THEOREM PublishedGrowsCorrect == Spec => PublishedGrows
  <1>1. TypeOK /\ [Next]_vars =>
          [\A r \in Repos, m \in Remotes : published[r][m] \subseteq published'[r][m]]_vars
    BY StepPublishes
  <1> QED
    BY <1>1, TypeCorrect, PTL DEF Spec, PublishedGrows

-----------------------------------------------------------------------------
(* The flow of edits *)

LEMMA StuckSame ==
  ASSUME UNCHANGED repo, \A k \in Workers : failed'[k] = "rm" <=> failed[k] = "rm"
  PROVE  Stuck' = Stuck
  BY DEF Stuck

LEMMA FailsSticks ==
  ASSUME TypeOK, UNCHANGED repo, NEW k \in Workers, UNCHANGED failed \/ Fails(k)
  PROVE  Stuck' = Stuck
  <1>1. \A j \in Workers : failed'[j] = "rm" <=> failed[j] = "rm"
    BY DEF Fails, Failed, TypeOK
  <1> QED
    BY <1>1, StuckSame

\* A step that begins, goes on or dies does not touch the edits.
LEMMA StepFlowsBegin ==
  ASSUME TypeOK, NEW r \in Repos, Begin(r)
  PROVE  [Flow!Next]_(Flow!vars)
  <1>1. UNCHANGED <<work, head, published, failed>> /\ begun + 1 \in Workers
    BY WorkersAssumption DEF Begin, fileVars, gitVars, TypeOK, Workers
  <1>2. \A k \in Workers : repo'[k] = IF k = begun + 1 THEN r ELSE repo[k]
    BY <1>1 DEF Begin, TypeOK
  <1>3. repo[begun + 1] \notin Repos
    BY <1>1, WorkersAssumption DEF TypeOK
  <1>4. Stuck' = Stuck \/ Stuck' = Stuck \cup {r}
    <2>1. CASE failed[begun + 1] = "rm"
      BY <1>1, <1>2, <1>3, <2>1 DEF Stuck
    <2>2. CASE failed[begun + 1] # "rm"
      BY <1>1, <1>2, <1>3, <2>2 DEF Stuck
    <2> QED
      BY <2>1, <2>2
  <1> QED
    BY <1>1, <1>4 DEF Flow!Next, Flow!Stick, Flow!vars

LEMMA StepFlowsPipeline ==
  ASSUME TypeOK, GrowInv, NEW k \in Workers, Pipeline(k)
  PROVE  [Flow!Next]_(Flow!vars)
  <1>1. repo[k] \in Repos /\ UNCHANGED <<work, published, repo>>
    BY DEF Pipeline, NothingToDo, Download, RemoveRemote, AddRemote, AddAllFiles,
           CreateCommit, Goes, gitVars, fileVars, TypeOK
  <1>2. CASE RemoveRemote(k) /\ failed' = [failed EXCEPT ![k] = "rm"]
    <2>1. Stuck' = Stuck \cup {repo[k]}
      BY <1>1, <1>2 DEF Stuck, TypeOK
    <2> QED
      BY <1>1, <1>2, <2>1 DEF RemoveRemote, Flow!Next, Flow!Stick
  <1>3. CASE UNCHANGED failed \/ Fails(k)
    <2>1. Stuck' = Stuck
      BY <1>1, <1>3, FailsSticks
    <2>2. CASE UNCHANGED head
      BY <1>1, <2>1, <2>2 DEF Flow!vars
    <2>3. CASE head' = [head EXCEPT ![repo[k]] = index[repo[k]]]
      <3>1. index[repo[k]] \in SUBSET Edits
        BY <1>1 DEF TypeOK
      <3>2. Flow!Commit(repo[k], index[repo[k]])
        BY <1>1, <2>1, <2>3 DEF Flow!Commit, GrowInv
      <3> QED
        BY <1>1, <3>1, <3>2 DEF Flow!Next
    <2> QED
      BY <2>2, <2>3 DEF Pipeline, NothingToDo, Download, RemoveRemote, AddRemote,
                        AddAllFiles, CreateCommit, gitVars
  <1> QED
    BY <1>2, <1>3 DEF Pipeline, NothingToDo, Download, RemoveRemote, AddRemote, AddAllFiles,
                      CreateCommit

LEMMA StepFlowsPushes ==
  ASSUME TypeOK, SentInv, AwayInv, NEW k \in Workers, Pushes(k)
  PROVE  [Flow!Next]_(Flow!vars)
  <1>1. k \in 1..begun /\ repo[k] \in Repos /\ UNCHANGED <<work, head, repo>>
    BY WorkersAssumption
    DEF Pushes, PushAll, PushEnds, PushOver, workerVars, fileVars, gitVars, TypeOK, Workers
  <1>2. Stuck' = Stuck
    BY <1>1, FailsSticks DEF Pushes, PushAll, PushEnds
  <1>3. CASE UNCHANGED published
    BY <1>1, <1>2, <1>3 DEF Flow!vars
  <1>4. CASE PushEnds(k) /\ ~ UNCHANGED published
    <2>1. /\ target[k] \in Remotes /\ sent[k] \in SUBSET Edits /\ sent[k] \subseteq head[repo[k]]
      BY <1>4 DEF PushEnds, PushOver, SentInv, TypeOK
    <2>2. target[k] = "legacy" => repo[k] \in Stuck
      BY <1>1 DEF AwayInv, Stuck
    <2>3. Flow!Publish(repo[k], target[k], sent[k])
      BY <1>1, <1>2, <1>4, <2>1, <2>2 DEF PushEnds, Flow!Publish
    <2> QED
      BY <1>1, <2>1, <2>3 DEF Flow!Next, Remotes
  <1> QED
    BY <1>3, <1>4 DEF Pushes, PushAll, gitVars

\* The edits go the way EditFlow describes: made, committed, published, and never
\* lost again (GitMigrationWorker:86-99, GitCommands:9).
THEOREM Refinement == Spec => ImplementsEditFlow
  <1>1. Init => Flow!Init
    <2>1. Init => Stuck = {}
      BY DEF Init, Stuck
    <2> QED
      BY <2>1 DEF Init, Flow!Init, Remotes
  <1>2. IInv /\ [Next]_vars => [Flow!Next]_(Flow!vars)
    <2> SUFFICES ASSUME IInv, [Next]_vars
                 PROVE  [Flow!Next]_(Flow!vars)
      OBVIOUS
    <2>0. TypeOK /\ GrowInv /\ SentInv /\ AwayInv
      BY DEF IInv
    <2>1. ASSUME NEW r \in Repos, NEW e \in Edits,
                 EditHere(r, e) \/ EditOnHost(r, e) \/ EditOnBitbucket(r, e)
          PROVE  [Flow!Next]_(Flow!vars)
      <3>1. Stuck' = Stuck
        BY <2>1, StuckSame DEF EditHere, EditOnHost, EditOnBitbucket, workerVars
      <3>2. CASE EditHere(r, e)
        BY <3>1, <3>2 DEF EditHere, gitVars, Flow!Next, Flow!Make
      <3>3. CASE EditOnHost(r, e)
        BY <3>1, <3>3 DEF EditOnHost, gitVars, Flow!vars
      <3>4. CASE EditOnBitbucket(r, e)
        BY <3>1, <3>4 DEF EditOnBitbucket, Flow!Next, Flow!MakeElsewhere
      <3> QED
        BY <2>1, <3>2, <3>3, <3>4
    <2>2. CASE Crash
      <3>1. Stuck' = Stuck
        BY <2>0, <2>2, StuckSame DEF Crash, Failed, TypeOK
      <3> QED
        BY <2>2, <3>1 DEF Crash, fileVars, gitVars, Flow!vars
    <2>3. CASE UNCHANGED vars
      <3>1. Stuck' = Stuck
        BY <2>3, StuckSame DEF vars, workerVars
      <3> QED
        BY <2>3, <3>1 DEF vars, fileVars, gitVars, Flow!vars
    <2> QED
      BY <2>0, <2>1, <2>2, <2>3, StepFlowsBegin, StepFlowsPipeline, StepFlowsPushes DEF Next
  <1> QED
    BY <1>1, <1>2, Invariant, PTL DEF Spec, ImplementsEditFlow, Flow!Spec
=============================================================================
