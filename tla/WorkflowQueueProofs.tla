------------------------- MODULE WorkflowQueueProofs -------------------------
(***************************************************************************)
(* Theorems about WorkflowQueue, for any contexts, chains, degree of       *)
(* parallelism and bounds.                                                 *)
(***************************************************************************)
EXTENDS WorkflowQueue, TLAPS

\* A chain is a non-empty sequence of steps: CreateWorkflowTree dequeues at
\* least one workflow.
LEMMA ChainType ==
    ASSUME TypeOK, NEW c \in Contexts
    PROVE  chain[c] \in Seq(Step) /\ Len(chain[c]) \in Nat /\ Len(chain[c]) >= 1
<1>1. chain[c] \in Chains
  BY DEF TypeOK
<1>2. chain[c] \in Seq(Step) /\ chain[c] # <<>>
  BY <1>1, ChainsAssumption
<1> QED
  BY <1>2

\* The initial states have the declared shape.
LEMMA TypeInit == Init => TypeOK
<1> SUFFICES ASSUME Init PROVE TypeOK
  OBVIOUS
<1>1. \A c \in Contexts : chain[c] \in Seq(Step) /\ chain[c] # <<>>
  BY ChainsAssumption DEF Init
<1>2. \A c \in Contexts : 1 <= Len(chain[c])
  BY <1>1
<1>3. \A c \in Contexts : Workflow[c] <= Len(chain[c])
  BY <1>2 DEF Init
<1>4. Queue \in Seq(Contexts) /\ Len(Queue) = 0
  BY DEF Init
<1>5. done \in [Contexts -> Seq(Nat)]
  BY DEF Init
<1>6. rounds \in 0..MaxRounds /\ cursor <= snapshot /\ snapshot <= Len(Queue)
  BY <1>4, BoundsAssumption DEF Init
<1> QED
  BY <1>3, <1>4, <1>5, <1>6 DEF Init, TypeOK, States, PCs, BodyPCs, Statuses

\* Every step keeps the shape of the state: one case per action.
LEMMA TypeStep == TypeOK /\ [Next]_vars => TypeOK'
<1> SUFFICES ASSUME TypeOK, [Next]_vars PROVE TypeOK'
  OBVIOUS
<1> USE DEF TypeOK, States, PCs, BodyPCs, ctxVars, callVars, envVars, Statuses
<1>1. ASSUME NEW c \in Contexts, Enqueue(c) PROVE TypeOK'
  <2>1. Queue' \in Seq(Contexts) /\ Len(Queue') = Len(Queue) + 1
    BY <1>1 DEF Enqueue
  <2>2. snapshot' <= Len(Queue')
    BY <1>1, <2>1 DEF Enqueue
  <2> QED
    BY <1>1, <2>1, <2>2 DEF Enqueue
<1>2. ASSUME NEW c \in Contexts, Cancel(c) PROVE TypeOK'
  BY <1>2 DEF Cancel
<1>3. ASSUME NEW c \in Contexts, Body(c) PROVE TypeOK'
  <2>1. CASE DisposedContext(c)
    BY <2>1 DEF DisposedContext
  <2>2. CASE Dispose(c)
    BY <2>2, ChainType DEF Dispose
  <2>3. CASE SetRunning(c)
    BY <2>3 DEF SetRunning
  <2>4. CASE Guard(c)
    BY <2>4 DEF Guard
  <2>5. CASE CheckThrows(c)
    BY <2>5 DEF CheckThrows
  <2>6. CASE CheckDate(c)
    BY <2>6 DEF CheckDate
  <2>7. CASE FinishChain(c)
    BY <2>7 DEF FinishChain, ExecuteReturns
  <2>8. CASE AdvanceChain(c)
    <3>1. /\ Workflow[c] # Len(chain[c]) /\ chain' = chain
          /\ Workflow' = [Workflow EXCEPT ![c] = @ + 1]
      BY <2>8 DEF AdvanceChain, ExecuteReturns, AtLast
    <3>2. /\ Workflow' \in [Contexts -> Nat]
          /\ \A d \in Contexts : Workflow'[d] <= Len(chain'[d])
      BY <3>1, ChainType
    <3> QED
      BY <2>8, <3>2 DEF AdvanceChain, ExecuteReturns
  <2>9. CASE LeaveChain(c)
    BY <2>9 DEF LeaveChain, ExecuteReturns
  <2>10. CASE DirectoryMissing(c)
    BY <2>10 DEF DirectoryMissing
  <2>11. CASE ExecuteThrows(c)
    BY <2>11 DEF ExecuteThrows
  <2> QED
    BY <1>3, <2>1, <2>2, <2>3, <2>4, <2>5, <2>6, <2>7, <2>8, <2>9, <2>10,
       <2>11 DEF Body
<1>4. CASE Process
  <2>1. rounds' \in 0..MaxRounds
    BY <1>4, BoundsAssumption DEF Process
  <2>2. snapshot' \in Nat /\ cursor' <= snapshot' /\ snapshot' <= Len(Queue')
    BY <1>4 DEF Process
  <2> QED
    BY <1>4, <2>1, <2>2 DEF Process
<1>5. CASE MoveNext
  <2>1. cursor' = cursor + 1 /\ cursor + 1 <= snapshot
    BY <1>5 DEF MoveNext
  <2>2. Queue[cursor + 1] \in Contexts
    BY <2>1
  <2>3. pc' \in [Contexts -> PCs]
    BY <1>5, <2>2 DEF MoveNext
  <2>4. UNCHANGED <<chain, State, Workflow, Cancelled, Queue, status, rounds,
                    snapshot, drained, faulted, now, unhandled, alive,
                    failures, done, late>>
    BY <1>5 DEF MoveNext
  <2> QED
    BY <2>1, <2>3, <2>4
<1>6. CASE MoveNextEnds
  BY <1>6 DEF MoveNextEnds
<1>7. CASE MoveNextThrows
  BY <1>7 DEF MoveNextThrows
<1>8. CASE ProcessEnds
  BY <1>8 DEF ProcessEnds
<1>9. CASE Crash
  BY <1>9 DEF Crash
<1>10. CASE Tick
  BY <1>10 DEF Tick
<1>11. CASE UNCHANGED vars
  BY <1>11 DEF vars
<1> QED
  BY <1>1, <1>2, <1>3, <1>4, <1>5, <1>6, <1>7, <1>8, <1>9, <1>10, <1>11 DEF Next

\* The state always has the declared shape; in particular no current workflow
\* lies past the end of its chain, and no body past the end of the queue.
THEOREM TypeCorrect == Spec => []TypeOK
<1> QED
  BY TypeInit, TypeStep, PTL DEF Spec

-----------------------------------------------------------------------------
(* Contexts *)

SameContext(c) ==
    /\ State'[c] = State[c] /\ Workflow'[c] = Workflow[c]
    /\ Cancelled'[c] = Cancelled[c] /\ pc'[c] = pc[c]
    /\ done'[c] = done[c] /\ late'[c] = late[c]

\* A step that leaves a context alone keeps its invariant, as time goes by.
LEMMA ContextFrame ==
    ASSUME TypeOK, NEW c \in Contexts, ContextInv(c), SameContext(c),
           chain' = chain, now' \in Nat, now <= now'
    PROVE  ContextInv(c)'
<1>1. ASSUME State[c] # "null" PROVE chain[c][Workflow[c]].date \in Nat
  <2>1. Workflow[c] \in 1..Len(chain[c])
    BY <1>1, ChainType DEF TypeOK, ContextInv
  <2>2. chain[c][Workflow[c]] \in Step
    BY <2>1, ChainType
  <2> QED
    BY <2>2 DEF Step
<1>2. pc[c] = "exec" => Due(c)'
  BY <1>1 DEF ContextInv, SameContext, Due, Current, TypeOK
<1> QED
  BY <1>2 DEF ContextInv, SameContext, TypeOK

LEMMA ContextInit == Init => \A c \in Contexts : ContextInv(c)
<1> SUFFICES ASSUME Init, NEW c \in Contexts PROVE ContextInv(c)
  OBVIOUS
<1> QED
  BY DEF Init, ContextInv

\* The body of a context keeps the invariant of the context.
LEMMA ContextBody ==
    ASSUME TypeOK, NEW c \in Contexts, ContextInv(c), Body(c)
    PROVE  ContextInv(c)'
<1> DEFINE k == Len(done[c])
           w == Workflow[c]
           n == Len(chain[c])
<1> USE DEF TypeOK, callVars, envVars
<1>1. n \in Nat /\ w \in Nat /\ k \in Nat /\ w <= n /\ n >= 1
  BY ChainType
<1>2. CASE DisposedContext(c)
  BY <1>2 DEF DisposedContext, ContextInv
<1>3. CASE Dispose(c)
  BY <1>3, <1>1 DEF Dispose, ContextInv
<1>4. CASE SetRunning(c)
  BY <1>4, <1>1 DEF SetRunning, ContextInv
<1>5. CASE Guard(c)
  BY <1>5, <1>1 DEF Guard, ContextInv
<1>6. CASE CheckThrows(c)
  BY <1>6, <1>1 DEF CheckThrows, ContextInv
<1>7. CASE CheckDate(c)
  BY <1>7, <1>1 DEF CheckDate, ContextInv, Due, Current
<1>8. ASSUME ExecuteReturns(c)
      PROVE  /\ Len(done'[c]) = k + 1 /\ k = w - 1
             /\ \A i \in 1..(k + 1) : done'[c][i] = i
             /\ late[c] = 0 /\ late'[c] <= 1
             /\ late'[c] = 1 => Cancelled'[c]
  <2>1. /\ pc[c] = "exec"
        /\ done'[c] = Append(done[c], w)
        /\ late'[c] = IF Cancelled[c] THEN late[c] + 1 ELSE late[c]
        /\ Cancelled' = Cancelled
    BY <1>8 DEF ExecuteReturns
  <2>2. State[c] = "Running"
    BY <2>1 DEF ContextInv
  <2>3. k = w - 1
    BY <2>1, <2>2 DEF ContextInv
  <2>4. late[c] = 0
    <3>1. k # w /\ State[c] \notin {"Finished", "null"}
      BY <1>1, <2>2, <2>3
    <3>2. late[c] = 1 => State[c] \in {"Finished", "null"} \/ k = w
      BY DEF ContextInv
    <3>3. late[c] # 1
      BY <3>1, <3>2
    <3>4. late[c] \in Nat /\ late[c] <= 1
      BY DEF ContextInv
    <3> HIDE DEF TypeOK
    <3> QED
      BY <3>3, <3>4
  <2>5. done[c] \in Seq(Nat) /\ \A i \in 1..k : done[c][i] = i
    BY DEF ContextInv
  <2>6. Len(done'[c]) = k + 1
    BY <2>1, <2>5
  <2>7. \A i \in 1..(k + 1) : done'[c][i] = i
    <3>1. done'[c][k + 1] = w
      BY <2>1, <2>5
    <3>2. \A i \in 1..k : done'[c][i] = i
      BY <1>1, <2>1, <2>5
    <3>3. w = k + 1
      BY <1>1, <2>3
    <3> HIDE DEF TypeOK, k, w
    <3>4. ASSUME NEW i \in 1..(k + 1) PROVE done'[c][i] = i
      <4>1. CASE i \in 1..k
        BY <3>2, <4>1
      <4>2. CASE i = k + 1
        BY <3>1, <3>3, <4>2
      <4> QED
        BY <4>1, <4>2, <1>1
    <3> QED
      BY <3>4
  <2> QED
    BY <2>1, <2>3, <2>4, <2>6, <2>7
<1>9. CASE FinishChain(c)
  BY <1>9, <1>1, <1>8 DEF FinishChain, ExecuteReturns, AtLast, ContextInv
<1>10. CASE AdvanceChain(c)
  <2>1. /\ State'[c] = "Running" /\ Workflow'[c] = w + 1 /\ pc'[c] = "guard"
        /\ late'[c] = 0 /\ chain' = chain
    BY <1>10, <1>8 DEF AdvanceChain, ExecuteReturns, ContextInv
  <2>2. ExecuteReturns(c)
    BY <1>10 DEF AdvanceChain
  <2>3. Len(done'[c]) = Workflow'[c] - 1 /\ Workflow'[c] >= 1
    BY <2>1, <2>2, <1>1, <1>8
  <2> QED
    BY <2>1, <2>2, <2>3, <1>8 DEF ContextInv
<1>11. CASE LeaveChain(c)
  <2>1. /\ pc[c] = "exec" /\ UNCHANGED <<State, Workflow, Cancelled, chain>>
        /\ pc'[c] = "loop" /\ Cancelled[c] /\ w # n
    BY <1>11 DEF LeaveChain, ExecuteReturns, AtLast
  <2>2. ExecuteReturns(c)
    BY <1>11 DEF LeaveChain
  <2>3. State[c] = "Running" /\ w >= 1
    BY <2>1 DEF ContextInv
  <2>4. Len(done'[c]) = Workflow'[c] /\ Workflow'[c] >= 1 /\ Workflow'[c] < n
    BY <2>1, <2>2, <2>3, <1>1, <1>8
  <2> QED
    BY <2>1, <2>2, <2>3, <2>4, <1>8 DEF ContextInv
<1>12. CASE DirectoryMissing(c)
  BY <1>12, <1>1 DEF DirectoryMissing, AtLast, ContextInv
<1>13. CASE ExecuteThrows(c)
  BY <1>13, <1>1 DEF ExecuteThrows, ContextInv
<1> QED
  BY <1>2, <1>3, <1>4, <1>5, <1>6, <1>7, <1>9, <1>10, <1>11, <1>12, <1>13 DEF Body

\* The body of a context leaves the others alone.
LEMMA BodyFrame ==
    ASSUME TypeOK, NEW c \in Contexts, Body(c), NEW d \in Contexts, d # c
    PROVE  SameContext(d) /\ chain' = chain /\ now' = now
<1> USE DEF TypeOK, SameContext, callVars, envVars
<1>1. CASE DisposedContext(c) \/ Dispose(c) \/ SetRunning(c) \/ Guard(c)
  BY <1>1 DEF DisposedContext, Dispose, SetRunning, Guard
<1>2. CASE CheckThrows(c) \/ CheckDate(c)
  BY <1>2 DEF CheckThrows, CheckDate
<1>3. CASE FinishChain(c) \/ AdvanceChain(c) \/ LeaveChain(c)
  BY <1>3 DEF FinishChain, AdvanceChain, LeaveChain, ExecuteReturns
<1>4. CASE DirectoryMissing(c) \/ ExecuteThrows(c)
  BY <1>4 DEF DirectoryMissing, ExecuteThrows
<1> QED
  BY <1>1, <1>2, <1>3, <1>4 DEF Body

LEMMA ContextStep ==
    ASSUME TypeOK, \A c \in Contexts : ContextInv(c), [Next]_vars,
           NEW d \in Contexts
    PROVE  ContextInv(d)'
<1> USE DEF TypeOK, ctxVars, callVars, envVars
<1>1. ASSUME NEW c \in Contexts, Enqueue(c) PROVE ContextInv(d)'
  <2>1. CASE d = c
    <3>1. /\ pc[c] = "new" /\ pc'[c] = "queued"
          /\ UNCHANGED <<chain, State, Workflow, Cancelled, done, late, now>>
      BY <1>1 DEF Enqueue
    <3> QED
      BY <2>1, <3>1 DEF ContextInv
  <2>2. CASE d # c
    <3>1. SameContext(d) /\ chain' = chain /\ now' = now
      BY <1>1, <2>2 DEF Enqueue, SameContext
    <3> QED
      BY <3>1, ContextFrame
  <2> QED
    BY <2>1, <2>2
<1>2. ASSUME NEW c \in Contexts, Cancel(c) PROVE ContextInv(d)'
  <2>1. CASE d = c
    BY <1>2, <2>1 DEF Cancel, ContextInv, Due, Current
  <2>2. CASE d # c
    <3>1. SameContext(d) /\ chain' = chain /\ now' = now
      BY <1>2, <2>2 DEF Cancel, SameContext
    <3> QED
      BY <3>1, ContextFrame
  <2> QED
    BY <2>1, <2>2
<1>3. ASSUME NEW c \in Contexts, Body(c) PROVE ContextInv(d)'
  <2>1. CASE d = c
    BY <1>3, <2>1, ContextBody
  <2>2. CASE d # c
    <3>1. SameContext(d) /\ chain' = chain /\ now' = now
      BY <1>3, <2>2, BodyFrame
    <3> QED
      BY <3>1, ContextFrame
  <2> QED
    BY <2>1, <2>2
<1>4. CASE MoveNext
  <2>1. CASE d = Queue[cursor + 1]
    BY <1>4, <2>1 DEF MoveNext, ContextInv
  <2>2. CASE d # Queue[cursor + 1]
    <3>1. SameContext(d) /\ chain' = chain /\ now' = now
      BY <1>4, <2>2 DEF MoveNext, SameContext
    <3> QED
      BY <3>1, ContextFrame
  <2> QED
    BY <2>1, <2>2
<1>5. CASE Process \/ MoveNextEnds \/ MoveNextThrows \/ ProcessEnds \/ Crash
  <2>1. SameContext(d) /\ chain' = chain /\ now' = now
    BY <1>5
    DEF Process, MoveNextEnds, MoveNextThrows, ProcessEnds, Crash, SameContext
  <2> QED
    BY <2>1, ContextFrame
<1>6. CASE Tick
  <2>1. SameContext(d) /\ chain' = chain /\ now' = now + 1
    BY <1>6 DEF Tick, SameContext
  <2> QED
    BY <2>1, ContextFrame
<1>7. CASE UNCHANGED vars
  <2>1. SameContext(d) /\ chain' = chain /\ now' = now
    BY <1>7 DEF vars, SameContext
  <2> QED
    BY <2>1, ContextFrame
<1> QED
  BY <1>1, <1>2, <1>3, <1>4, <1>5, <1>6, <1>7 DEF Next


-----------------------------------------------------------------------------
(* Calls of Process *)

\* What a body does to the queue and to the call it belongs to: nothing, except
\* that it may end and may leave the call faulted.
LEMMA BodyCall ==
    ASSUME TypeOK, NEW c \in Contexts, Body(c)
    PROVE  /\ pc[c] \in BodyPCs
           /\ pc' = [pc EXCEPT ![c] = pc'[c]]
           /\ pc'[c] \in BodyPCs \cup {"out"}
           /\ UNCHANGED <<Queue, status, snapshot, cursor, drained>>
           /\ faulted => faulted'
<1> USE DEF TypeOK, BodyPCs, callVars, envVars
<1>1. CASE DisposedContext(c) \/ Dispose(c) \/ SetRunning(c) \/ Guard(c)
  BY <1>1 DEF DisposedContext, Dispose, SetRunning, Guard
<1>2. CASE CheckThrows(c) \/ CheckDate(c)
  BY <1>2 DEF CheckThrows, CheckDate
<1>3. CASE FinishChain(c) \/ AdvanceChain(c) \/ LeaveChain(c)
  BY <1>3 DEF FinishChain, AdvanceChain, LeaveChain, ExecuteReturns
<1>4. CASE DirectoryMissing(c) \/ ExecuteThrows(c)
  BY <1>4 DEF DirectoryMissing, ExecuteThrows
<1> QED
  BY <1>1, <1>2, <1>3, <1>4 DEF Body

LEMMA RoundInit == Init => RoundInv
<1> SUFFICES ASSUME Init PROVE RoundInv
  OBVIOUS
<1>1. Len(Queue) = 0 /\ Busy = {}
  BY DEF Init, Busy, BodyPCs
<1> QED
  BY <1>1 DEF Init, RoundInv

LEMMA RoundStep ==
    ASSUME TypeOK, TypeOK', RoundInv, [Next]_vars
    PROVE  RoundInv'
<1>1. /\ Queue \in Seq(Contexts) /\ pc \in [Contexts -> PCs]
      /\ cursor \in Nat /\ snapshot \in Nat /\ Len(Queue) \in Nat
      /\ cursor <= snapshot /\ snapshot <= Len(Queue)
  BY DEF TypeOK
<1>2. ASSUME NEW c \in Contexts, Enqueue(c) PROVE RoundInv'
  <2>1. /\ pc[c] = "new" /\ Queue' = Append(Queue, c)
        /\ pc' = [pc EXCEPT ![c] = "queued"]
        /\ UNCHANGED callVars
    BY <1>2 DEF Enqueue
  <2>2. /\ Len(Queue') = Len(Queue) + 1
        /\ \A i \in 1..Len(Queue) : Queue'[i] = Queue[i] /\ Queue[i] # c
        /\ Queue'[Len(Queue) + 1] = c
    BY <1>1, <2>1 DEF RoundInv
  <2>3. \A i \in 1..Len(Queue) : pc'[Queue'[i]] = pc[Queue[i]]
    BY <1>1, <2>1, <2>2
  <2>4. pc'[Queue'[Len(Queue) + 1]] = "queued"
    BY <1>1, <2>1, <2>2
  <2>5. Busy' = Busy
    BY <1>1, <2>1 DEF Busy, BodyPCs
  <2>6. \A i, j \in 1..Len(Queue') : Queue'[i] = Queue'[j] => i = j
    BY <1>1, <2>2 DEF RoundInv
  <2>7. \A i \in 1..Len(Queue') : pc'[Queue'[i]] # "new"
    BY <1>1, <2>2, <2>3, <2>4 DEF RoundInv
  <2>8. status = "running" =>
          /\ \A i \in 1..cursor : pc'[Queue'[i]] \in BodyPCs \cup {"out"}
          /\ \A i \in (cursor + 1)..Len(Queue') : pc'[Queue'[i]] \notin BodyPCs
    BY <1>1, <2>2, <2>3, <2>4 DEF RoundInv, BodyPCs
  <2>9. status = "returned" => \A i \in 1..snapshot : pc'[Queue'[i]] = "out"
    BY <1>1, <2>2, <2>3 DEF RoundInv
  <2> QED
    BY <2>1, <2>5, <2>6, <2>7, <2>8, <2>9 DEF RoundInv, callVars
<1>3. ASSUME NEW c \in Contexts, Cancel(c) PROVE RoundInv'
  BY <1>3 DEF Cancel, RoundInv, Busy, callVars, envVars
<1>4. ASSUME NEW c \in Contexts, Body(c) PROVE RoundInv'
  <2>1. /\ pc[c] \in BodyPCs
        /\ pc' = [pc EXCEPT ![c] = pc'[c]]
        /\ pc'[c] \in BodyPCs \cup {"out"}
        /\ UNCHANGED <<Queue, status, snapshot, cursor, drained>>
        /\ faulted => faulted'
    BY <1>4, BodyCall
  <2>2. status = "running"
    BY <2>1 DEF RoundInv, Busy
  <2>3. \A i \in 1..Len(Queue) : Queue[i] \in Contexts
    BY <1>1
  <2>4. \A i \in 1..Len(Queue) : pc'[Queue[i]] # "new"
    BY <1>1, <2>1, <2>3 DEF RoundInv, BodyPCs
  <2>5. \A i \in 1..cursor : pc'[Queue[i]] \in BodyPCs \cup {"out"}
    BY <1>1, <2>1, <2>2, <2>3 DEF RoundInv
  <2>6. \A i \in (cursor + 1)..Len(Queue) : pc'[Queue[i]] \notin BodyPCs
    BY <1>1, <2>1, <2>2, <2>3 DEF RoundInv
  <2> QED
    BY <2>1, <2>2, <2>4, <2>5, <2>6 DEF RoundInv
<1>5. CASE Process
  <2>1. /\ status # "running" /\ status' = "running"
        /\ cursor' = 0 /\ drained' = FALSE /\ UNCHANGED <<Queue, pc>>
    BY <1>5 DEF Process, ctxVars
  <2>2. Busy = {}
    BY <2>1 DEF RoundInv
  <2>3. \A i \in 1..Len(Queue) : pc[Queue[i]] \notin BodyPCs
    BY <1>1, <2>2 DEF Busy
  <2> QED
    BY <1>1, <2>1, <2>3 DEF RoundInv
<1>6. CASE MoveNext
  <2> DEFINE q == Queue[cursor + 1]
  <2>1. /\ status = "running" /\ cursor < snapshot /\ cursor' = cursor + 1
        /\ pc' = [pc EXCEPT ![q] = "loop"]
        /\ UNCHANGED <<Queue, status, snapshot, drained, faulted>> /\ ~drained
    BY <1>6 DEF MoveNext, Enumerating
  <2>2. q \in Contexts /\ cursor + 1 \in 1..Len(Queue)
    BY <1>1, <2>1
  <2>3. \A i \in 1..Len(Queue) : Queue[i] \in Contexts /\ (Queue[i] = q => i = cursor + 1)
    BY <1>1, <2>2 DEF RoundInv
  <2>4. \A i \in 1..Len(Queue) :
          pc'[Queue[i]] = IF i = cursor + 1 THEN "loop" ELSE pc[Queue[i]]
    BY <1>1, <2>1, <2>2, <2>3
  <2>5. \A i \in 1..Len(Queue) : pc'[Queue[i]] # "new"
    BY <2>4 DEF RoundInv
  <2>6. \A i \in 1..(cursor + 1) : pc'[Queue[i]] \in BodyPCs \cup {"out"}
    BY <1>1, <2>1, <2>2, <2>4 DEF RoundInv, BodyPCs
  <2>7. \A i \in (cursor + 2)..Len(Queue) : pc'[Queue[i]] \notin BodyPCs
    BY <1>1, <2>1, <2>2, <2>4 DEF RoundInv
  <2> QED
    BY <1>1, <2>1, <2>5, <2>6, <2>7 DEF RoundInv
<1>7. CASE MoveNextEnds \/ MoveNextThrows
  BY <1>7 DEF MoveNextEnds, MoveNextThrows, RoundInv, Busy, ctxVars, envVars
<1>8. CASE ProcessEnds
  <2>1. /\ status = "running" /\ Busy = {}
        /\ drained \/ faulted
        /\ status' = IF faulted THEN "threw" ELSE "returned"
        /\ UNCHANGED <<Queue, pc, cursor, snapshot, drained, faulted>>
    BY <1>8 DEF ProcessEnds, ctxVars
  <2>2. Busy' = {}
    BY <2>1 DEF Busy
  <2>3. ASSUME ~faulted, NEW i \in 1..snapshot PROVE pc[Queue[i]] = "out"
    <3>1. cursor = snapshot
      BY <2>1, <2>3 DEF RoundInv
    <3>2. pc[Queue[i]] \in BodyPCs \cup {"out"}
      BY <2>1, <3>1 DEF RoundInv
    <3>3. Queue[i] \in Contexts
      BY <1>1
    <3> QED
      BY <2>1, <3>2, <3>3 DEF Busy
  <2> QED
    BY <2>1, <2>2, <2>3 DEF RoundInv
<1>9. CASE Crash \/ Tick \/ UNCHANGED vars
  BY <1>9 DEF Crash, Tick, vars, RoundInv, Busy, ctxVars, callVars
<1> QED
  BY <1>2, <1>3, <1>4, <1>5, <1>6, <1>7, <1>8, <1>9 DEF Next


-----------------------------------------------------------------------------
(* Safety *)

LEMMA Inductive == Init /\ [][Next]_vars => []IInv
<1>1. Init => IInv
  BY TypeInit, ContextInit, RoundInit DEF IInv
<1>2. IInv /\ [Next]_vars => IInv'
  <2> SUFFICES ASSUME IInv, [Next]_vars PROVE IInv'
    OBVIOUS
  <2>1. TypeOK'
    BY TypeStep DEF IInv
  <2>2. \A d \in Contexts : ContextInv(d)'
    BY ContextStep DEF IInv
  <2>3. RoundInv'
    BY <2>1, RoundStep DEF IInv
  <2> QED
    BY <2>1, <2>2, <2>3 DEF IInv
<1> QED
  BY <1>1, <1>2, PTL

\* The inductive invariant holds in every run: a context's state object, its
\* body, its current workflow and its returned steps always agree, and so do
\* the queue, the cursor and the bodies of a call of Process.
THEOREM Invariant == Spec => []IInv
<1> QED
  BY Inductive, PTL DEF Spec

\* What the invariant says of one context, in the terms of the properties.
LEMMA ContextFacts ==
    ASSUME IInv, NEW c \in Contexts
    PROVE  /\ Len(done[c]) <= Len(chain[c])
           /\ \A i \in 1..Len(done[c]) : done[c][i] = i
           /\ late[c] <= 1
           /\ State[c] \in {"Finished", "null"} =>
                 Cancelled[c] \/ Len(done[c]) = Len(chain[c])
<1>1. /\ Len(chain[c]) \in Nat /\ Workflow[c] \in Nat /\ Len(done[c]) \in Nat
      /\ Workflow[c] <= Len(chain[c]) /\ Len(chain[c]) >= 1
      /\ State[c] \in States
  BY ChainType DEF IInv, TypeOK
<1>2. ContextInv(c)
  BY DEF IInv
<1>3. Len(done[c]) <= Len(chain[c])
  BY <1>1, <1>2 DEF ContextInv, States
<1> QED
  BY <1>2, <1>3 DEF ContextInv

\* The steps of every chain complete in order, each exactly once, however often
\* an exception has made Process start one again.
THEOREM StepsInOrderCorrect == Spec => []StepsInOrder
<1>1. IInv => StepsInOrder
  BY ContextFacts DEF StepsInOrder
<1> QED
  BY <1>1, Invariant, PTL

\* A context that was not cancelled finishes, and is disposed, only after its
\* last step.
THEOREM FinishedIsCompleteCorrect == Spec => []FinishedIsComplete
<1>1. IInv => FinishedIsComplete
  BY ContextFacts DEF FinishedIsComplete
<1> QED
  BY <1>1, Invariant, PTL

\* A cancellation lets at most the step in flight complete.
THEOREM AtMostOneLateStepCorrect == Spec => []AtMostOneLateStep
<1>1. IInv => AtMostOneLateStep
  BY ContextFacts DEF AtMostOneLateStep
<1> QED
  BY <1>1, Invariant, PTL

\* A Process that returns without an exception leaves every context it found in
\* the queue disposed, with all of its steps done unless it was cancelled.
THEOREM ReturnedMeansDoneCorrect == Spec => []ReturnedMeansDone
<1>1. ASSUME IInv PROVE ReturnedMeansDone
  <2> SUFFICES ASSUME status = "returned", NEW i \in 1..snapshot
               PROVE  /\ State[Queue[i]] = "null"
                      /\ \/ Cancelled[Queue[i]]
                         \/ Len(done[Queue[i]]) = Len(chain[Queue[i]])
    BY DEF ReturnedMeansDone
  <2>1. Queue[i] \in Contexts
    BY <1>1 DEF IInv, TypeOK
  <2>2. pc[Queue[i]] = "out"
    BY <1>1 DEF IInv, RoundInv
  <2>3. State[Queue[i]] = "null"
    BY <1>1, <2>1, <2>2 DEF IInv, ContextInv
  <2> QED
    BY <1>1, <2>1, <2>3, ContextFacts
<1> QED
  BY <1>1, Invariant, PTL

-----------------------------------------------------------------------------
(* Refinement of ChainRun *)

\* The variables ChainRun sees.
SameView == UNCHANGED <<chain, now, Phases, Completed, Cancelled, late>>

LEMMA ViewInit == Init => Promise!Init
<1> SUFFICES ASSUME Init PROVE Promise!Init
  OBVIOUS
<1>1. Phases = [c \in Contexts |-> "open"]
  BY DEF Init, Phases, Phase
<1>2. Completed = [c \in Contexts |-> 0]
  BY DEF Init, Completed
<1> QED
  BY <1>1, <1>2 DEF Init, Promise!Init

\* When a step of a chain is executing, ChainRun can start that very step.
LEMMA ExecutingCanStart ==
    ASSUME IInv, NEW c \in Contexts, pc[c] = "exec"
    PROVE  /\ State[c] = "Running" /\ late[c] = 0
           /\ Completed[c] + 1 = Workflow[c]
           /\ Promise!CanStart(c)
<1>1. /\ Workflow[c] \in Nat /\ Len(done[c]) \in Nat /\ Len(chain[c]) \in Nat
      /\ Workflow[c] <= Len(chain[c]) /\ late[c] \in Nat
  BY ChainType DEF IInv, TypeOK
<1>2. ContextInv(c)
  BY DEF IInv
<1>3. State[c] = "Running" /\ Due(c)
  BY <1>2 DEF ContextInv
<1>4. Len(done[c]) = Workflow[c] - 1
  BY <1>2, <1>3 DEF ContextInv
<1>5. late[c] # 1 /\ late[c] <= 1
  BY <1>1, <1>2, <1>3, <1>4 DEF ContextInv
<1>6. Completed[c] = Len(done[c]) /\ Phases[c] = "open"
  BY <1>3 DEF Completed, Phases, Phase
<1>7. Completed[c] + 1 = Workflow[c] /\ Completed[c] < Len(chain[c])
  BY <1>1, <1>4, <1>6
<1>8. late[c] = 0
  BY <1>1, <1>5
<1> QED
  BY <1>3, <1>6, <1>7, <1>8 DEF Promise!CanStart, Due, Current

\* A step that returns is the next step of ChainRun completing.
LEMMA ReturnCompletes ==
    ASSUME IInv, NEW c \in Contexts,
           FinishChain(c) \/ AdvanceChain(c) \/ LeaveChain(c)
    PROVE  Promise!CompleteStep(c)
<1>1. /\ pc[c] = "exec"
      /\ done' = [done EXCEPT ![c] = Append(@, Workflow[c])]
      /\ late' = [late EXCEPT ![c] = IF Cancelled[c] THEN @ + 1 ELSE @]
      /\ UNCHANGED <<chain, now, Cancelled>>
  BY DEF FinishChain, AdvanceChain, LeaveChain, ExecuteReturns, envVars
<1>2. /\ State[c] = "Running" /\ late[c] = 0
      /\ Completed[c] + 1 = Workflow[c] /\ Promise!CanStart(c)
  BY <1>1, ExecutingCanStart
<1>3. /\ State \in [Contexts -> States] /\ done \in [Contexts -> Seq(Nat)]
      /\ late \in [Contexts -> Nat]
  BY DEF IInv, TypeOK
<1>4. Completed' = [Completed EXCEPT ![c] = @ + 1]
  <2>1. Len(Append(done[c], Workflow[c])) = Len(done[c]) + 1
    BY <1>3
  <2> QED
    BY <1>1, <1>3, <2>1 DEF Completed
<1>5. late' = [late EXCEPT ![c] = IF Cancelled[c] THEN 1 ELSE @]
  BY <1>1, <1>2, <1>3
<1>6. Phases' = Promise!PhaseAfterStep(c)
  <2>1. CASE FinishChain(c)
    <3>1. Workflow[c] = Len(chain[c]) /\ State' = [State EXCEPT ![c] = "Finished"]
      BY <2>1 DEF FinishChain, AtLast
    <3>2. Phases' = [Phases EXCEPT ![c] = "finished"]
      BY <3>1, <1>3 DEF Phases, Phase
    <3> QED
      BY <3>1, <3>2, <1>2 DEF Promise!PhaseAfterStep
  <2>2. CASE AdvanceChain(c) \/ LeaveChain(c)
    <3>1. Workflow[c] # Len(chain[c]) /\ State' = State
      BY <2>2 DEF AdvanceChain, LeaveChain, AtLast
    <3>2. Phases' = Phases
      BY <3>1 DEF Phases, Phase
    <3> QED
      BY <3>1, <3>2, <1>2 DEF Promise!PhaseAfterStep
  <2> QED
    BY <2>1, <2>2
<1> QED
  BY <1>1, <1>2, <1>4, <1>5, <1>6 DEF Promise!CompleteStep

LEMMA ViewStep ==
    ASSUME IInv, [Next]_vars
    PROVE  [Promise!Next]_(Promise!vars)
<1>1. State \in [Contexts -> States]
  BY DEF IInv, TypeOK
<1>2. SameView => [Promise!Next]_(Promise!vars)
  BY DEF SameView, Promise!vars
<1>3. ASSUME NEW c \in Contexts, Enqueue(c) PROVE SameView
  BY <1>3 DEF Enqueue, SameView, Phases, Phase, Completed, envVars
<1>4. ASSUME NEW c \in Contexts, Cancel(c) PROVE Promise!Cancel(c)
  BY <1>4 DEF Cancel, Promise!Cancel, Phases, Phase, Completed, envVars
<1>5. ASSUME NEW c \in Contexts, Body(c)
      PROVE  SameView \/ Promise!CompleteStep(c) \/ Promise!GiveUp(c) \/ Promise!Dispose(c)
  <2>1. CASE DisposedContext(c) \/ Guard(c) \/ CheckDate(c)
    BY <2>1 DEF DisposedContext, Guard, CheckDate, SameView, Phases, Phase,
       Completed, envVars
  <2>2. CASE CheckThrows(c) \/ ExecuteThrows(c)
    BY <2>2 DEF CheckThrows, ExecuteThrows, SameView, Phases, Phase, Completed
  <2>3. CASE SetRunning(c)
    <3>1. \A d \in Contexts : Phase(d)' = Phase(d)
      BY <2>3, <1>1 DEF SetRunning, Phase
    <3> QED
      BY <2>3, <3>1 DEF SetRunning, SameView, Phases, Completed, envVars
  <2>4. CASE Dispose(c)
    <3>1. Phases[c] = "finished" /\ Phases' = [Phases EXCEPT ![c] = "disposed"]
      BY <2>4, <1>1 DEF Dispose, Phases, Phase
    <3> QED
      BY <2>4, <3>1 DEF Dispose, Promise!Dispose, Completed, envVars
  <2>5. CASE FinishChain(c) \/ AdvanceChain(c) \/ LeaveChain(c)
    BY <2>5, ReturnCompletes
  <2>6. CASE DirectoryMissing(c)
    <3>1. pc[c] = "exec"
      BY <2>6 DEF DirectoryMissing
    <3>2. /\ State[c] = "Running" /\ Completed[c] + 1 = Workflow[c]
          /\ Promise!CanStart(c)
      BY <3>1, ExecutingCanStart
    <3>3. Phases' = Promise!PhaseAfterStep(c)
      <4>1. CASE AtLast(c)
        <5>1. Phases' = [Phases EXCEPT ![c] = "finished"]
          BY <2>6, <4>1, <1>1 DEF DirectoryMissing, Phases, Phase
        <5> QED
          BY <4>1, <5>1, <3>2 DEF AtLast, Promise!PhaseAfterStep
      <4>2. CASE ~AtLast(c)
        <5>1. State' = State
          BY <2>6, <4>2, <1>1 DEF DirectoryMissing
        <5>2. Phases' = Phases
          BY <5>1 DEF Phases, Phase
        <5> QED
          BY <4>2, <5>2, <3>2 DEF AtLast, Promise!PhaseAfterStep
      <4> QED
        BY <4>1, <4>2
    <3> QED
      BY <2>6, <3>2, <3>3
      DEF DirectoryMissing, Promise!GiveUp, Completed, Current, envVars
  <2> QED
    BY <1>5, <2>1, <2>2, <2>3, <2>4, <2>5, <2>6 DEF Body
<1>6. ASSUME Process \/ MoveNext \/ MoveNextEnds \/ MoveNextThrows \/ ProcessEnds
      PROVE  SameView
  BY <1>6 DEF Process, MoveNext, MoveNextEnds, MoveNextThrows, ProcessEnds,
     SameView, Phases, Phase, Completed, ctxVars, envVars
<1>7. ASSUME Crash \/ UNCHANGED vars PROVE SameView
  BY <1>7 DEF Crash, vars, SameView, Phases, Phase, Completed, ctxVars
<1>8. ASSUME Tick PROVE Promise!Tick
  BY <1>8 DEF Tick, Promise!Tick, Phases, Phase, Completed, ctxVars
<1> QED
  BY <1>2, <1>3, <1>4, <1>5, <1>6, <1>7, <1>8 DEF Next, Promise!Next

\* WorkflowQueue implements ChainRun: whatever the threads, the queue, the
\* exceptions and the cancellations do, each context only ever completes its
\* next step, no earlier than its date, gives up on a missing directory, or is
\* disposed once finished.
THEOREM Refinement == Spec => ImplementsChainRun
<1>1. Init => Promise!Init
  BY ViewInit
<1>2. IInv /\ [Next]_vars => [Promise!Next]_(Promise!vars)
  BY ViewStep
<1> QED
  BY <1>1, <1>2, Invariant, PTL DEF Spec, ImplementsChainRun, Promise!Spec

-----------------------------------------------------------------------------
(* A cancelled context *)

LEMMA TrappedStep ==
    ASSUME IInv, [Next]_vars, NEW c \in Contexts, Trapped(c)
    PROVE  Trapped(c)' /\ done'[c] = done[c] /\ status' = "running"
<1>1. /\ Queue \in Seq(Contexts) /\ pc \in [Contexts -> PCs]
      /\ State \in [Contexts -> States] /\ Cancelled \in [Contexts -> BOOLEAN]
      /\ cursor \in Nat /\ snapshot \in Nat /\ Len(Queue) \in Nat
      /\ cursor <= snapshot /\ snapshot <= Len(Queue)
  BY DEF IInv, TypeOK
<1>2. c \in Busy /\ status = "running"
  BY DEF IInv, RoundInv, Trapped, Busy, BodyPCs
<1>3. ASSUME SameContext(c), status' = status
      PROVE  Trapped(c)' /\ done'[c] = done[c] /\ status' = "running"
  BY <1>2, <1>3 DEF SameContext, Trapped
<1>4. ASSUME NEW d \in Contexts, Body(d), d # c
      PROVE  SameContext(c) /\ status' = status
  BY <1>4, BodyFrame, BodyCall DEF IInv
<1>5. CASE Body(c)
  <2>1. SetRunning(c) \/ Guard(c) \/ CheckThrows(c)
    BY <1>5 DEF Body, Trapped, DisposedContext, Dispose, CheckDate, FinishChain,
       AdvanceChain, LeaveChain, ExecuteReturns, DirectoryMissing, ExecuteThrows
  <2> QED
    BY <1>1, <1>2, <2>1 DEF SetRunning, Guard, CheckThrows, Trapped, callVars
<1>6. CASE MoveNext
  <2>1. pc[Queue[cursor + 1]] \notin BodyPCs
    BY <1>1, <1>2, <1>6 DEF MoveNext, IInv, RoundInv
  <2>2. c # Queue[cursor + 1]
    BY <1>2, <2>1 DEF Busy
  <2> QED
    BY <1>1, <1>3, <1>6, <2>2 DEF MoveNext, SameContext
<1>7. ASSUME NEW d \in Contexts, Enqueue(d)
      PROVE  SameContext(c) /\ status' = status
  BY <1>1, <1>2, <1>7 DEF Enqueue, SameContext, Busy, BodyPCs, callVars
<1>8. ASSUME NEW d \in Contexts, Cancel(d)
      PROVE  Trapped(c)' /\ done'[c] = done[c] /\ status' = "running"
  BY <1>1, <1>2, <1>8 DEF Cancel, Trapped, callVars
<1>9. ~ Process /\ ~ ProcessEnds
  BY <1>2 DEF Process, ProcessEnds
<1>10. CASE MoveNextEnds \/ MoveNextThrows \/ Crash \/ Tick \/ UNCHANGED vars
  BY <1>3, <1>10 DEF MoveNextEnds, MoveNextThrows, Crash, Tick, vars, ctxVars, callVars,
     SameContext
<1> QED
  BY <1>3, <1>4, <1>5, <1>6, <1>7, <1>8, <1>9, <1>10 DEF Next

\* A context that is cancelled between two steps is trapped for ever, and so is the
\* call of Process that runs it.
THEOREM TrappedStaysCorrect == Spec => TrappedStays
<1>1. IInv /\ [Next]_vars =>
        [\A c \in Contexts : Trapped(c) =>
            Trapped(c)' /\ done'[c] = done[c] /\ status' = "running"]_vars
  BY TrappedStep
<1> QED
  BY <1>1, Invariant, PTL DEF Spec, TrappedStays

=============================================================================
