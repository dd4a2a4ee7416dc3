---------------------------- MODULE WorkflowQueue ----------------------------
(***************************************************************************)
(* The workflow engine: contexts built by WorkflowContextFactory, held in  *)
(* WorkflowQueue and run by WorkflowQueue.Process, a Parallel.ForEach      *)
(* whose bodies drive one context each through WorkflowRunningState and    *)
(* WorkflowFinishedState.  OnStateChanged is `async void', so an exception *)
(* of a step comes back to nobody: setState returns as if nothing had      *)
(* happened and the exception is rethrown later on a pool thread.          *)
(*                                                                         *)
(* A body is a thread, and pc[c] is where the body of context c stands:    *)
(*    "new"     no context was enqueued                                    *)
(*    "queued"  enqueued, not yet handed to a body                         *)
(*    "loop"    in the while loop of Process (WorkflowQueue.cs:47)         *)
(*    "guard"   in RunningState, at the while guard (:16)                  *)
(*    "check"   in RunningState, inside the loop (:18-19)                  *)
(*    "exec"    in Workflow.Execute(context).Wait() (:21)                  *)
(*    "out"     the body has returned or thrown                            *)
(***************************************************************************)
EXTENDS Naturals, Sequences, FiniteSets

CONSTANTS
    Contexts,      \* the contexts a client may enqueue
    Cancellable,   \* those initialised with a token the client can cancel
    Chains,        \* the chains of steps a context may be created with
    MaxDegree,     \* MaxDegreeOfParallelism, 10 in the code
    MaxTime,       \* bound: the clock stops here
    MaxRounds,     \* bound: calls of Process
    MaxFailures    \* bound: executions of a step that throw

\* A workflow of a chain: its ExecutionDate, and whether it is a
\* MonitorLocalFilesWorkflow, the one that may cancel its own context.
Step == [date : Nat, monitor : BOOLEAN]

ASSUME CancellableAssumption == Cancellable \subseteq Contexts
ASSUME ChainsAssumption == \A ch \in Chains : ch \in Seq(Step) /\ ch # <<>>
ASSUME BoundsAssumption ==
    /\ MaxDegree \in Nat \ {0}
    /\ MaxTime \in Nat
    /\ MaxRounds \in Nat
    /\ MaxFailures \in Nat

VARIABLES
    chain,       \* chain[c]: the tree CreateWorkflowTree builds, in queue order
    State,       \* State[c]: the state object of the context
    Workflow,    \* Workflow[c]: index in chain[c] of the current workflow, 0 = null
    Cancelled,   \* Cancelled[c]: CancellationToken.IsCancellationRequested
    pc,          \* pc[c]: where the body of c stands
    Queue,       \* _Queue: enqueued contexts; Process never dequeues
    status,      \* the current or last call of Process
    rounds,      \* calls of Process so far (bounded)
    snapshot,    \* length of the queue when Process was called
    cursor,      \* elements the enumerator has handed to a body
    drained,     \* the enumeration is over
    faulted,     \* a body or MoveNext has thrown
    now,         \* DateTime.Now
    unhandled,   \* an exception waits to be rethrown on a pool thread
    alive,       \* the process has not crashed
    failures,    \* how many executions have thrown (bounded)
    done,        \* history: done[c], the steps whose Execute returned, in order
    late         \* history: late[c], how many of them returned after a cancellation

vars == <<chain, State, Workflow, Cancelled, pc, Queue,
          status, rounds, snapshot, cursor, drained, faulted,
          now, unhandled, alive, failures, done, late>>

ctxVars == <<State, Workflow, Cancelled, pc, done, late>>
callVars == <<status, rounds, snapshot, cursor, drained, faulted>>
envVars == <<now, unhandled, alive, failures>>

States == {"Initial", "Running", "Finished", "null"}
BodyPCs == {"loop", "guard", "check", "exec"}
PCs == {"new", "queued", "out"} \cup BodyPCs

Statuses == {"idle", "running", "returned", "threw"}

Busy == {c \in Contexts : pc[c] \in BodyPCs}

Init ==
    /\ chain \in [Contexts -> Chains]
    /\ State = [c \in Contexts |-> "Initial"]
    /\ Workflow = [c \in Contexts |-> 1]
    /\ Cancelled = [c \in Contexts |-> FALSE]
    /\ pc = [c \in Contexts |-> "new"]
    /\ Queue = <<>>
    /\ status = "idle"
    /\ rounds = 0 /\ snapshot = 0 /\ cursor = 0
    /\ drained = FALSE /\ faulted = FALSE
    /\ now = 0
    /\ unhandled = FALSE
    /\ alive = TRUE
    /\ failures = 0
    /\ done = [c \in Contexts |-> <<>>]
    /\ late = [c \in Contexts |-> 0]

-----------------------------------------------------------------------------
(* The client *)

\* CreateContext, Initialize and Enqueue: the context enters in its initial
\* state, at the first workflow of its chain.  Nothing keeps a client from
\* calling it while Process runs; nor from enqueueing a context again, which no
\* client does and the model leaves out.
Enqueue(c) ==
    /\ alive
    /\ pc[c] = "new"
    /\ Queue' = Append(Queue, c)
    /\ pc' = [pc EXCEPT ![c] = "queued"]
    /\ UNCHANGED <<chain, State, Workflow, Cancelled, callVars, done, late, envVars>>

\* Process is called by one thread at a time, and may be called again.  The
\* enumerator remembers the version of the queue; the queue only grows, so its
\* length stands for the version.
Process ==
    /\ alive
    /\ status # "running"
    /\ rounds < MaxRounds
    /\ status' = "running"
    /\ rounds' = rounds + 1
    /\ snapshot' = Len(Queue)
    /\ cursor' = 0
    /\ drained' = FALSE /\ faulted' = FALSE
    /\ UNCHANGED <<chain, ctxVars, Queue, envVars>>

\* The client cancels the token it gave to Initialize.
Cancel(c) ==
    /\ alive
    /\ c \in Cancellable
    /\ ~Cancelled[c]
    /\ Cancelled' = [Cancelled EXCEPT ![c] = TRUE]
    /\ UNCHANGED <<chain, State, Workflow, pc, Queue, callVars, done, late, envVars>>

-----------------------------------------------------------------------------
(* Parallel.ForEach.  An operator marked `Slip' is a way this code could be  *)
(* got wrong; none is part of Next, each shows that a property has teeth.    *)

\* A worker asks the shared enumerator for its next element.
Enumerating ==
    /\ alive
    /\ status = "running"
    /\ ~drained
    /\ Cardinality(Busy) < MaxDegree

\* After a fault a worker on its way to the enumerator may still claim.  A worker of
\* Parallel.ForEach that has come back a few times takes several elements at once;
\* here it takes them one by one, so that Enqueue may disturb it more often.
MoveNext ==
    /\ Enumerating
    /\ Len(Queue) = snapshot
    /\ cursor < snapshot
    /\ cursor' = cursor + 1
    /\ pc' = [pc EXCEPT ![Queue[cursor + 1]] = "loop"]
    /\ UNCHANGED <<status, rounds, snapshot, drained, faulted,
                   chain, State, Workflow, Cancelled, done, late, Queue, envVars>>

MoveNextEnds ==
    /\ Enumerating
    /\ Len(Queue) = snapshot
    /\ cursor = snapshot
    /\ drained' = TRUE
    /\ UNCHANGED <<status, rounds, snapshot, cursor, faulted,
                   chain, ctxVars, Queue, envVars>>

\* InvalidOperationException: the queue was modified after it was enumerated.
MoveNextThrows ==
    /\ Enumerating
    /\ Len(Queue) # snapshot
    /\ drained' = TRUE
    /\ faulted' = TRUE
    /\ UNCHANGED <<status, rounds, snapshot, cursor, chain, ctxVars, Queue, envVars>>

\* Slip: the loop comes back without joining its bodies.
ProcessEndsUnjoined ==
    /\ alive
    /\ status = "running"
    /\ drained \/ faulted
    /\ status' = IF faulted THEN "threw" ELSE "returned"
    /\ UNCHANGED <<rounds, snapshot, cursor, drained, faulted,
                   chain, ctxVars, Queue, envVars>>

\* Parallel.ForEach comes back when no body is left and nothing is to claim.
ProcessEnds ==
    /\ alive
    /\ status = "running"
    /\ Busy = {}
    /\ drained \/ faulted
    /\ status' = IF faulted THEN "threw" ELSE "returned"
    /\ UNCHANGED <<rounds, snapshot, cursor, drained, faulted,
                   chain, ctxVars, Queue, envVars>>

-----------------------------------------------------------------------------
(* The body of Process, for one context *)

Current(c) == chain[c][Workflow[c]]

Due(c) == Current(c).date <= now

AtLast(c) == Workflow[c] = Len(chain[c])

\* Slip: a null test in the loop guard that keeps the body spinning.
DisposedContextSpins(c) ==
    /\ alive
    /\ pc[c] = "loop"
    /\ State[c] = "null"
    /\ UNCHANGED vars

\* State is null: the context was disposed by an earlier Process.  GetType
\* throws NullReferenceException, and the loop is over for this body.
DisposedContext(c) ==
    /\ alive
    /\ pc[c] = "loop"
    /\ State[c] = "null"
    /\ pc' = [pc EXCEPT ![c] = "out"]
    /\ faulted' = TRUE
    /\ UNCHANGED <<chain, State, Workflow, Cancelled, done, late, Queue,
                   status, rounds, snapshot, cursor, drained, envVars>>

Dispose(c) ==
    /\ alive
    /\ pc[c] = "loop"
    /\ State[c] = "Finished"
    /\ State' = [State EXCEPT ![c] = "null"]
    /\ Workflow' = [Workflow EXCEPT ![c] = 0]
    /\ pc' = [pc EXCEPT ![c] = "out"]
    /\ UNCHANGED <<chain, Cancelled, done, late, Queue, callVars, envVars>>

\* The current workflow is due: setState(new WorkflowRunningState()).  Until
\* then the loop spins, changing nothing.
SetRunning(c) ==
    /\ alive
    /\ pc[c] = "loop"
    /\ State[c] \in {"Initial", "Running"}
    /\ Due(c)
    /\ State' = [State EXCEPT ![c] = "Running"]
    /\ pc' = [pc EXCEPT ![c] = "guard"]
    /\ UNCHANGED <<chain, Workflow, Cancelled, done, late, Queue, callVars, envVars>>

\* HandleAsync: the while guard.  Cancelled, it returns to the loop of Process.
Guard(c) ==
    /\ alive
    /\ pc[c] = "guard"
    /\ pc' = [pc EXCEPT ![c] = IF Cancelled[c] THEN "loop" ELSE "check"]
    /\ UNCHANGED <<chain, State, Workflow, Cancelled, done, late, Queue, callVars,
                   envVars>>

\* ThrowIfCancellationRequested, when the token was cancelled since the guard.
CheckThrows(c) ==
    /\ alive
    /\ pc[c] = "check"
    /\ Cancelled[c]
    /\ unhandled' = TRUE
    /\ pc' = [pc EXCEPT ![c] = "loop"]
    /\ UNCHANGED <<chain, State, Workflow, Cancelled, done, late, Queue, callVars,
                   now, alive, failures>>

\* Slip: the date of a follow-up step is not looked at.
CheckNoDate(c) ==
    /\ alive
    /\ pc[c] = "check"
    /\ ~Cancelled[c]
    /\ pc' = [pc EXCEPT ![c] = "exec"]
    /\ UNCHANGED <<chain, State, Workflow, Cancelled, done, late, Queue, callVars,
                   envVars>>

\* Slip: the token is looked at in the while guard only.
CheckDateUnguarded(c) ==
    /\ alive
    /\ pc[c] = "check"
    /\ pc' = [pc EXCEPT ![c] = IF Due(c) THEN "exec" ELSE "guard"]
    /\ UNCHANGED <<chain, State, Workflow, Cancelled, done, late, Queue, callVars,
                   envVars>>

\* Otherwise the step starts if it is due, or the inner while goes around.
CheckDate(c) ==
    /\ alive
    /\ pc[c] = "check"
    /\ ~Cancelled[c]
    /\ pc' = [pc EXCEPT ![c] = IF Due(c) THEN "exec" ELSE "guard"]
    /\ UNCHANGED <<chain, State, Workflow, Cancelled, done, late, Queue, callVars,
                   envVars>>

\* Workflow.Execute(context).Wait() comes back, cancelled meanwhile or not.
ExecuteReturns(c) ==
    /\ alive
    /\ pc[c] = "exec"
    /\ done' = [done EXCEPT ![c] = Append(@, Workflow[c])]
    /\ late' = [late EXCEPT ![c] = IF Cancelled[c] THEN @ + 1 ELSE @]
    /\ UNCHANGED <<chain, Cancelled, Queue, callVars, envVars>>

\* Next is null: setState(new WorkflowFinishedState(true)).
FinishChain(c) ==
    /\ ExecuteReturns(c)
    /\ AtLast(c)
    /\ State' = [State EXCEPT ![c] = "Finished"]
    /\ pc' = [pc EXCEPT ![c] = "loop"]
    /\ UNCHANGED Workflow

\* Slip: Next is taken without the null test.
AdvancePastEnd(c) ==
    /\ ExecuteReturns(c)
    /\ ~Cancelled[c]
    /\ Workflow' = [Workflow EXCEPT ![c] = @ + 1]
    /\ pc' = [pc EXCEPT ![c] = "guard"]
    /\ UNCHANGED State

\* Workflow = Workflow.Next, and setState(new WorkflowRunningState()) nests.
AdvanceChain(c) ==
    /\ ExecuteReturns(c)
    /\ ~AtLast(c)
    /\ ~Cancelled[c]
    /\ Workflow' = [Workflow EXCEPT ![c] = @ + 1]
    /\ pc' = [pc EXCEPT ![c] = "guard"]
    /\ UNCHANGED State

\* Cancelled while the step ran: the chain stays where it is.
LeaveChain(c) ==
    /\ ExecuteReturns(c)
    /\ ~AtLast(c)
    /\ Cancelled[c]
    /\ pc' = [pc EXCEPT ![c] = "loop"]
    /\ UNCHANGED <<State, Workflow>>

\* MonitorLocalFilesWorkflow catches DirectoryNotFoundException and gives its
\* context a cancelled token; Execute returns, and RunningState goes on as
\* after any step: a last step still sets the finished state.
DirectoryMissing(c) ==
    /\ alive
    /\ pc[c] = "exec"
    /\ Current(c).monitor
    /\ Cancelled' = [Cancelled EXCEPT ![c] = TRUE]
    /\ State' = [State EXCEPT ![c] = IF AtLast(c) THEN "Finished" ELSE @]
    /\ pc' = [pc EXCEPT ![c] = "loop"]
    /\ UNCHANGED <<chain, Workflow, Queue, callVars, done, late, envVars>>

\* Slip: a step that threw is passed over.
ThrowSkipsStep(c) ==
    /\ alive
    /\ pc[c] = "exec"
    /\ failures < MaxFailures
    /\ failures' = failures + 1
    /\ unhandled' = TRUE
    /\ Workflow' = [Workflow EXCEPT ![c] = IF AtLast(c) THEN @ ELSE @ + 1]
    /\ pc' = [pc EXCEPT ![c] = "loop"]
    /\ UNCHANGED <<chain, State, Cancelled, Queue, callVars, now, alive, done, late>>

\* Execute throws.  The async void handler swallows it for now; the state and
\* the workflow stay, and the loop of Process starts the same step again.
ExecuteThrows(c) ==
    /\ alive
    /\ pc[c] = "exec"
    /\ failures < MaxFailures
    /\ failures' = failures + 1
    /\ unhandled' = TRUE
    /\ pc' = [pc EXCEPT ![c] = "loop"]
    /\ UNCHANGED <<chain, State, Workflow, Cancelled, Queue, callVars, now, alive,
                   done, late>>

Body(c) ==
    \/ DisposedContext(c) \/ Dispose(c) \/ SetRunning(c) \/ Guard(c)
    \/ CheckThrows(c) \/ CheckDate(c)
    \/ FinishChain(c) \/ AdvanceChain(c) \/ LeaveChain(c)
    \/ DirectoryMissing(c) \/ ExecuteThrows(c)

-----------------------------------------------------------------------------
(* The runtime *)

\* The pool thread that got an async void exception rethrows it: the process dies.
Crash ==
    /\ alive
    /\ unhandled
    /\ alive' = FALSE
    /\ UNCHANGED <<chain, ctxVars, Queue, callVars, now, unhandled, failures>>

Tick ==
    /\ alive
    /\ now < MaxTime
    /\ now' = now + 1
    /\ UNCHANGED <<chain, ctxVars, Queue, callVars, unhandled, alive, failures>>

Next ==
    \/ \E c \in Contexts : Enqueue(c) \/ Cancel(c) \/ Body(c)
    \/ Process \/ MoveNext \/ MoveNextEnds \/ MoveNextThrows \/ ProcessEnds
    \/ Crash \/ Tick

Spec == Init /\ [][Next]_vars

\* Threads that can run do run, a step that started returns or throws, and
\* the clock moves; the client, a cancellation and a crash may never come.
Fairness ==
    /\ \A c \in Contexts : WF_vars(Body(c))
    /\ WF_vars(MoveNext \/ MoveNextEnds \/ MoveNextThrows)
    /\ WF_vars(ProcessEnds)
    /\ WF_vars(Tick)

FairSpec == Spec /\ Fairness

-----------------------------------------------------------------------------
(* Properties *)

\* The shape of the state.
TypeOK ==
    /\ chain \in [Contexts -> Chains]
    /\ State \in [Contexts -> States]
    /\ Workflow \in [Contexts -> Nat]
    /\ Cancelled \in [Contexts -> BOOLEAN]
    /\ pc \in [Contexts -> PCs]
    /\ Queue \in Seq(Contexts)
    /\ status \in Statuses
    /\ rounds \in 0..MaxRounds
    /\ snapshot \in Nat /\ cursor \in Nat
    /\ drained \in BOOLEAN /\ faulted \in BOOLEAN
    /\ now \in Nat
    /\ unhandled \in BOOLEAN
    /\ alive \in BOOLEAN
    /\ failures \in Nat
    /\ done \in [Contexts -> Seq(Nat)]
    /\ late \in [Contexts -> Nat]
    /\ \A c \in Contexts : Workflow[c] <= Len(chain[c])
    /\ cursor <= snapshot /\ snapshot <= Len(Queue)

\* The steps of a context complete in the order the client queued them, none
\* twice and none skipped, although a step that throws is executed again
\* (CreateWorkflowTree, RunningState.HandleAsync and the retry by Process).
StepsInOrder ==
    \A c \in Contexts :
        /\ Len(done[c]) <= Len(chain[c])
        /\ \A i \in 1..Len(done[c]) : done[c][i] = i

\* A context reaches the finished state, and is disposed, only after its last
\* step, unless it was cancelled (RunningState.cs:22-24, WorkflowQueue.cs:61).
FinishedIsComplete ==
    \A c \in Contexts :
        State[c] \in {"Finished", "null"} /\ ~Cancelled[c]
            => Len(done[c]) = Len(chain[c])

\* A cancelled context completes at most the step that was in flight.
AtMostOneLateStep == \A c \in Contexts : late[c] <= 1

\* When Process returns without an exception, every context it found in the
\* queue is disposed, and none has a step left unless it was cancelled.
ReturnedMeansDone ==
    status = "returned" =>
        \A i \in 1..snapshot :
            LET c == Queue[i] IN
            /\ State[c] = "null"
            /\ Cancelled[c] \/ Len(done[c]) = Len(chain[c])

\* The contexts do what ChainRun promises, seen through their state object, the
\* steps that have returned and the token.
Phase(c) == CASE State[c] = "Finished" -> "finished"
              [] State[c] = "null"     -> "disposed"
              [] OTHER                 -> "open"

Phases == [c \in Contexts |-> Phase(c)]

Completed == [c \in Contexts |-> Len(done[c])]

Promise == INSTANCE ChainRun WITH
    phase <- Phases, completed <- Completed, cancelled <- Cancelled

ImplementsChainRun == Promise!Spec

\* A cancelled context whose body is between two steps.
Trapped(c) ==
    /\ Cancelled[c] /\ State[c] \in {"Initial", "Running"}
    /\ pc[c] \in {"loop", "guard", "check"}

\* It stays there for ever: no step of it runs, none of its states is left, its slot
\* is not given back and Process does not return (WorkflowQueue:47,
\* RunningState:16-18).
TrappedStays ==
    [][\A c \in Contexts : Trapped(c) =>
          Trapped(c)' /\ done'[c] = done[c] /\ status' = "running"]_vars

\* Process comes back unless a context it runs is cancelled or the process dies.
ProcessTerminates ==
    status = "running" ~>
        \/ status # "running"
        \/ ~alive
        \/ \E c \in Busy : Cancelled[c]

-----------------------------------------------------------------------------
(* What the comments of the code say, and the code does not do *)

\* "The cancellation token is able to interrupt the processing of a workflow
\* context" (WorkflowQueue.cs:40): a cancelled context leaves its body.
CancelInterrupts ==
    \A c \in Contexts :
        (pc[c] \in BodyPCs /\ Cancelled[c]) ~> (pc[c] = "out" \/ ~alive)

-----------------------------------------------------------------------------
(* The inductive invariant *)

\* Where a context stands: its state object agrees with the position of its
\* body, and its current workflow with the steps that have returned.  Workflow
\* is one ahead of done except when a cancellation kept a step that returned
\* from advancing the chain; from then on no step may start.
ContextInv(c) ==
    LET k == Len(done[c])
        w == Workflow[c]
        n == Len(chain[c])
    IN
    /\ State[c] # "null" => w >= 1
    /\ State[c] = "null" => pc[c] \in {"out", "loop"}
    /\ pc[c] \in {"new", "queued"} => State[c] = "Initial"
    /\ pc[c] \in {"guard", "check", "exec"} => State[c] = "Running"
    /\ pc[c] = "out" => State[c] = "null"
    /\ pc[c] = "exec" => Due(c)
    /\ State[c] = "Initial" => k = 0 /\ w = 1
    /\ State[c] = "Running" =>
          \/ k = w - 1
          \/ k = w /\ w < n /\ Cancelled[c] /\ pc[c] \in {"loop", "guard"}
    /\ State[c] \in {"Finished", "null"} =>
          k = n \/ (k = n - 1 /\ Cancelled[c])
    /\ \A i \in 1..k : done[c][i] = i
    /\ late[c] <= 1
    /\ late[c] = 1 =>
          Cancelled[c] /\ (State[c] \in {"Finished", "null"} \/ k = w)

\* What a call of Process knows of the queue: each context is in it once, those
\* before the cursor have a body or had one, the others have none.
RoundInv ==
    /\ \A i, j \in 1..Len(Queue) : Queue[i] = Queue[j] => i = j
    /\ \A i \in 1..Len(Queue) : pc[Queue[i]] # "new"
    /\ status # "running" => Busy = {}
    /\ status = "running" =>
          /\ \A i \in 1..cursor : pc[Queue[i]] \in BodyPCs \cup {"out"}
          /\ \A i \in (cursor + 1)..Len(Queue) : pc[Queue[i]] \notin BodyPCs
    /\ drained /\ ~faulted => cursor = snapshot
    /\ status = "returned" =>
          \A i \in 1..snapshot : pc[Queue[i]] = "out"

IInv == TypeOK /\ (\A c \in Contexts : ContextInv(c)) /\ RoundInv
=============================================================================
