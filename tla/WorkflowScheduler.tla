-------------------------- MODULE WorkflowScheduler --------------------------
(***************************************************************************)
(* WorkflowSchedulerService: a TaskScheduler that runs at most             *)
(* _MaxConcurrencyLevel delegates on the thread pool.  QueueTask adds a    *)
(* task to a list under a lock and, below the level, asks the pool for one *)
(* more delegate; a delegate takes tasks from the list until it finds it   *)
(* empty, and gives itself up under the same lock.  A task that waits for  *)
(* one it created runs it in place if it is still in the list.             *)
(*                                                                         *)
(* Every operation of the list is one critical section, hence one action.  *)
(***************************************************************************)
EXTENDS Naturals, Sequences, FiniteSets

CONSTANTS
    Tasks,
    Threads,          \* the threads the pool can give to this scheduler
    MaxConcurrency,   \* _MaxConcurrencyLevel, 10 in the code
    NoTask

ASSUME TasksAssumption == NoTask \notin Tasks
ASSUME ThreadsAssumption == IsFiniteSet(Threads) /\ Threads # {}
ASSUME LevelAssumption == MaxConcurrency \in Nat \ {0}

VARIABLES
    list,        \* _Tasks
    delegates,   \* _DelegatesQueuedOrRunning
    pending,     \* delegates the pool has not started yet
    processing,  \* processing[w]: _CurrentThreadIsProcessingItems of thread w
    stack,       \* stack[w]: the tasks thread w is inside of, the last one running
    awaits,      \* awaits[w]: the task the last one waits for, running elsewhere
    phase,       \* phase[t]: "new", "queued", "running" or "done"
    owner        \* owner[t]: the task that created t, NoTask for the client

vars == <<list, delegates, pending, processing, stack, awaits, phase, owner>>

poolVars == <<pending, processing>>
runVars == <<stack, awaits>>

Phases == {"new", "queued", "running", "done"}

Init ==
    /\ list = <<>>
    /\ delegates = 0
    /\ pending = 0
    /\ processing = [w \in Threads |-> FALSE]
    /\ stack = [w \in Threads |-> <<>>]
    /\ awaits = [w \in Threads |-> NoTask]
    /\ phase = [t \in Tasks |-> "new"]
    /\ owner = [t \in Tasks |-> NoTask]

\* Thread w runs a delegate and is between two items.
AtLoop(w) == processing[w] /\ stack[w] = <<>>

\* The task that thread w is executing, which waits for nothing.
Executes(w, t) ==
    /\ stack[w] # <<>>
    /\ t = stack[w][Len(stack[w])]
    /\ awaits[w] = NoTask

\* Slip: the level is not compared before a delegate is asked for.
QueueTaskUnbounded(t, creator) ==
    /\ phase[t] = "new"
    /\ phase' = [phase EXCEPT ![t] = "queued"]
    /\ owner' = [owner EXCEPT ![t] = creator]
    /\ list' = Append(list, t)
    /\ delegates' = delegates + 1
    /\ pending' = pending + 1

\* Slip: a delegate is asked for only when there is none.
QueueTaskWhenIdle(t, creator) ==
    /\ phase[t] = "new"
    /\ phase' = [phase EXCEPT ![t] = "queued"]
    /\ owner' = [owner EXCEPT ![t] = creator]
    /\ list' = Append(list, t)
    /\ IF delegates = 0
       THEN delegates' = 1 /\ pending' = pending + 1
       ELSE UNCHANGED <<delegates, pending>>

\* QueueTask and NotifyThreadPoolOfPendingWork, under lock (_Tasks).
QueueTask(t, creator) ==
    /\ phase[t] = "new"
    /\ phase' = [phase EXCEPT ![t] = "queued"]
    /\ owner' = [owner EXCEPT ![t] = creator]
    /\ list' = Append(list, t)
    /\ IF delegates < MaxConcurrency
       THEN delegates' = delegates + 1 /\ pending' = pending + 1
       ELSE UNCHANGED <<delegates, pending>>

-----------------------------------------------------------------------------
(* Clients.  RunSynchronously on a thread that runs no delegate comes here   *)
(* too: TryExecuteTaskInline refuses it and the runtime queues the task.     *)

Submit(t) ==
    /\ QueueTask(t, NoTask)
    /\ UNCHANGED <<processing, runVars>>

-----------------------------------------------------------------------------
(* The delegate *)

\* The pool gives a thread to a queued delegate.
StartDelegate(w) ==
    /\ pending > 0
    /\ ~processing[w]
    /\ pending' = pending - 1
    /\ processing' = [processing EXCEPT ![w] = TRUE]
    /\ UNCHANGED <<list, delegates, runVars, phase, owner>>

\* The first item leaves the list, and TryExecuteTask starts it.
TakeItem(w) ==
    /\ AtLoop(w)
    /\ list # <<>>
    /\ list' = Tail(list)
    /\ stack' = [stack EXCEPT ![w] = <<Head(list)>>]
    /\ phase' = [phase EXCEPT ![Head(list)] = "running"]
    /\ UNCHANGED <<delegates, poolVars, awaits, owner>>

\* Slip: the delegate leaves without looking at the list again.
LeaveEarly(w) ==
    /\ AtLoop(w)
    /\ delegates' = delegates - 1
    /\ processing' = [processing EXCEPT ![w] = FALSE]
    /\ UNCHANGED <<list, pending, runVars, phase, owner>>

\* Slip: the count is given back in the loop and once more on the way out.
LeaveCountedTwice(w) ==
    /\ AtLoop(w)
    /\ list = <<>>
    /\ delegates' = delegates - 2
    /\ processing' = [processing EXCEPT ![w] = FALSE]
    /\ UNCHANGED <<list, pending, runVars, phase, owner>>

\* Slip: the count is not given back.
LeaveUncounted(w) ==
    /\ AtLoop(w)
    /\ list = <<>>
    /\ processing' = [processing EXCEPT ![w] = FALSE]
    /\ UNCHANGED <<list, delegates, pending, runVars, phase, owner>>

\* The list is empty: the delegate gives itself up under the lock.  The flag its
\* `finally' resets is its thread's own, and nobody sees the moment between.
Leave(w) ==
    /\ AtLoop(w)
    /\ list = <<>>
    /\ delegates' = delegates - 1
    /\ processing' = [processing EXCEPT ![w] = FALSE]
    /\ UNCHANGED <<list, pending, runVars, phase, owner>>

\* The executing task returns or throws; TryExecuteTask records either.
Finish(w) ==
    \E t \in Tasks :
        /\ Executes(w, t)
        /\ phase' = [phase EXCEPT ![t] = "done"]
        /\ stack' = [stack EXCEPT ![w] = SubSeq(@, 1, Len(@) - 1)]
        /\ UNCHANGED <<list, delegates, poolVars, awaits, owner>>

-----------------------------------------------------------------------------
(* What a task does while it executes on thread w *)

Spawn(w, t) ==
    /\ \E p \in Tasks : Executes(w, p) /\ QueueTask(t, p)
    /\ UNCHANGED <<processing, runVars>>

Push(w, t) ==
    /\ stack' = [stack EXCEPT ![w] = Append(@, t)]
    /\ phase' = [phase EXCEPT ![t] = "running"]

\* RunSynchronously: TryExecuteTaskInline, the task was not queued before.
RunInPlace(w, t) ==
    /\ phase[t] = "new"
    /\ \E p \in Tasks : Executes(w, p) /\ owner' = [owner EXCEPT ![t] = p]
    /\ Push(w, t)
    /\ UNCHANGED <<list, delegates, poolVars, awaits>>

\* LinkedList.Remove: the first t is taken off.
RemoveFirst(t) ==
    \E i \in 1..Len(list) :
        /\ list[i] = t
        /\ \A j \in 1..(i - 1) : list[j] # t
        /\ list' = SubSeq(list, 1, i - 1) \o SubSeq(list, i + 1, Len(list))

InList(t) == \E i \in 1..Len(list) : list[i] = t

\* Wait on a child still in the list: TryDequeue removes it, and it runs here.
WaitInPlace(w, t) ==
    /\ \E p \in Tasks : Executes(w, p) /\ owner[t] = p
    /\ RemoveFirst(t)
    /\ Push(w, t)
    /\ UNCHANGED <<delegates, poolVars, awaits, owner>>

\* Slip: a task that waits blocks its thread, the list not being looked at.
WaitBlockedAlways(w, t) ==
    /\ phase[t] \in {"queued", "running"}
    /\ \E p \in Tasks : Executes(w, p) /\ owner[t] = p
    /\ awaits' = [awaits EXCEPT ![w] = t]
    /\ UNCHANGED <<list, delegates, poolVars, stack, phase, owner>>

\* TryDequeue fails because another thread runs the child: w blocks.
WaitBlocked(w, t) ==
    /\ phase[t] = "running"
    /\ \E p \in Tasks : Executes(w, p) /\ owner[t] = p
    /\ awaits' = [awaits EXCEPT ![w] = t]
    /\ UNCHANGED <<list, delegates, poolVars, stack, phase, owner>>

Resume(w) ==
    /\ awaits[w] # NoTask
    /\ phase[awaits[w]] = "done"
    /\ awaits' = [awaits EXCEPT ![w] = NoTask]
    /\ UNCHANGED <<list, delegates, poolVars, stack, phase, owner>>

Next ==
    \/ \E t \in Tasks : Submit(t)
    \/ \E w \in Threads :
        \/ StartDelegate(w) \/ TakeItem(w) \/ Leave(w) \/ Finish(w) \/ Resume(w)
        \/ \E t \in Tasks :
            \/ Spawn(w, t) \/ RunInPlace(w, t)
            \/ WaitInPlace(w, t) \/ WaitBlocked(w, t)

Spec == Init /\ [][Next]_vars

\* The pool finds a thread for a queued delegate, threads run, and a task that
\* waits for nothing comes to its end.
Fairness ==
    /\ WF_vars(\E w \in Threads : StartDelegate(w))
    /\ \A w \in Threads :
        WF_vars(TakeItem(w)) /\ WF_vars(Leave(w)) /\ WF_vars(Finish(w)) /\ WF_vars(Resume(w))

FairSpec == Spec /\ Fairness

-----------------------------------------------------------------------------
(* Properties *)

Live == {w \in Threads : processing[w]}
Between == {w \in Threads : AtLoop(w)}

\* The shape of the state.
TypeOK ==
    /\ list \in Seq(Tasks)
    /\ delegates \in Nat
    /\ pending \in Nat
    /\ processing \in [Threads -> BOOLEAN]
    /\ stack \in [Threads -> Seq(Tasks)]
    /\ awaits \in [Threads -> Tasks \cup {NoTask}]
    /\ phase \in [Tasks -> Phases]
    /\ owner \in [Tasks -> Tasks \cup {NoTask}]

\* The counter kept under the lock is the number of delegates there really are,
\* waiting for a thread or running on one, and never exceeds the level.
CountIsExact ==
    /\ delegates = pending + Cardinality(Live)
    /\ delegates <= MaxConcurrency

\* While a task is in the list there is a delegate that will look at the list
\* again: a task queued just as the last delegate leaves is not forgotten.
NoLostWakeup == list # <<>> => delegates > 0

\* Below the level, there is a delegate on its way to the list for every task
\* in it: no task waits behind a busy thread while another could be asked for.
NoIdleCapacity ==
    delegates < MaxConcurrency => Len(list) <= pending + Cardinality(Between)

OnStack(t) == \E w \in Threads : \E i \in 1..Len(stack[w]) : stack[w][i] = t

\* A task is in one place only: queued and once in the list, running and once on
\* one thread, or new or done and nowhere.
OnePlace ==
    /\ \A t \in Tasks : phase[t] = "queued" <=> InList(t)
    /\ \A t \in Tasks : phase[t] = "running" <=> OnStack(t)
    /\ \A i, j \in 1..Len(list) : list[i] = list[j] => i = j
    /\ \A v, w \in Threads : \A i \in 1..Len(stack[v]), j \in 1..Len(stack[w]) :
           stack[v][i] = stack[w][j] => v = w /\ i = j

\* Tasks run on threads that run a delegate.
DelegatesRunTasks == \A w \in Threads : stack[w] # <<>> => processing[w]

\* Thread w has something to do: it takes the next item or leaves, ends a task
\* that waits for nothing, goes on after a wait, or starts a delegate.
CanGoOn(w) ==
    \/ AtLoop(w)
    \/ stack[w] # <<>> /\ awaits[w] = NoTask
    \/ awaits[w] # NoTask /\ phase[awaits[w]] = "done"
    \/ pending > 0 /\ ~processing[w]

\* Tasks that wait for tasks, in place or blocking their threads, never lock the
\* pool: while a task is queued or running, some thread has something to do,
\* however few threads there are (TryExecuteTaskInline, :74-95).
NeverLocked ==
    (\E t \in Tasks : phase[t] \in {"queued", "running"}) => \E w \in Threads : CanGoOn(w)

\* A task was created by one that ran; on a stack, each task by the one below it;
\* and one that blocks its thread waits for a task it created and that was begun.
CreatedByRunning ==
    \A t \in Tasks : owner[t] # NoTask =>
        phase[t] # "new" /\ phase[owner[t]] \in {"running", "done"}

StackLinked ==
    \A w \in Threads : \A i \in 1..(Len(stack[w]) - 1) : owner[stack[w][i + 1]] = stack[w][i]

WaitsForItsOwn ==
    \A w \in Threads : awaits[w] # NoTask =>
        /\ stack[w] # <<>> /\ owner[awaits[w]] = stack[w][Len(stack[w])]
        /\ phase[awaits[w]] \in {"running", "done"}

WaitInv == CreatedByRunning /\ StackLinked /\ WaitsForItsOwn

IInv ==
    /\ TypeOK /\ CountIsExact /\ NoLostWakeup
    /\ OnePlace /\ DelegatesRunTasks /\ NoIdleCapacity

\* The scheduler does what LimitedPool promises; a slot is a thread's first task.
Slots == {stack[w][1] : w \in {v \in Threads : stack[v] # <<>>}}

Pool == INSTANCE LimitedPool WITH slots <- Slots

ImplementsLimitedPool == Pool!Spec

\* Every queued task gets done, though tasks block their threads on one another.
EveryTaskFinishes == \A t \in Tasks : phase[t] = "queued" ~> phase[t] = "done"
=============================================================================
