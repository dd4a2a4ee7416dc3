---------------------------- MODULE WorkersQueue ----------------------------
(***************************************************************************)
(* WorkersQueue<T>: a FIFO of workers and a semaphore of one permit, held  *)
(* to enqueue a worker, and held to dequeue a worker and do its work.  The *)
(* loop of DeqeueAllAsync looks at the token and at the count before it    *)
(* waits for the semaphore.                                                *)
(*                                                                         *)
(* pc[a] is where the caller of Enqueue(a), or the drain a, stands:        *)
(*    "idle"      not called                                               *)
(*    "loop"      a drain, at the while guard (:82)                        *)
(*    "waiting"   at semaphore.WaitAsync (:64, :84)                        *)
(*    "holding"   has the permit (:66, :85)                                *)
(*    "working"   a drain, in doWork (:88)                                 *)
(*    "returned"  the task is completed                                    *)
(*    "faulted"   the task is faulted                                      *)
(***************************************************************************)
EXTENDS Naturals, Sequences, FiniteSets

CONSTANTS
    Workers,   \* the workers, each enqueued once, by a task of its own
    Drains,    \* the calls of DeqeueAllAsync, one after another or at once
    NoWorker

ASSUME WorkersAssumption == NoWorker \notin Workers
ASSUME CallersAssumption == Workers \cap Drains = {}

VARIABLES
    queue,      \* _queue
    semaphore,  \* semaphore.CurrentCount
    pc,         \* pc[a]: where caller a stands
    worker,     \* worker[d]: the worker drain d does
    expired,    \* expired[d]: its token's IsCancellationRequested
    underflow,  \* history: underflow[d], its Dequeue found nothing
    accepted,   \* history: the workers enqueued so far, in order
    begun,      \* history: how many have been dequeued
    ended,      \* history: the workers whose doWork came to an end
    before,     \* history: before[d], how many were enqueued when d was called
    shared      \* history: a drain was called while another was under way

vars == <<queue, semaphore, pc, worker, expired, underflow,
          accepted, begun, ended, before, shared>>

Callers == Workers \cup Drains
PCs == {"idle", "loop", "waiting", "holding", "working", "returned", "faulted"}
Holding == {"holding", "working"}

UnderWay(d) == pc[d] \in {"loop", "waiting", "holding", "working"}

Init ==
    /\ queue = <<>>
    /\ semaphore = 1
    /\ pc = [a \in Callers |-> "idle"]
    /\ worker = [d \in Drains |-> NoWorker]
    /\ expired = [d \in Drains |-> FALSE]
    /\ underflow = [d \in Drains |-> FALSE]
    /\ accepted = <<>> /\ begun = 0 /\ ended = {}
    /\ before = [d \in Drains |-> 0]
    /\ shared = FALSE

Move(a, from, to) ==
    /\ pc[a] = from
    /\ pc' = [pc EXCEPT ![a] = to]

-----------------------------------------------------------------------------
(* Operators marked `Slip' are ways the code could be got wrong, and no part *)
(* of Next.                                                                  *)

\* semaphore.WaitAsync
Acquire(a) ==
    /\ Move(a, "waiting", "holding")
    /\ semaphore > 0
    /\ semaphore' = semaphore - 1
    /\ UNCHANGED <<queue, worker, expired, underflow, accepted, begun, ended, before, shared>>

Enqueue(w) ==
    /\ Move(w, "idle", "waiting")
    /\ UNCHANGED <<queue, semaphore, worker, expired, underflow,
                   accepted, begun, ended, before, shared>>

\* Slip: the permit is not given back.
EnqueueKeeps(w) ==
    /\ Move(w, "holding", "returned")
    /\ queue' = Append(queue, w)
    /\ accepted' = Append(accepted, w)
    /\ UNCHANGED <<semaphore, worker, expired, underflow, begun, ended, before, shared>>

\* The worker is put in, the permit given back.  OnWorkItemAdded only logs.
EnqueueEnds(w) ==
    /\ Move(w, "holding", "returned")
    /\ queue' = Append(queue, w)
    /\ accepted' = Append(accepted, w)
    /\ semaphore' = semaphore + 1
    /\ UNCHANGED <<worker, expired, underflow, begun, ended, before, shared>>

-----------------------------------------------------------------------------
(* DeqeueAllAsync *)

Drain(d) ==
    /\ Move(d, "idle", "loop")
    /\ before' = [before EXCEPT ![d] = Len(accepted)]
    /\ shared' = (shared \/ \E e \in Drains : UnderWay(e))
    /\ UNCHANGED <<queue, semaphore, worker, expired, underflow, accepted, begun, ended>>

\* Slip: the count is not looked at.
GuardTokenOnly(d) ==
    /\ Move(d, "loop", IF expired[d] THEN "returned" ELSE "waiting")
    /\ UNCHANGED <<queue, semaphore, worker, expired, underflow,
                   accepted, begun, ended, before, shared>>

\* The while guard, outside the semaphore.
Guard(d) ==
    /\ Move(d, "loop", IF expired[d] \/ queue = <<>> THEN "returned" ELSE "waiting")
    /\ UNCHANGED <<queue, semaphore, worker, expired, underflow,
                   accepted, begun, ended, before, shared>>

\* Slip: the permit is given back before the work is done.
DequeueReleases(d) ==
    /\ Move(d, "holding", "working")
    /\ queue # <<>>
    /\ worker' = [worker EXCEPT ![d] = Head(queue)]
    /\ queue' = Tail(queue)
    /\ semaphore' = semaphore + 1
    /\ begun' = begun + 1
    /\ UNCHANGED <<expired, underflow, accepted, ended, before, shared>>

\* Slip: doWork is started and not awaited.
DequeueUnawaited(d) ==
    /\ Move(d, "holding", "loop")
    /\ queue # <<>>
    /\ queue' = Tail(queue)
    /\ semaphore' = semaphore + 1
    /\ begun' = begun + 1
    /\ UNCHANGED <<worker, expired, underflow, accepted, ended, before, shared>>

\* _queue.Dequeue() yields a worker, which starts to work.
Dequeue(d) ==
    /\ Move(d, "holding", "working")
    /\ queue # <<>>
    /\ worker' = [worker EXCEPT ![d] = Head(queue)]
    /\ queue' = Tail(queue)
    /\ begun' = begun + 1
    /\ UNCHANGED <<semaphore, expired, underflow, accepted, ended, before, shared>>

\* InvalidOperationException: another drain has emptied the queue.
DequeueThrows(d) ==
    /\ Move(d, "holding", "faulted")
    /\ queue = <<>>
    /\ underflow' = [underflow EXCEPT ![d] = TRUE]
    /\ semaphore' = semaphore + 1
    /\ UNCHANGED <<queue, worker, expired, accepted, begun, ended, before, shared>>

Ends(d) ==
    /\ ended' = ended \cup {worker[d]}
    /\ worker' = [worker EXCEPT ![d] = NoWorker]
    /\ semaphore' = semaphore + 1
    /\ UNCHANGED <<queue, expired, underflow, accepted, begun, before, shared>>

\* doWork is completed: the next iteration.
WorkDone(d) == Move(d, "working", "loop") /\ Ends(d)

\* doWork throws: the permit is given back and the drain is over.
WorkThrows(d) == Move(d, "working", "faulted") /\ Ends(d)

\* The time of the token is over.
Expire(d) ==
    /\ UnderWay(d)
    /\ ~expired[d]
    /\ expired' = [expired EXCEPT ![d] = TRUE]
    /\ UNCHANGED <<queue, semaphore, pc, worker, underflow,
                   accepted, begun, ended, before, shared>>

EnqueueStep(w) == Enqueue(w) \/ Acquire(w) \/ EnqueueEnds(w)

DrainStep(d) ==
    \/ Drain(d) \/ Guard(d) \/ Acquire(d) \/ Dequeue(d) \/ DequeueThrows(d)
    \/ WorkDone(d) \/ WorkThrows(d) \/ Expire(d)

Next == (\E w \in Workers : EnqueueStep(w)) \/ (\E d \in Drains : DrainStep(d))

Spec == Init /\ [][Next]_vars

\* Tasks that can go on do, a permit that stays free is taken, and doWork
\* comes to its end in one way or the other.
Fairness ==
    /\ \A w \in Workers : WF_vars(Acquire(w)) /\ WF_vars(EnqueueEnds(w))
    /\ \A d \in Drains :
        /\ WF_vars(Guard(d)) /\ WF_vars(Acquire(d))
        /\ WF_vars(Dequeue(d)) /\ WF_vars(DequeueThrows(d))
        /\ WF_vars(WorkDone(d) \/ WorkThrows(d))

FairSpec == Spec /\ Fairness

-----------------------------------------------------------------------------
(* Properties *)

Holders == {a \in Callers : pc[a] \in Holding}

\* The shape of the state.
TypeOK ==
    /\ queue \in Seq(Workers)
    /\ semaphore \in {0, 1}
    /\ pc \in [Callers -> PCs]
    /\ worker \in [Drains -> Workers \cup {NoWorker}]
    /\ expired \in [Drains -> BOOLEAN]
    /\ underflow \in [Drains -> BOOLEAN]
    /\ accepted \in Seq(Workers)
    /\ begun \in Nat
    /\ ended \in SUBSET Workers
    /\ before \in [Drains -> Nat]
    /\ shared \in BOOLEAN

\* The permit is away exactly while one caller has it, through every exception:
\* nobody else is in the queue, and nobody finds the semaphore closed for ever.
PermitHeldOnce ==
    /\ \A a, b \in Holders : a = b
    /\ semaphore = 1 <=> Holders = {}

\* Every worker that was enqueued is in the queue, in its order, or was dequeued
\* before all those; none is lost and none dequeued twice.
FirstInFirstOut ==
    /\ Len(accepted) = begun + Len(queue)
    /\ \A i \in 1..Len(queue) : queue[i] = accepted[begun + i]

\* A drain that comes back with its token untouched leaves nothing that was in
\* the queue when it was called, though others drain and enqueue meanwhile.
ReturnedMeansBegun ==
    \A d \in Drains :
        pc[d] = "returned" /\ ~expired[d] => begun >= before[d]

\* If drains do not overlap, what was begun is done when one comes back.
ReturnedMeansDone ==
    \A d \in Drains :
        pc[d] = "returned" /\ ~expired[d] /\ ~shared =>
            \A i \in 1..before[d] : accepted[i] \in ended

\* No call counts a worker that was not enqueued.
CallsCounted == \A d \in Drains : before[d] <= Len(accepted)

\* A worker that was dequeued is done, or a drain has it in its hands.
BegunAccounted ==
    \A i \in 1..begun :
        accepted[i] \in ended \/ \E d \in Drains : worker[d] = accepted[i]

\* Each worker is accepted once, when its Enqueue comes back.
WorkersOnce ==
    \A w \in Workers :
        /\ pc[w] \in {"idle", "waiting", "holding", "returned"}
        /\ (\E i \in 1..Len(accepted) : accepted[i] = w) <=> pc[w] = "returned"

\* Drains overlap only if one was called while another was under way; one that
\* passed its guard alone still has a worker to take.
DrainsAlone ==
    ~shared =>
        /\ \A d, e \in Drains : UnderWay(d) /\ UnderWay(e) => d = e
        /\ \A d \in Drains : pc[d] \in {"waiting", "holding"} => queue # <<>>

\* A drain has a worker in its hands while it works.
WorkInHand == \A d \in Drains : pc[d] = "working" <=> worker[d] # NoWorker

\* If drains do not overlap, none finds the queue empty after its guard.
AloneNoUnderflow == ~shared => \A d \in Drains : ~underflow[d]

IInv ==
    /\ TypeOK /\ PermitHeldOnce /\ FirstInFirstOut
    /\ WorkersOnce /\ DrainsAlone /\ WorkInHand /\ AloneNoUnderflow

Accounted == CallsCounted /\ BegunAccounted /\ ReturnedMeansBegun /\ ReturnedMeansDone

\* The queue does what SerialQueue promises.
Working ==
    IF \E d \in Drains : pc[d] = "working"
    THEN worker[CHOOSE d \in Drains : pc[d] = "working"]
    ELSE NoWorker

Serial == INSTANCE SerialQueue WITH working <- Working

ImplementsSerialQueue == Serial!Spec

\* Every drain and every Enqueue comes to an end.
CallsEnd ==
    /\ \A w \in Workers : pc[w] = "waiting" ~> pc[w] = "returned"
    /\ \A d \in Drains : UnderWay(d) ~> ~UnderWay(d)
=============================================================================
