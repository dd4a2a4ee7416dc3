------------------------- MODULE WorkersQueueProofs -------------------------
(***************************************************************************)
(* The safety of the workers queue, for any number of workers and drains.  *)
(***************************************************************************)
EXTENDS WorkersQueue, TLAPS

USE WorkersAssumption, CallersAssumption

-----------------------------------------------------------------------------
(* Types *)

LEMMA InitType == Init => TypeOK
  <1> SUFFICES ASSUME Init PROVE TypeOK
    OBVIOUS
  <1>1. queue \in Seq(Workers) /\ accepted \in Seq(Workers)
    BY DEF Init
  <1>2. pc \in [Callers -> PCs]
    BY DEF Init, PCs
  <1>3. /\ worker \in [Drains -> Workers \cup {NoWorker}]
        /\ expired \in [Drains -> BOOLEAN]
        /\ underflow \in [Drains -> BOOLEAN]
        /\ before \in [Drains -> Nat]
    BY DEF Init
  <1> QED
    BY <1>1, <1>2, <1>3 DEF Init, TypeOK

LEMMA StepType == TypeOK /\ PermitHeldOnce /\ WorkInHand /\ [Next]_vars => TypeOK'
  <1> SUFFICES ASSUME TypeOK, PermitHeldOnce, WorkInHand, [Next]_vars
               PROVE  TypeOK'
    OBVIOUS
  <1> USE DEF TypeOK, Move, PCs
  <1>1. ASSUME NEW a \in Callers, Acquire(a)
        PROVE  TypeOK'
    BY <1>1 DEF Acquire
  <1>2. ASSUME NEW a \in Callers, pc[a] \in Holding
        PROVE  semaphore + 1 \in {0, 1}
    BY <1>2 DEF PermitHeldOnce, Holders
  <1>3. Workers \subseteq Callers /\ Drains \subseteq Callers
    BY DEF Callers
  <1>4. ASSUME NEW w \in Workers, Enqueue(w)
        PROVE  TypeOK'
    BY <1>3, <1>4 DEF Enqueue
  <1>5. ASSUME NEW w \in Workers, EnqueueEnds(w)
        PROVE  TypeOK'
    BY <1>2, <1>3, <1>5 DEF EnqueueEnds, Holding
  <1>6. ASSUME NEW d \in Drains, Drain(d)
        PROVE  TypeOK'
    BY <1>3, <1>6 DEF Drain
  <1>7. ASSUME NEW d \in Drains, Guard(d) \/ Expire(d)
        PROVE  TypeOK'
    BY <1>3, <1>7 DEF Guard, Expire
  <1>8. ASSUME NEW d \in Drains, Dequeue(d)
        PROVE  TypeOK'
    BY <1>3, <1>8 DEF Dequeue
  <1>9. ASSUME NEW d \in Drains, DequeueThrows(d)
        PROVE  TypeOK'
    BY <1>2, <1>3, <1>9 DEF DequeueThrows, Holding
  <1>10. CASE UNCHANGED vars
    BY <1>10 DEF vars
  <1>11. ASSUME NEW d \in Drains, WorkDone(d) \/ WorkThrows(d)
         PROVE  TypeOK'
    <2>1. worker[d] \in Workers
      BY <1>11 DEF WorkInHand, WorkDone, WorkThrows
    <2> QED
      BY <1>2, <1>3, <1>11, <2>1 DEF WorkDone, WorkThrows, Ends, Holding
  <1> QED
    BY <1>1, <1>3, <1>4, <1>5, <1>6, <1>7, <1>8, <1>9, <1>10, <1>11
    DEF Next, EnqueueStep, DrainStep
-----------------------------------------------------------------------------
(* Who moves, and what a step does to the permit *)

\* One caller moves, to a place of the list; the others stay.
LEMMA MoveOne ==
  ASSUME TypeOK, NEW a \in Callers, NEW from, NEW to, Move(a, from, to)
  PROVE  /\ pc[a] = from /\ pc'[a] = to
         /\ \A b \in Callers : b # a => pc'[b] = pc[b]
  BY DEF TypeOK, Move

\* The moving caller gets the permit, gives it back, or neither.
LEMMA PermitMoves ==
  ASSUME TypeOK, PermitHeldOnce, NEW a \in Callers,
         \A b \in Callers : b # a => pc'[b] = pc[b],
         \/ /\ pc[a] \notin Holding /\ pc'[a] \in Holding
            /\ semaphore > 0 /\ semaphore' = semaphore - 1
         \/ /\ pc[a] \in Holding /\ pc'[a] \notin Holding
            /\ semaphore' = semaphore + 1
         \/ /\ pc[a] \in Holding <=> pc'[a] \in Holding
            /\ semaphore' = semaphore
  PROVE  PermitHeldOnce'
  <1>0. semaphore \in {0, 1}
    BY DEF TypeOK
  <1>1. \A b \in Callers : b # a => (b \in Holders' <=> b \in Holders)
    BY DEF Holders
  <1>2. CASE /\ pc[a] \notin Holding /\ pc'[a] \in Holding
             /\ semaphore > 0 /\ semaphore' = semaphore - 1
    <2>1. semaphore = 1 /\ semaphore' = 0
      BY <1>0, <1>2
    <2>2. Holders = {} /\ Holders' = {a}
      BY <1>1, <1>2, <2>1 DEF PermitHeldOnce, Holders
    <2> QED
      BY <2>1, <2>2 DEF PermitHeldOnce
  <1>3. CASE /\ pc[a] \in Holding /\ pc'[a] \notin Holding
             /\ semaphore' = semaphore + 1
    <2>1. Holders = {a}
      BY <1>3 DEF PermitHeldOnce, Holders
    <2>2. semaphore = 0 /\ semaphore' = 1
      BY <1>0, <1>3, <2>1 DEF PermitHeldOnce
    <2>3. Holders' = {}
      BY <1>1, <1>3, <2>1 DEF Holders
    <2> QED
      BY <2>2, <2>3 DEF PermitHeldOnce
  <1>4. CASE /\ pc[a] \in Holding <=> pc'[a] \in Holding
             /\ semaphore' = semaphore
    <2>1. Holders' = Holders
      BY <1>1, <1>4 DEF Holders
    <2> QED
      BY <1>4, <2>1 DEF PermitHeldOnce
  <1> QED
    BY <1>2, <1>3, <1>4

LEMMA StepPermit == TypeOK /\ PermitHeldOnce /\ [Next]_vars => PermitHeldOnce'
  <1> SUFFICES ASSUME TypeOK, PermitHeldOnce, [Next]_vars
               PROVE  PermitHeldOnce'
    OBVIOUS
  <1>0. Workers \subseteq Callers /\ Drains \subseteq Callers
    BY DEF Callers
  <1>1. ASSUME NEW a \in Callers, Acquire(a)
        PROVE  PermitHeldOnce'
    <2>1. /\ pc[a] = "waiting" /\ pc'[a] = "holding"
          /\ \A b \in Callers : b # a => pc'[b] = pc[b]
      BY <1>1, MoveOne DEF Acquire
    <2>2. semaphore > 0 /\ semaphore' = semaphore - 1
      BY <1>1 DEF Acquire
    <2>3. pc[a] \notin Holding /\ pc'[a] \in Holding
      BY <2>1 DEF Holding
    <2> QED
      BY <2>1, <2>2, <2>3, PermitMoves
  <1>2. ASSUME NEW w \in Workers, Enqueue(w) \/ EnqueueEnds(w)
        PROVE  PermitHeldOnce'
    <2>1. /\ \A b \in Callers : b # w => pc'[b] = pc[b]
          /\ \/ pc[w] = "idle" /\ pc'[w] = "waiting" /\ semaphore' = semaphore
             \/ pc[w] = "holding" /\ pc'[w] = "returned" /\ semaphore' = semaphore + 1
      BY <1>0, <1>2, MoveOne DEF Enqueue, EnqueueEnds
    <2> QED
      BY <1>0, <2>1, PermitMoves DEF Holding
  <1>3. ASSUME NEW d \in Drains, Drain(d) \/ Guard(d) \/ Dequeue(d)
        PROVE  PermitHeldOnce'
    <2>1. /\ \A b \in Callers : b # d => pc'[b] = pc[b]
          /\ semaphore' = semaphore
          /\ \/ pc[d] = "idle" /\ pc'[d] = "loop"
             \/ pc[d] = "loop" /\ pc'[d] \in {"returned", "waiting"}
             \/ pc[d] = "holding" /\ pc'[d] = "working"
      BY <1>0, <1>3, MoveOne DEF Drain, Guard, Dequeue
    <2> QED
      BY <1>0, <2>1, PermitMoves DEF Holding
  <1>4. ASSUME NEW d \in Drains, DequeueThrows(d) \/ WorkDone(d) \/ WorkThrows(d)
        PROVE  PermitHeldOnce'
    <2>1. /\ \A b \in Callers : b # d => pc'[b] = pc[b]
          /\ semaphore' = semaphore + 1
          /\ pc[d] \in {"holding", "working"} /\ pc'[d] \in {"loop", "faulted"}
      BY <1>0, <1>4, MoveOne DEF DequeueThrows, WorkDone, WorkThrows, Ends
    <2> QED
      BY <1>0, <2>1, PermitMoves DEF Holding
  <1>5. ASSUME UNCHANGED <<pc, semaphore>>
        PROVE  PermitHeldOnce'
    BY <1>5 DEF PermitHeldOnce, Holders
  <1> QED
    BY <1>0, <1>1, <1>2, <1>3, <1>4, <1>5
    DEF Next, EnqueueStep, DrainStep, Expire, vars

-----------------------------------------------------------------------------
(* The order of the workers *)

LEMMA StepFifo == TypeOK /\ FirstInFirstOut /\ [Next]_vars => FirstInFirstOut'
  <1> SUFFICES ASSUME TypeOK, FirstInFirstOut, [Next]_vars
               PROVE  FirstInFirstOut'
    OBVIOUS
  <1>0. queue \in Seq(Workers) /\ accepted \in Seq(Workers) /\ begun \in Nat
    BY DEF TypeOK
  <1>1. ASSUME NEW w \in Workers, queue' = Append(queue, w),
               accepted' = Append(accepted, w), begun' = begun
        PROVE  FirstInFirstOut'
    <2>1. Len(queue') = Len(queue) + 1 /\ Len(accepted') = Len(accepted) + 1
      BY <1>0, <1>1
    <2>2. ASSUME NEW i \in 1..Len(queue')
          PROVE  queue'[i] = accepted'[begun' + i]
      <3>1. CASE i \in 1..Len(queue)
        <4>1. begun + i \in 1..Len(accepted)
          BY <1>0, <3>1 DEF FirstInFirstOut
        <4>2. queue'[i] = queue[i] /\ accepted'[begun + i] = accepted[begun + i]
          BY <1>0, <1>1, <3>1, <4>1
        <4> QED
          BY <1>1, <3>1, <4>2 DEF FirstInFirstOut
      <3>2. CASE i = Len(queue) + 1
        <4>1. begun + i = Len(accepted) + 1
          BY <1>0, <3>2 DEF FirstInFirstOut
        <4>2. queue'[i] = w /\ accepted'[Len(accepted) + 1] = w
          BY <1>0, <1>1, <3>2
        <4> QED
          BY <1>1, <4>1, <4>2
      <3> QED
        BY <1>0, <2>1, <3>1, <3>2
    <2>3. Len(accepted') = begun' + Len(queue')
      <3>1. Len(queue) \in Nat /\ Len(accepted) = begun + Len(queue)
        BY <1>0 DEF FirstInFirstOut
      <3> QED
        BY <1>0, <1>1, <2>1, <3>1
    <2> QED
      BY <2>2, <2>3 DEF FirstInFirstOut
  <1>2. ASSUME queue # <<>>, queue' = Tail(queue), accepted' = accepted,
               begun' = begun + 1
        PROVE  FirstInFirstOut'
    <2>1. Len(queue) \in Nat /\ Len(queue) > 0 /\ Len(queue') = Len(queue) - 1
      BY <1>0, <1>2
    <2>2. ASSUME NEW i \in 1..Len(queue')
          PROVE  queue'[i] = accepted'[begun' + i]
      <3>1. i + 1 \in 1..Len(queue) /\ queue'[i] = queue[i + 1]
        BY <1>0, <1>2, <2>1
      <3>2. begun' + i = begun + (i + 1)
        BY <1>0, <1>2
      <3> QED
        BY <1>2, <3>1, <3>2 DEF FirstInFirstOut
    <2>3. Len(accepted) = begun + Len(queue)
      BY DEF FirstInFirstOut
    <2>4. Len(accepted') = begun' + Len(queue')
      BY <1>0, <1>2, <2>1, <2>3
    <2> QED
      BY <2>2, <2>4 DEF FirstInFirstOut
  <1>3. ASSUME UNCHANGED <<queue, accepted, begun>>
        PROVE  FirstInFirstOut'
    BY <1>3 DEF FirstInFirstOut
  <1>4. ASSUME NEW a, Acquire(a)
        PROVE  FirstInFirstOut'
    BY <1>3, <1>4 DEF Acquire
  <1>5. ASSUME NEW w \in Workers, Enqueue(w) \/ EnqueueEnds(w)
        PROVE  FirstInFirstOut'
    BY <1>1, <1>3, <1>5 DEF Enqueue, EnqueueEnds
  <1>6. ASSUME NEW d \in Drains, Dequeue(d)
        PROVE  FirstInFirstOut'
    BY <1>2, <1>6 DEF Dequeue
  <1>7. ASSUME NEW d \in Drains,
               \/ Drain(d) \/ Guard(d) \/ DequeueThrows(d)
               \/ WorkDone(d) \/ WorkThrows(d) \/ Expire(d)
        PROVE  FirstInFirstOut'
    BY <1>3, <1>7 DEF Drain, Guard, DequeueThrows, WorkDone, WorkThrows, Ends, Expire
  <1>8. CASE UNCHANGED vars
    BY <1>3, <1>8 DEF vars
  <1> QED
    BY <1>4, <1>5, <1>6, <1>7, <1>8 DEF Next, EnqueueStep, DrainStep
-----------------------------------------------------------------------------
(* Workers and drains *)

LEMMA StepOnce == TypeOK /\ WorkersOnce /\ [Next]_vars => WorkersOnce'
  <1> SUFFICES ASSUME TypeOK, WorkersOnce, [Next]_vars
               PROVE  WorkersOnce'
    OBVIOUS
  <1>0. Workers \subseteq Callers /\ Drains \subseteq Callers
    BY DEF Callers
  <1>1. ASSUME NEW a \in Callers, NEW from, NEW to, Move(a, from, to), accepted' = accepted,
               from # "returned", a \in Workers => to \in {"idle", "waiting", "holding"}
        PROVE  WorkersOnce'
    <2>1. /\ pc[a] = from /\ pc'[a] = to
          /\ \A b \in Callers : b # a => pc'[b] = pc[b]
      BY <1>1, MoveOne
    <2> QED
      BY <1>0, <1>1, <2>1 DEF WorkersOnce
  <1>2. ASSUME NEW w \in Workers, EnqueueEnds(w)
        PROVE  WorkersOnce'
    <2>1. /\ pc[w] = "holding" /\ pc'[w] = "returned"
          /\ \A b \in Callers : b # w => pc'[b] = pc[b]
      BY <1>0, <1>2, MoveOne DEF EnqueueEnds
    <2>2. /\ accepted \in Seq(Workers) /\ accepted' = Append(accepted, w)
          /\ Len(accepted') = Len(accepted) + 1 /\ accepted'[Len(accepted) + 1] = w
          /\ \A i \in 1..Len(accepted) : accepted'[i] = accepted[i]
      BY <1>2 DEF TypeOK, EnqueueEnds
    <2>3. ASSUME NEW v \in Workers
          PROVE  (\E i \in 1..Len(accepted') : accepted'[i] = v)
                    <=> v = w \/ \E i \in 1..Len(accepted) : accepted[i] = v
      BY <2>2
    <2> QED
      BY <1>0, <2>1, <2>3 DEF WorkersOnce
  <1>3. ASSUME UNCHANGED <<pc, accepted>>
        PROVE  WorkersOnce'
    BY <1>3 DEF WorkersOnce
  <1>4. ASSUME NEW a \in Callers, Acquire(a)
        PROVE  WorkersOnce'
    BY <1>1, <1>4 DEF Acquire
  <1>5. ASSUME NEW w \in Workers, Enqueue(w)
        PROVE  WorkersOnce'
    BY <1>0, <1>1, <1>5 DEF Enqueue
  <1>6. ASSUME NEW d \in Drains,
               \/ Drain(d) \/ Guard(d) \/ Dequeue(d) \/ DequeueThrows(d)
               \/ WorkDone(d) \/ WorkThrows(d)
        PROVE  WorkersOnce'
    <2>1. d \in Callers /\ d \notin Workers
      BY <1>0
    <2> QED
      BY <1>1, <1>6, <2>1 DEF Drain, Guard, Dequeue, DequeueThrows, WorkDone, WorkThrows, Ends
  <1> QED
    BY <1>0, <1>2, <1>3, <1>4, <1>5, <1>6 DEF Next, EnqueueStep, DrainStep, Expire, vars

LEMMA StepWork == TypeOK /\ WorkersOnce /\ WorkInHand /\ [Next]_vars => WorkInHand'
  <1> SUFFICES ASSUME TypeOK, WorkersOnce, WorkInHand, [Next]_vars
               PROVE  WorkInHand'
    OBVIOUS
  <1>0. Workers \subseteq Callers /\ Drains \subseteq Callers
    BY DEF Callers
  <1>1. ASSUME NEW a \in Callers, NEW from, NEW to, Move(a, from, to), worker' = worker,
               from # "working", to # "working"
        PROVE  WorkInHand'
    BY <1>0, <1>1, MoveOne DEF WorkInHand
  <1>2. ASSUME NEW d \in Drains, Dequeue(d)
        PROVE  WorkInHand'
    <2>1. /\ pc'[d] = "working"
          /\ \A b \in Callers : b # d => pc'[b] = pc[b]
      BY <1>0, <1>2, MoveOne DEF Dequeue
    <2>2. /\ worker'[d] = Head(queue) /\ Head(queue) \in Workers
          /\ \A e \in Drains : e # d => worker'[e] = worker[e]
      BY <1>2 DEF TypeOK, Dequeue
    <2> QED
      BY <1>0, <2>1, <2>2 DEF WorkInHand
  <1>3. ASSUME NEW d \in Drains, WorkDone(d) \/ WorkThrows(d)
        PROVE  WorkInHand'
    <2>1. /\ pc'[d] # "working"
          /\ \A b \in Callers : b # d => pc'[b] = pc[b]
      BY <1>0, <1>3, MoveOne DEF WorkDone, WorkThrows
    <2>2. /\ worker'[d] = NoWorker
          /\ \A e \in Drains : e # d => worker'[e] = worker[e]
      BY <1>3 DEF TypeOK, WorkDone, WorkThrows, Ends
    <2> QED
      BY <1>0, <2>1, <2>2 DEF WorkInHand
  <1>4. ASSUME UNCHANGED <<pc, worker>>
        PROVE  WorkInHand'
    BY <1>4 DEF WorkInHand
  <1>5. ASSUME NEW a \in Callers, Acquire(a)
        PROVE  WorkInHand'
    BY <1>1, <1>5 DEF Acquire
  <1>6. ASSUME NEW w \in Workers, Enqueue(w) \/ EnqueueEnds(w)
        PROVE  WorkInHand'
    BY <1>0, <1>1, <1>6 DEF Enqueue, EnqueueEnds
  <1>7. ASSUME NEW d \in Drains, Drain(d) \/ Guard(d) \/ DequeueThrows(d)
        PROVE  WorkInHand'
    BY <1>0, <1>1, <1>7 DEF Drain, Guard, DequeueThrows
  <1> QED
    BY <1>0, <1>2, <1>3, <1>4, <1>5, <1>6, <1>7
    DEF Next, EnqueueStep, DrainStep, Expire, vars

LEMMA StepAlone == TypeOK /\ DrainsAlone /\ [Next]_vars => DrainsAlone'
  <1> SUFFICES ASSUME TypeOK, DrainsAlone, [Next]_vars, ~shared'
               PROVE  DrainsAlone'
    BY DEF DrainsAlone
  <1>0. Workers \subseteq Callers /\ Drains \subseteq Callers
    BY DEF Callers
  <1>1. ASSUME NEW a \in Workers, NEW from, NEW to, Move(a, from, to), shared' = shared,
               queue # <<>> => queue' # <<>>
        PROVE  DrainsAlone'
    <2>1. \A d \in Drains : pc'[d] = pc[d]
      BY <1>0, <1>1, MoveOne
    <2> QED
      BY <1>1, <2>1 DEF DrainsAlone, UnderWay
  <1>2. ASSUME NEW d \in Drains, Drain(d)
        PROVE  DrainsAlone'
    <2>1. /\ pc'[d] = "loop" /\ queue' = queue
          /\ \A e \in Drains : e # d => pc'[e] = pc[e]
      BY <1>0, <1>2, MoveOne DEF Drain
    <2>2. ~shared /\ \A e \in Drains : ~UnderWay(e)
      BY <1>2 DEF Drain
    <2> QED
      BY <2>1, <2>2 DEF DrainsAlone, UnderWay
  <1>3. ASSUME NEW d \in Drains, NEW from, NEW to, Move(d, from, to), shared' = shared,
               from \in {"loop", "waiting", "holding", "working"},
               to \in {"waiting", "holding"} => queue' # <<>>
        PROVE  DrainsAlone'
    <2>1. /\ pc[d] = from /\ pc'[d] = to
          /\ \A e \in Drains : e # d => pc'[e] = pc[e]
      BY <1>0, <1>3, MoveOne
    <2>2. \A e \in Drains : UnderWay(e) => e = d
      BY <1>3, <2>1 DEF DrainsAlone, UnderWay
    <2> QED
      BY <1>3, <2>1, <2>2 DEF DrainsAlone, UnderWay
  <1>4. ASSUME NEW d \in Drains, Guard(d) \/ Acquire(d)
        PROVE  DrainsAlone'
    <2>1. CASE Guard(d)
      <3>1. CASE expired[d] \/ queue = <<>>
        BY <1>3, <2>1, <3>1 DEF Guard
      <3>2. CASE ~(expired[d] \/ queue = <<>>)
        BY <1>3, <2>1, <3>2 DEF Guard
      <3> QED
        BY <3>1, <3>2
    <2>2. CASE Acquire(d)
      <3>1. queue' # <<>>
        BY <2>2 DEF Acquire, Move, DrainsAlone
      <3> QED
        BY <1>3, <2>2, <3>1 DEF Acquire
    <2> QED
      BY <1>4, <2>1, <2>2
  <1>5. ASSUME NEW d \in Drains, Dequeue(d) \/ DequeueThrows(d) \/ WorkDone(d) \/ WorkThrows(d)
        PROVE  DrainsAlone'
    BY <1>3, <1>5 DEF Dequeue, DequeueThrows, WorkDone, WorkThrows, Ends
  <1>6. ASSUME NEW w \in Workers, Enqueue(w) \/ Acquire(w) \/ EnqueueEnds(w)
        PROVE  DrainsAlone'
    <2>1. queue # <<>> => queue' # <<>>
      BY <1>6 DEF TypeOK, Enqueue, Acquire, EnqueueEnds
    <2> QED
      BY <1>1, <1>6, <2>1 DEF Enqueue, Acquire, EnqueueEnds
  <1>7. ASSUME UNCHANGED <<pc, queue, shared>>
        PROVE  DrainsAlone'
    BY <1>7 DEF DrainsAlone, UnderWay
  <1> QED
    BY <1>2, <1>4, <1>5, <1>6, <1>7 DEF Next, EnqueueStep, DrainStep, Expire, vars

LEMMA StepUnderflow ==
  TypeOK /\ DrainsAlone /\ AloneNoUnderflow /\ [Next]_vars => AloneNoUnderflow'
  <1> SUFFICES ASSUME TypeOK, DrainsAlone, AloneNoUnderflow, [Next]_vars, ~shared'
               PROVE  AloneNoUnderflow'
    BY DEF AloneNoUnderflow
  <1>1. ASSUME shared => shared', underflow' = underflow
        PROVE  AloneNoUnderflow'
    BY <1>1 DEF AloneNoUnderflow
  <1>2. ASSUME NEW d \in Drains, DequeueThrows(d)
        PROVE  FALSE
    BY <1>2 DEF DequeueThrows, Move, DrainsAlone
  <1>3. ASSUME NEW a, Acquire(a)
        PROVE  AloneNoUnderflow'
    BY <1>1, <1>3 DEF Acquire
  <1>4. ASSUME NEW w \in Workers, Enqueue(w) \/ EnqueueEnds(w)
        PROVE  AloneNoUnderflow'
    BY <1>1, <1>4 DEF Enqueue, EnqueueEnds
  <1>5. ASSUME NEW d \in Drains,
               Drain(d) \/ Guard(d) \/ Dequeue(d) \/ WorkDone(d) \/ WorkThrows(d) \/ Expire(d)
        PROVE  AloneNoUnderflow'
    BY <1>1, <1>5 DEF Drain, Guard, Dequeue, WorkDone, WorkThrows, Ends, Expire
  <1>6. CASE UNCHANGED vars
    BY <1>1, <1>6 DEF vars
  <1> QED
    BY <1>2, <1>3, <1>4, <1>5, <1>6 DEF Next, EnqueueStep, DrainStep
-----------------------------------------------------------------------------
(* The theorems *)

LEMMA InitRest ==
  Init => PermitHeldOnce /\ FirstInFirstOut /\ WorkersOnce /\ DrainsAlone
            /\ WorkInHand /\ AloneNoUnderflow
  <1> SUFFICES ASSUME Init
               PROVE  /\ PermitHeldOnce /\ FirstInFirstOut /\ WorkersOnce
                      /\ DrainsAlone /\ WorkInHand /\ AloneNoUnderflow
    OBVIOUS
  <1>1. \A a \in Callers : pc[a] = "idle"
    BY DEF Init
  <1>2. Workers \subseteq Callers /\ Drains \subseteq Callers
    BY DEF Callers
  <1>3. PermitHeldOnce
    BY <1>1 DEF Init, PermitHeldOnce, Holders, Holding
  <1>4. FirstInFirstOut /\ AloneNoUnderflow
    BY DEF Init, FirstInFirstOut, AloneNoUnderflow
  <1>5. WorkersOnce
    BY <1>1, <1>2 DEF Init, WorkersOnce
  <1>6. DrainsAlone /\ WorkInHand
    BY <1>1, <1>2 DEF Init, DrainsAlone, UnderWay, WorkInHand
  <1> QED
    BY <1>3, <1>4, <1>5, <1>6

\* The inductive invariant: permit, order, callers and the worker in hand agree
\* (WorkersQueue.cs:56-100).
THEOREM Invariant == Spec => []IInv
  <1>1. Init => IInv
    BY InitType, InitRest DEF IInv
  <1>2. IInv /\ [Next]_vars => IInv'
    BY StepType, StepPermit, StepFifo, StepOnce, StepWork, StepAlone, StepUnderflow DEF IInv
  <1> QED
    BY <1>1, <1>2, PTL DEF Spec

\* The state always has its declared shape; the semaphore never exceeds one.
THEOREM TypeCorrect == Spec => []TypeOK
  <1>1. IInv => TypeOK
    BY DEF IInv
  <1> QED
    BY <1>1, Invariant, PTL

\* One caller at a time has the permit, and it is back when nobody has it, through
\* every exception (:71-73, :91-95).
THEOREM PermitHeldOnceCorrect == Spec => []PermitHeldOnce
  <1>1. IInv => PermitHeldOnce
    BY DEF IInv
  <1> QED
    BY <1>1, Invariant, PTL

\* No worker is lost, dequeued twice or out of its turn (:66, :88).
THEOREM FirstInFirstOutCorrect == Spec => []FirstInFirstOut
  <1>1. IInv => FirstInFirstOut
    BY DEF IInv
  <1> QED
    BY <1>1, Invariant, PTL

\* Drains that do not overlap never dequeue from an empty queue (:82-88).
THEOREM AloneNoUnderflowCorrect == Spec => []AloneNoUnderflow
  <1>1. IInv => AloneNoUnderflow
    BY DEF IInv
  <1> QED
    BY <1>1, Invariant, PTL

-----------------------------------------------------------------------------
(* What a drain that came back has done *)

\* Nothing enqueued, begun or done is ever taken back.
LEMMA Grows ==
  ASSUME IInv, [Next]_vars
  PROVE  /\ Len(accepted) \in Nat /\ Len(accepted') \in Nat
         /\ Len(accepted') >= Len(accepted)
         /\ \A i \in 1..Len(accepted) : accepted'[i] = accepted[i]
         /\ begun \in Nat /\ begun <= Len(accepted)
         /\ begun' \in Nat /\ begun' >= begun
         /\ ended \subseteq ended'
         /\ \A d \in Drains : before[d] \in Nat
  <1> USE DEF IInv, TypeOK
  <1>1. Len(accepted) \in Nat /\ begun \in Nat /\ begun <= Len(accepted)
    BY DEF FirstInFirstOut
  <1>2. ASSUME NEW w \in Workers, accepted' = Append(accepted, w)
        PROVE  /\ Len(accepted') \in Nat /\ Len(accepted') >= Len(accepted)
               /\ \A i \in 1..Len(accepted) : accepted'[i] = accepted[i]
    BY <1>1, <1>2
  <1>3. ASSUME NEW a, Acquire(a)
        PROVE  UNCHANGED <<accepted, begun, ended>>
    BY <1>3 DEF Acquire
  <1>4. ASSUME NEW w \in Workers, Enqueue(w) \/ EnqueueEnds(w)
        PROVE  /\ UNCHANGED <<begun, ended>>
               /\ accepted' = accepted \/ accepted' = Append(accepted, w)
    BY <1>4 DEF Enqueue, EnqueueEnds
  <1>5. ASSUME NEW d \in Drains, DrainStep(d)
        PROVE  accepted' = accepted /\ begun' \in {begun, begun + 1} /\ ended \subseteq ended'
    BY <1>3, <1>5 DEF DrainStep, Drain, Guard, Dequeue, DequeueThrows, WorkDone, WorkThrows,
                      Ends, Expire
  <1>6. CASE UNCHANGED vars
    BY <1>1, <1>6 DEF vars
  <1>7. /\ accepted' = accepted \/ \E w \in Workers : accepted' = Append(accepted, w)
        /\ begun' \in {begun, begun + 1} /\ ended \subseteq ended'
    BY <1>3, <1>4, <1>5, <1>6 DEF Next, EnqueueStep, vars
  <1> QED
    BY <1>1, <1>2, <1>7


\* A step that calls no drain and looks at no guard makes none come back.
Quiet ==
    /\ UNCHANGED <<before, shared>>
    /\ \A d \in Drains : pc'[d] = "returned" => pc[d] = "returned" /\ expired'[d] = expired[d]

LEMMA WhoReturns ==
  ASSUME IInv, [Next]_vars
  PROVE  Quiet \/ \E d \in Drains : Drain(d) \/ Guard(d)
  <1>0. Workers \subseteq Callers /\ Drains \subseteq Callers /\ TypeOK
    BY DEF Callers, IInv
  <1>1. ASSUME NEW a \in Callers, NEW from, NEW to, Move(a, from, to),
               a \in Drains => to # "returned", UNCHANGED <<before, shared, expired>>
        PROVE  Quiet
    BY <1>0, <1>1, MoveOne DEF Quiet
  <1>2. ASSUME NEW a \in Callers, Acquire(a)
        PROVE  Quiet
    BY <1>1, <1>2 DEF Acquire
  <1>3. ASSUME NEW w \in Workers, Enqueue(w) \/ EnqueueEnds(w)
        PROVE  Quiet
    BY <1>0, <1>1, <1>3 DEF Enqueue, EnqueueEnds
  <1>4. ASSUME NEW d \in Drains, Dequeue(d) \/ DequeueThrows(d) \/ WorkDone(d) \/ WorkThrows(d)
        PROVE  Quiet
    BY <1>0, <1>1, <1>4 DEF Dequeue, DequeueThrows, WorkDone, WorkThrows, Ends
  <1>5. ASSUME NEW d \in Drains, Expire(d)
        PROVE  Quiet
    BY <1>0, <1>5 DEF Expire, UnderWay, TypeOK, Quiet
  <1>6. CASE UNCHANGED vars
    BY <1>6 DEF vars, Quiet
  <1> QED
    BY <1>0, <1>2, <1>3, <1>4, <1>5, <1>6 DEF Next, EnqueueStep, DrainStep

LEMMA StepCounted == IInv /\ CallsCounted /\ [Next]_vars => CallsCounted'
  <1> SUFFICES ASSUME IInv, CallsCounted, [Next]_vars, NEW d \in Drains
               PROVE  before'[d] <= Len(accepted')
    BY DEF CallsCounted
  <1>1. before[d] \in Nat /\ before[d] <= Len(accepted)
    BY Grows DEF CallsCounted
  <1>2. before'[d] \in {before[d], Len(accepted)}
    BY WhoReturns DEF Quiet, Drain, Guard, IInv, TypeOK
  <1> QED
    BY <1>1, <1>2, Grows

LEMMA StepBegun == IInv /\ BegunAccounted /\ [Next]_vars => BegunAccounted'
  <1> SUFFICES ASSUME IInv, BegunAccounted, [Next]_vars
               PROVE  BegunAccounted'
    OBVIOUS
  <1>0. TypeOK /\ Workers \subseteq Callers /\ Drains \subseteq Callers
    BY DEF IInv, Callers
  <1>1. CASE begun' = begun /\ worker' = worker
    BY <1>1, Grows DEF BegunAccounted
  <1>2. ASSUME NEW d \in Drains, Dequeue(d)
        PROVE  BegunAccounted'
    <2>1. /\ begun' = begun + 1 /\ accepted' = accepted /\ ended' = ended
          /\ queue # <<>> /\ worker'[d] = Head(queue)
          /\ \A e \in Drains : e # d => worker'[e] = worker[e]
      BY <1>0, <1>2 DEF Dequeue, TypeOK
    <2>2. Head(queue) = accepted[begun + 1]
      <3>1. 1 \in 1..Len(queue) /\ Head(queue) = queue[1]
        BY <1>0, <2>1 DEF TypeOK
      <3> QED
        BY <1>0, <3>1 DEF IInv, FirstInFirstOut
    <2>3. worker[d] = NoWorker
      BY <1>0, <1>2 DEF IInv, WorkInHand, Dequeue, Move
    <2>4. ASSUME NEW i \in 1..begun
          PROVE  accepted[i] \in ended \/ \E e \in Drains : worker'[e] = accepted[i]
      <3>1. i \in 1..Len(accepted)
        BY <2>4, Grows
      <3>2. accepted[i] \in Workers
        BY <1>0, <3>1 DEF TypeOK
      <3>3. ASSUME NEW e \in Drains, worker[e] = accepted[i]
            PROVE  worker'[e] = accepted[i]
        BY <2>1, <2>3, <3>2, <3>3
      <3> QED
        BY <3>3 DEF BegunAccounted
    <2>5. 1..begun' = 1..begun \cup {begun + 1}
      BY <2>1, Grows
    <2> QED
      BY <2>1, <2>2, <2>4, <2>5 DEF BegunAccounted
  <1>3. ASSUME NEW d \in Drains, WorkDone(d) \/ WorkThrows(d)
        PROVE  BegunAccounted'
    <2>1. /\ begun' = begun /\ accepted' = accepted /\ ended' = ended \cup {worker[d]}
          /\ \A e \in Drains : e # d => worker'[e] = worker[e]
      BY <1>0, <1>3 DEF WorkDone, WorkThrows, Ends, TypeOK
    <2> QED
      BY <2>1 DEF BegunAccounted
  <1>4. ASSUME NEW a, Acquire(a)
        PROVE  BegunAccounted'
    BY <1>1, <1>4 DEF Acquire
  <1>5. ASSUME NEW w \in Workers, Enqueue(w) \/ EnqueueEnds(w)
        PROVE  BegunAccounted'
    BY <1>1, <1>5 DEF Enqueue, EnqueueEnds
  <1>6. ASSUME NEW d \in Drains, Drain(d) \/ Guard(d) \/ DequeueThrows(d) \/ Expire(d)
        PROVE  BegunAccounted'
    BY <1>1, <1>6 DEF Drain, Guard, DequeueThrows, Expire
  <1>7. CASE UNCHANGED vars
    BY <1>1, <1>7 DEF vars
  <1> QED
    BY <1>2, <1>3, <1>4, <1>5, <1>6, <1>7 DEF Next, EnqueueStep, DrainStep

\* Guard(d) on an empty queue: all that was enqueued has begun.
LEMMA GuardFacts ==
  ASSUME IInv, CallsCounted, NEW d \in Drains, Guard(d)
  PROVE  /\ UNCHANGED <<before, shared, expired, accepted, begun, ended>>
         /\ \A e \in Drains : e # d => pc'[e] = pc[e]
         /\ pc[d] = "loop"
         /\ pc'[d] = "returned" /\ ~expired[d] => begun = Len(accepted) /\ before[d] <= begun
  <1>0. TypeOK /\ d \in Callers /\ Drains \subseteq Callers
    BY DEF IInv, Callers
  <1>1. /\ pc[d] = "loop" /\ pc'[d] = IF expired[d] \/ queue = <<>> THEN "returned" ELSE "waiting"
        /\ \A e \in Drains : e # d => pc'[e] = pc[e]
    BY <1>0, MoveOne DEF Guard
  <1>2. queue = <<>> => begun = Len(accepted)
    BY <1>0 DEF IInv, FirstInFirstOut, TypeOK
  <1> QED
    BY <1>1, <1>2 DEF Guard, CallsCounted

LEMMA StepReturned ==
  /\ IInv /\ CallsCounted /\ BegunAccounted /\ ReturnedMeansBegun /\ ReturnedMeansDone
  /\ [Next]_vars
  => ReturnedMeansBegun' /\ ReturnedMeansDone'
  <1> SUFFICES ASSUME IInv, CallsCounted, BegunAccounted, ReturnedMeansBegun, ReturnedMeansDone,
                      [Next]_vars, NEW d \in Drains, pc'[d] = "returned", ~expired'[d]
               PROVE  /\ begun' >= before'[d]
                      /\ ~shared' => \A i \in 1..before'[d] : accepted'[i] \in ended'
    BY DEF ReturnedMeansBegun, ReturnedMeansDone
  <1>0. TypeOK /\ Drains \subseteq Callers /\ before[d] \in Nat
    BY Grows DEF IInv, Callers
  <1>1. ASSUME pc[d] = "returned", ~expired[d], before'[d] = before[d], shared => shared'
        PROVE  /\ begun' >= before'[d]
               /\ ~shared' => \A i \in 1..before'[d] : accepted'[i] \in ended'
    <2>1. before[d] <= begun /\ before[d] <= Len(accepted)
      BY <1>1 DEF ReturnedMeansBegun, CallsCounted
    <2>2. ASSUME ~shared', NEW i \in 1..before[d]
          PROVE  accepted'[i] \in ended'
      <3>1. accepted[i] \in ended
        BY <1>1, <2>2 DEF ReturnedMeansDone
      <3>2. i \in 1..Len(accepted)
        BY <1>0, <2>1, Grows
      <3> QED
        BY <3>1, <3>2, Grows
    <2> QED
      BY <1>0, <1>1, <2>1, <2>2, Grows
  <1>2. CASE Quiet
    BY <1>1, <1>2 DEF Quiet
  <1>3. ASSUME NEW e \in Drains, Drain(e)
        PROVE  /\ begun' >= before'[d]
               /\ ~shared' => \A i \in 1..before'[d] : accepted'[i] \in ended'
    <2>1. e # d /\ pc'[d] = pc[d]
      BY <1>0, <1>3, MoveOne DEF Drain
    <2> QED
      BY <1>0, <1>1, <1>3, <2>1 DEF Drain, TypeOK
  <1>4. ASSUME NEW e \in Drains, Guard(e)
        PROVE  /\ begun' >= before'[d]
               /\ ~shared' => \A i \in 1..before'[d] : accepted'[i] \in ended'
    <2>1. CASE e # d
      BY <1>1, <1>4, <2>1, GuardFacts
    <2>2. CASE e = d
      <3>1. /\ UNCHANGED <<before, shared, expired, accepted, begun, ended>>
            /\ pc[d] = "loop" /\ begun = Len(accepted) /\ before[d] <= begun
        BY <1>4, <2>2, GuardFacts
      <3>2. ASSUME ~shared, NEW i \in 1..before[d]
            PROVE  accepted[i] \in ended
        <4>1. i \in 1..begun /\ accepted[i] \in Workers
          BY <1>0, <3>1, Grows DEF TypeOK
        <4>2. ASSUME NEW f \in Drains, worker[f] = accepted[i]
              PROVE  FALSE
          <5>1. pc[f] = "working"
            BY <4>1, <4>2 DEF IInv, WorkInHand
          <5>2. f = d
            BY <3>1, <3>2, <5>1 DEF IInv, DrainsAlone, UnderWay
          <5> QED
            BY <3>1, <5>1, <5>2
        <4> QED
          BY <4>1, <4>2 DEF BegunAccounted
      <3> QED
        BY <3>1, <3>2
    <2> QED
      BY <2>1, <2>2
  <1> QED
    BY <1>2, <1>3, <1>4, WhoReturns

\* What the drains that came back have done, as an invariant.
LEMMA AccountedInvariant == Spec => []Accounted
  <1>1. Init => Accounted
    <2> SUFFICES ASSUME Init PROVE Accounted
      OBVIOUS
    <2>1. \A d \in Drains : pc[d] = "idle" /\ before[d] = 0
      BY DEF Init, Callers
    <2> QED
      BY <2>1 DEF Init, Accounted, CallsCounted, BegunAccounted, ReturnedMeansBegun,
                  ReturnedMeansDone
  <1>2. IInv /\ Accounted /\ [Next]_vars => Accounted'
    BY StepCounted, StepBegun, StepReturned DEF Accounted
  <1> QED
    BY <1>1, <1>2, Invariant, PTL DEF Spec

\* A drain whose token is untouched comes back when everything enqueued before its
\* call was dequeued, whatever the others do meanwhile (:82-88).
THEOREM ReturnedMeansBegunCorrect == Spec => []ReturnedMeansBegun
  <1>1. Accounted => ReturnedMeansBegun
    BY DEF Accounted
  <1> QED
    BY <1>1, AccountedInvariant, PTL

\* If drains do not overlap, the work of all those workers is over too (:82-95).
THEOREM ReturnedMeansDoneCorrect == Spec => []ReturnedMeansDone
  <1>1. Accounted => ReturnedMeansDone
    BY DEF Accounted
  <1> QED
    BY <1>1, AccountedInvariant, PTL

-----------------------------------------------------------------------------
(* The refinement *)

\* What works is what the one drain that works has in its hands.
LEMMA WorkingIs ==
  ASSUME IInv
  PROVE  /\ \A d \in Drains : pc[d] = "working" => Working = worker[d]
         /\ (\A d \in Drains : pc[d] # "working") => Working = NoWorker
  <1>1. \A d, e \in Drains : pc[d] = "working" /\ pc[e] = "working" => d = e
    BY DEF IInv, PermitHeldOnce, Holders, Holding, Callers
  <1> QED
    BY <1>1 DEF Working

\* A step that moves no drain from or to its work, and changes no hands.
LEMMA WorkingStays ==
  ASSUME worker' = worker,
         \A d \in Drains : pc'[d] = "working" <=> pc[d] = "working"
  PROVE  Working' = Working
  BY DEF Working

\* WorkersQueue implements SerialQueue: every step is an Accept, a Begin, an End or
\* a stutter of it.
THEOREM Refinement == Spec => ImplementsSerialQueue
  <1>1. Init => Serial!Init
    <2> SUFFICES ASSUME Init PROVE Serial!Init
      OBVIOUS
    <2>1. \A d \in Drains : pc[d] # "working"
      BY DEF Init, Callers
    <2>2. Working = NoWorker
      BY <2>1 DEF Working
    <2> QED
      BY <2>2 DEF Init, Serial!Init
  <1>2. IInv /\ IInv' /\ [Next]_vars => [Serial!Next]_(Serial!vars)
    <2> SUFFICES ASSUME IInv, IInv', [Next]_vars
                 PROVE  [Serial!Next]_(Serial!vars)
      OBVIOUS
    <2> USE DEF Serial!vars
    <2>0. TypeOK /\ Workers \subseteq Callers /\ Drains \subseteq Callers
      BY DEF IInv, Callers
    <2>1. ASSUME NEW a \in Callers, NEW from, NEW to, Move(a, from, to),
                 a \in Drains => from # "working" /\ to # "working",
                 worker' = worker
          PROVE  Working' = Working
      <3>1. \A d \in Drains : pc'[d] = "working" <=> pc[d] = "working"
        BY <2>0, <2>1, MoveOne
      <3> QED
        BY <2>1, <3>1, WorkingStays
    <2>2. ASSUME NEW w \in Workers, EnqueueEnds(w)
          PROVE  Serial!Accept(w)
      <3>1. \A i \in 1..Len(accepted) : accepted[i] # w
        BY <2>2 DEF EnqueueEnds, Move, IInv, WorkersOnce
      <3>2. Working' = Working
        BY <2>0, <2>1, <2>2 DEF EnqueueEnds
      <3> QED
        BY <2>2, <3>1, <3>2 DEF EnqueueEnds, Serial!Accept
    <2>3. ASSUME NEW d \in Drains, Dequeue(d)
          PROVE  Serial!Begin
      <3>1. /\ pc[d] = "holding" /\ pc'[d] = "working"
            /\ queue # <<>> /\ worker'[d] = Head(queue) /\ begun' = begun + 1
            /\ accepted' = accepted
        BY <2>0, <2>3, MoveOne DEF Dequeue, TypeOK
      <3>2. \A e \in Drains : pc[e] # "working"
        BY <2>0, <3>1 DEF IInv, PermitHeldOnce, Holders, Holding
      <3>3. Working = NoWorker
        BY <3>2, WorkingIs
      <3>4. Working' = worker'[d]
        <4>1. \A e \in Drains : pc'[e] = "working" => e = d
          BY <2>0, <3>1 DEF IInv, PermitHeldOnce, Holders, Holding
        <4> QED
          BY <3>1, <4>1 DEF Working
      <3>5. 1 \in 1..Len(queue) /\ Head(queue) = queue[1] /\ Len(queue) > 0
        BY <2>0, <3>1 DEF TypeOK
      <3>6. Head(queue) = accepted[begun + 1] /\ begun < Len(accepted)
        BY <2>0, <3>5 DEF IInv, FirstInFirstOut, TypeOK
      <3> QED
        BY <3>1, <3>3, <3>4, <3>6 DEF Serial!Begin
    <2>4. ASSUME NEW d \in Drains, WorkDone(d) \/ WorkThrows(d)
          PROVE  Serial!End
      <3>1. /\ pc[d] = "working" /\ pc'[d] # "working"
            /\ \A b \in Callers : b # d => pc'[b] = pc[b]
            /\ UNCHANGED <<accepted, begun>>
        BY <2>0, <2>4, MoveOne DEF WorkDone, WorkThrows, Ends
      <3>2. Working # NoWorker
        BY <3>1, WorkingIs DEF IInv, WorkInHand
      <3>3. \A e \in Drains : pc'[e] # "working"
        BY <2>0, <3>1 DEF IInv, PermitHeldOnce, Holders, Holding
      <3>4. Working' = NoWorker
        BY <3>3 DEF Working
      <3> QED
        BY <3>1, <3>2, <3>4 DEF Serial!End
    <2>5. ASSUME NEW a \in Callers, Acquire(a)
          PROVE  UNCHANGED Serial!vars
      BY <2>1, <2>5 DEF Acquire
    <2>6. ASSUME NEW w \in Workers, Enqueue(w)
          PROVE  UNCHANGED Serial!vars
      BY <2>0, <2>1, <2>6 DEF Enqueue
    <2>7. ASSUME NEW d \in Drains, Drain(d) \/ Guard(d) \/ DequeueThrows(d)
          PROVE  UNCHANGED Serial!vars
      BY <2>0, <2>1, <2>7 DEF Drain, Guard, DequeueThrows
    <2>8. CASE (\E d \in Drains : Expire(d)) \/ UNCHANGED vars
      <3>1. UNCHANGED <<pc, worker, accepted, begun>>
        BY <2>8 DEF Expire, vars
      <3>2. Working' = Working
        BY <3>1, WorkingStays
      <3> QED
        BY <3>1, <3>2
    <2> QED
      BY <2>0, <2>2, <2>3, <2>4, <2>5, <2>6, <2>7, <2>8
      DEF Next, EnqueueStep, DrainStep, Serial!Next
  <1> QED
    BY <1>1, <1>2, Invariant, PTL DEF Spec, ImplementsSerialQueue, Serial!Spec
=============================================================================
