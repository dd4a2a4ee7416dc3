----------------------- MODULE WorkflowSchedulerProofs -----------------------
(***************************************************************************)
(* The counting of WorkflowSchedulerService, for any tasks, threads and    *)
(* level: the counter under the lock is the number of delegates there are, *)
(* hence is positive as long as the list is not empty.                     *)
(***************************************************************************)
EXTENDS WorkflowScheduler, FiniteSetTheorems, WellFoundedInduction, TLAPS

USE TasksAssumption, ThreadsAssumption, LevelAssumption

-----------------------------------------------------------------------------
(* How the delegates that run are counted *)

\* The running delegates can be counted.
LEMMA LiveFinite == IsFiniteSet(Live) /\ Cardinality(Live) \in Nat
  <1>1. IsFiniteSet(Live)
    BY FS_Subset DEF Live
  <1> QED
    BY <1>1, FS_CardinalityType

\* One more thread processes items: one more is counted.
LEMMA OneMore ==
  ASSUME NEW w \in Threads, processing \in [Threads -> BOOLEAN],
         ~processing[w], processing' = [processing EXCEPT ![w] = TRUE]
  PROVE  Cardinality(Live') = Cardinality(Live) + 1
  <1>1. Live' = Live \cup {w} /\ w \notin Live
    BY DEF Live
  <1> QED
    BY <1>1, LiveFinite, FS_AddElement

\* One thread fewer processes items: one fewer is counted.
LEMMA OneLess ==
  ASSUME NEW w \in Threads, processing \in [Threads -> BOOLEAN],
         processing[w], processing' = [processing EXCEPT ![w] = FALSE]
  PROVE  Cardinality(Live') = Cardinality(Live) - 1 /\ Cardinality(Live) > 0
  <1>1. Live' = Live \ {w} /\ w \in Live
    BY DEF Live
  <1>2. Cardinality(Live') = Cardinality(Live) - 1
    BY <1>1, LiveFinite, FS_RemoveElement
  <1>3. Cardinality(Live) # 0
    BY <1>1, LiveFinite, FS_EmptySet
  <1> QED
    BY <1>2, <1>3, LiveFinite

-----------------------------------------------------------------------------
(* CountIsExact *)

Counts == CountIsExact /\ delegates \in Nat /\ pending \in Nat /\ processing \in [Threads -> BOOLEAN]

\* A task is queued: a delegate is asked for, and counted, or not.
LEMMA CountQueue ==
  ASSUME Counts, NEW t, NEW creator, QueueTask(t, creator), UNCHANGED processing
  PROVE  Counts' /\ delegates' > 0
  <1>1. Live' = Live
    BY DEF Live
  <1>2. CASE delegates < MaxConcurrency
    <2>1. delegates' = delegates + 1 /\ pending' = pending + 1 /\ UNCHANGED processing
      BY <1>2 DEF QueueTask
    <2> QED
      BY <1>1, <1>2, <2>1, LiveFinite DEF Counts, CountIsExact
  <1>3. CASE ~(delegates < MaxConcurrency)
    BY <1>1, <1>3, LiveFinite DEF Counts, CountIsExact, QueueTask
  <1> QED
    BY <1>2, <1>3

\* A step that moves no delegate.
LEMMA CountStays ==
  ASSUME Counts, UNCHANGED <<delegates, pending, processing>>
  PROVE  Counts'
  BY DEF Counts, CountIsExact, Live

LEMMA StepCounts ==
  Counts /\ NoLostWakeup /\ [Next]_vars => Counts' /\ NoLostWakeup'
  <1> SUFFICES ASSUME Counts, NoLostWakeup, [Next]_vars
               PROVE  Counts' /\ NoLostWakeup'
    OBVIOUS
  <1>1. ASSUME NEW t \in Tasks, Submit(t)
        PROVE  Counts' /\ NoLostWakeup'
    BY <1>1, CountQueue DEF Submit, NoLostWakeup
  <1>2. ASSUME NEW w \in Threads, NEW t \in Tasks, Spawn(w, t)
        PROVE  Counts' /\ NoLostWakeup'
    BY <1>2, CountQueue DEF Spawn, NoLostWakeup
  <1>3. ASSUME NEW w \in Threads, StartDelegate(w)
        PROVE  Counts' /\ NoLostWakeup'
    <2>1. /\ pending > 0 /\ pending' = pending - 1
          /\ UNCHANGED <<list, delegates>>
          /\ processing' \in [Threads -> BOOLEAN]
      BY <1>3 DEF StartDelegate, Counts
    <2>2. Cardinality(Live') = Cardinality(Live) + 1
      BY <1>3, OneMore DEF StartDelegate, Counts
    <2>3. Counts'
      BY <2>1, <2>2, LiveFinite DEF Counts, CountIsExact
    <2> QED
      BY <2>1, <2>3 DEF NoLostWakeup
  <1>4. ASSUME NEW w \in Threads, Leave(w)
        PROVE  Counts' /\ NoLostWakeup'
    <2>1. /\ list = <<>> /\ UNCHANGED <<list, pending>>
          /\ delegates' = delegates - 1
          /\ processing' \in [Threads -> BOOLEAN]
      BY <1>4 DEF Leave, Counts
    <2>2. Cardinality(Live') = Cardinality(Live) - 1 /\ Cardinality(Live) > 0
      BY <1>4, OneLess DEF Leave, AtLoop, Counts
    <2>3. Counts'
      BY <2>1, <2>2, LiveFinite DEF Counts, CountIsExact
    <2> QED
      BY <2>1, <2>3 DEF NoLostWakeup
  <1>5. ASSUME UNCHANGED <<delegates, pending, processing>>, delegates > 0 \/ UNCHANGED list
        PROVE  Counts' /\ NoLostWakeup'
    BY <1>5, CountStays DEF NoLostWakeup
  <1>6. ASSUME NEW w \in Threads, TakeItem(w)
        PROVE  Counts' /\ NoLostWakeup'
    BY <1>5, <1>6 DEF TakeItem, NoLostWakeup, poolVars
  <1>7. ASSUME NEW w \in Threads, NEW t \in Tasks, WaitInPlace(w, t)
        PROVE  Counts' /\ NoLostWakeup'
    <2>1. list # <<>>
      BY <1>7 DEF WaitInPlace, RemoveFirst
    <2> QED
      BY <1>5, <1>7, <2>1 DEF WaitInPlace, NoLostWakeup, poolVars
  <1>8. ASSUME NEW w \in Threads, NEW t \in Tasks, RunInPlace(w, t) \/ WaitBlocked(w, t)
        PROVE  Counts' /\ NoLostWakeup'
    BY <1>5, <1>8 DEF RunInPlace, WaitBlocked, poolVars
  <1>9. ASSUME NEW w \in Threads, Finish(w) \/ Resume(w)
        PROVE  Counts' /\ NoLostWakeup'
    BY <1>5, <1>9 DEF Finish, Resume, poolVars
  <1>10. CASE UNCHANGED vars
    BY <1>5, <1>10 DEF vars
  <1> QED
    BY <1>1, <1>2, <1>3, <1>4, <1>6, <1>7, <1>8, <1>9, <1>10 DEF Next

LEMMA InitCounts == Init => Counts /\ NoLostWakeup
  <1> SUFFICES ASSUME Init PROVE Counts /\ NoLostWakeup
    OBVIOUS
  <1>1. Live = {}
    BY DEF Init, Live
  <1>2. Cardinality(Live) = 0
    BY <1>1, FS_EmptySet
  <1> QED
    BY <1>2 DEF Init, Counts, CountIsExact, NoLostWakeup

\* The counter and the wake-up, together.
LEMMA CountsInvariant == Spec => [](Counts /\ NoLostWakeup)
  <1>1. Init => Counts /\ NoLostWakeup
    BY InitCounts
  <1>2. (Counts /\ NoLostWakeup) /\ [Next]_vars => (Counts /\ NoLostWakeup)'
    BY StepCounts
  <1> QED
    BY <1>1, <1>2, PTL DEF Spec

\* _DelegatesQueuedOrRunning is the number of delegates queued or running, and
\* never more than the level (:28-31, :56).
THEOREM CountIsExactCorrect == Spec => []CountIsExact
  <1>1. Counts /\ NoLostWakeup => CountIsExact
    BY DEF Counts
  <1> QED
    BY <1>1, CountsInvariant, PTL

\* A task in the list always has a delegate that will look at the list (:54-58).
THEOREM NoLostWakeupCorrect == Spec => []NoLostWakeup
  <1>1. Counts /\ NoLostWakeup => NoLostWakeup
    OBVIOUS
  <1> QED
    BY <1>1, CountsInvariant, PTL
-----------------------------------------------------------------------------
(* Lists and stacks *)

\* The i-th element is taken off: the others keep their order.
LEMMA TakenOff ==
  ASSUME NEW S, NEW s \in Seq(S), NEW i \in 1..Len(s)
  PROVE  LET r == SubSeq(s, 1, i - 1) \o SubSeq(s, i + 1, Len(s))
         IN  /\ r \in Seq(S) /\ Len(r) = Len(s) - 1
             /\ \A k \in 1..Len(r) : r[k] = IF k < i THEN s[k] ELSE s[k + 1]
  <1> DEFINE a == SubSeq(s, 1, i - 1)
             b == SubSeq(s, i + 1, Len(s))
  <1>1. a \in Seq(S) /\ Len(a) = i - 1 /\ \A k \in 1..(i - 1) : a[k] = s[k]
    OBVIOUS
  <1>2. b \in Seq(S) /\ Len(b) = Len(s) - i /\ \A k \in 1..(Len(s) - i) : b[k] = s[k + i]
    OBVIOUS
  <1> HIDE DEF a, b
  <1>3. a \o b \in Seq(S) /\ Len(a \o b) = Len(s) - 1
    <2>0. a \in Seq(S) /\ b \in Seq(S)
      BY <1>1, <1>2
    <2>1. a \o b \in Seq(S) /\ Len(a \o b) = Len(a) + Len(b)
      BY <2>0
    <2>2. i \in Nat /\ Len(s) \in Nat
      OBVIOUS
    <2> QED
      BY <1>1, <1>2, <2>1, <2>2
  <1>4. ASSUME NEW k \in 1..(Len(s) - 1)
        PROVE  (a \o b)[k] = IF k < i THEN s[k] ELSE s[k + 1]
    <2>1. CASE k < i
      BY <1>1, <1>2, <2>1
    <2>2. CASE ~(k < i)
      <3>1. k - (i - 1) \in 1..(Len(s) - i) /\ (k - (i - 1)) + i = k + 1
        BY <2>2
      <3>2. (a \o b)[k] = b[k - (i - 1)]
        BY <1>1, <1>2, <2>2, <3>1
      <3> QED
        BY <1>2, <2>2, <3>1, <3>2
    <2> QED
      BY <2>1, <2>2
  <1> QED
    BY <1>3, <1>4 DEF a, b

\* One task leaves a list without repetitions.
LEMMA OneLeaves ==
  ASSUME list \in Seq(Tasks), list' \in Seq(Tasks), NEW i \in 1..Len(list),
         Len(list') = Len(list) - 1,
         \A k \in 1..Len(list') : list'[k] = IF k < i THEN list[k] ELSE list[k + 1],
         \A k, l \in 1..Len(list) : list[k] = list[l] => k = l
  PROVE  /\ \A k, l \in 1..Len(list') : list'[k] = list'[l] => k = l
         /\ \A t : InList(t)' <=> InList(t) /\ t # list[i]
  <1>0. Len(list) \in Nat /\ Len(list') \in Nat
    OBVIOUS
  <1> DEFINE at(k) == IF k < i THEN k ELSE k + 1
  <1>1. \A k \in 1..Len(list') : at(k) \in 1..Len(list) /\ at(k) # i /\ list'[k] = list[at(k)]
    BY <1>0
  <1>2. \A k, l \in 1..Len(list') : at(k) = at(l) => k = l
    BY <1>0
  <1>3. \A k \in 1..Len(list) : k # i => \E l \in 1..Len(list') : at(l) = k
    <2> SUFFICES ASSUME NEW k \in 1..Len(list), k # i
                 PROVE  \E l \in 1..Len(list') : at(l) = k
      OBVIOUS
    <2>1. CASE k < i
      BY <1>0, <2>1
    <2>2. CASE k > i
      <3>1. k - 1 \in 1..Len(list') /\ at(k - 1) = k
        BY <1>0, <2>2
      <3> QED
        BY <3>1
    <2> QED
      BY <1>0, <2>1, <2>2
  <1> HIDE DEF at
  <1>4. \A k, l \in 1..Len(list') : list'[k] = list'[l] => k = l
    BY <1>1, <1>2
  <1>5. ASSUME NEW t, InList(t), t # list[i]
        PROVE  InList(t)'
    <2>1. PICK k \in 1..Len(list) : list[k] = t
      BY <1>5 DEF InList
    <2>2. PICK l \in 1..Len(list') : at(l) = k
      BY <1>3, <1>5, <2>1
    <2>3. list'[l] = t
      BY <1>1, <2>1, <2>2
    <2> QED
      BY <2>3 DEF InList
  <1>6. ASSUME NEW t, InList(t)'
        PROVE  InList(t) /\ t # list[i]
    BY <1>1, <1>6 DEF InList
  <1> QED
    BY <1>4, <1>5, <1>6

\* A task is put on top of a stack.
LEMMA OneOnTop ==
  ASSUME stack \in [Threads -> Seq(Tasks)], NEW w \in Threads, NEW t \in Tasks,
         stack' = [stack EXCEPT ![w] = Append(stack[w], t)], ~OnStack(t),
         \A u, v \in Threads : \A i \in 1..Len(stack[u]), j \in 1..Len(stack[v]) :
             stack[u][i] = stack[v][j] => u = v /\ i = j
  PROVE  /\ stack' \in [Threads -> Seq(Tasks)]
         /\ \A u, v \in Threads : \A i \in 1..Len(stack'[u]), j \in 1..Len(stack'[v]) :
                stack'[u][i] = stack'[v][j] => u = v /\ i = j
         /\ \A u : OnStack(u)' <=> OnStack(u) \/ u = t
  <1>1. /\ stack' \in [Threads -> Seq(Tasks)]
        /\ \A v \in Threads : v # w => stack'[v] = stack[v]
    OBVIOUS
  <1>2. /\ Len(stack[w]) \in Nat /\ Len(stack'[w]) = Len(stack[w]) + 1
        /\ stack'[w][Len(stack[w]) + 1] = t
        /\ \A i \in 1..Len(stack[w]) : stack'[w][i] = stack[w][i]
    OBVIOUS
  <1>3. ASSUME NEW v \in Threads, NEW i \in 1..Len(stack'[v])
        PROVE  \/ i \in 1..Len(stack[v]) /\ stack'[v][i] = stack[v][i]
               \/ v = w /\ i = Len(stack[w]) + 1 /\ stack'[v][i] = t
    BY <1>1, <1>2
  <1>4. \A v \in Threads : \A i \in 1..Len(stack[v]) :
            i \in 1..Len(stack'[v]) /\ stack'[v][i] = stack[v][i]
    BY <1>1, <1>2
  <1>5. ASSUME NEW u \in Threads, NEW v \in Threads, NEW i \in 1..Len(stack'[u]),
               NEW j \in 1..Len(stack'[v]), stack'[u][i] = stack'[v][j]
        PROVE  u = v /\ i = j
    BY <1>3, <1>5 DEF OnStack
  <1>6. ASSUME NEW u, OnStack(u)'
        PROVE  OnStack(u) \/ u = t
    BY <1>3, <1>6 DEF OnStack
  <1>7. ASSUME NEW u, OnStack(u)
        PROVE  OnStack(u)'
    BY <1>4, <1>7 DEF OnStack
  <1>8. OnStack(t)'
    <2>1. Len(stack[w]) + 1 \in 1..Len(stack'[w])
      BY <1>2
    <2> QED
      BY <1>2, <2>1 DEF OnStack
  <1> QED
    BY <1>1, <1>5, <1>6, <1>7, <1>8

\* The task on top of a stack leaves it.
LEMMA OneOffTop ==
  ASSUME stack \in [Threads -> Seq(Tasks)], NEW w \in Threads, stack[w] # <<>>,
         stack' = [stack EXCEPT ![w] = SubSeq(stack[w], 1, Len(stack[w]) - 1)],
         \A u, v \in Threads : \A i \in 1..Len(stack[u]), j \in 1..Len(stack[v]) :
             stack[u][i] = stack[v][j] => u = v /\ i = j
  PROVE  /\ stack' \in [Threads -> Seq(Tasks)]
         /\ Len(stack'[w]) = Len(stack[w]) - 1
         /\ \A u, v \in Threads : \A i \in 1..Len(stack'[u]), j \in 1..Len(stack'[v]) :
                stack'[u][i] = stack'[v][j] => u = v /\ i = j
         /\ \A u : OnStack(u)' <=> OnStack(u) /\ u # stack[w][Len(stack[w])]
  <1> DEFINE n == Len(stack[w])
  <1>1. n \in Nat /\ n > 0 /\ n \in 1..n
    OBVIOUS
  <1>2. /\ stack' \in [Threads -> Seq(Tasks)]
        /\ \A v \in Threads : v # w => stack'[v] = stack[v]
    BY <1>1
  <1>3. Len(stack'[w]) = n - 1 /\ \A i \in 1..(n - 1) : stack'[w][i] = stack[w][i]
    <2>1. stack'[w] = SubSeq(stack[w], 1, n - 1) /\ stack[w] \in Seq(Tasks)
      OBVIOUS
    <2> HIDE DEF n
    <2>2. n - 1 \in 0..Len(stack[w])
      BY <1>1 DEF n
    <2> QED
      BY <1>1, <2>1, <2>2
  <1> HIDE DEF n
  <1>4. \A v \in Threads : \A i \in 1..Len(stack'[v]) :
            i \in 1..Len(stack[v]) /\ stack'[v][i] = stack[v][i] /\ (v = w => i # n)
    BY <1>1, <1>2, <1>3 DEF n
  <1>5. \A v \in Threads : \A i \in 1..Len(stack[v]) :
            v # w \/ i # n => i \in 1..Len(stack'[v])
    BY <1>1, <1>2, <1>3 DEF n
  <1>6. ASSUME NEW u \in Threads, NEW v \in Threads, NEW i \in 1..Len(stack'[u]),
               NEW j \in 1..Len(stack'[v]), stack'[u][i] = stack'[v][j]
        PROVE  u = v /\ i = j
    BY <1>4, <1>6
  <1>7. ASSUME NEW u, OnStack(u)'
        PROVE  OnStack(u) /\ u # stack[w][n]
    <2>0. PICK v \in Threads : \E i \in 1..Len(stack'[v]) : stack'[v][i] = u
      BY <1>7 DEF OnStack
    <2>1. PICK i \in 1..Len(stack'[v]) : stack'[v][i] = u
      BY <2>0
    <2>2. i \in 1..Len(stack[v]) /\ stack[v][i] = u /\ (v = w => i # n)
      BY <1>4, <2>1
    <2>3. n \in 1..Len(stack[w])
      BY <1>1 DEF n
    <2> QED
      BY <2>2, <2>3 DEF OnStack
  <1>8. ASSUME NEW u, OnStack(u), u # stack[w][n]
        PROVE  OnStack(u)'
    <2>0. PICK v \in Threads : \E i \in 1..Len(stack[v]) : stack[v][i] = u
      BY <1>8 DEF OnStack
    <2>1. PICK i \in 1..Len(stack[v]) : stack[v][i] = u
      BY <2>0
    <2>2. i \in 1..Len(stack'[v])
      BY <1>5, <1>8, <2>1
    <2> QED
      BY <1>4, <2>1, <2>2 DEF OnStack
  <1> QED
    BY <1>2, <1>3, <1>6, <1>7, <1>8 DEF n

-----------------------------------------------------------------------------
(* TypeOK, OnePlace and DelegatesRunTasks *)

\* The task that executes on a thread is the last one of its stack.
LEMMA Executing ==
  ASSUME TypeOK, OnePlace, NEW w \in Threads, NEW t \in Tasks, Executes(w, t)
  PROVE  /\ stack[w] # <<>> /\ t = stack[w][Len(stack[w])]
         /\ Len(stack[w]) \in 1..Len(stack[w]) /\ OnStack(t) /\ phase[t] = "running"
  <1>1. stack[w] # <<>> /\ t = stack[w][Len(stack[w])]
    BY DEF Executes
  <1>2. Len(stack[w]) \in 1..Len(stack[w])
    BY <1>1 DEF TypeOK
  <1>3. OnStack(t)
    BY <1>1, <1>2 DEF OnStack
  <1> QED
    BY <1>1, <1>2, <1>3 DEF OnePlace

\* What QueueTask does to the list: a task that was nowhere comes last.
LEMMA OneComes ==
  ASSUME TypeOK, OnePlace, NEW t \in Tasks, phase[t] = "new", list' = Append(list, t)
  PROVE  /\ list' \in Seq(Tasks) /\ Len(list') = Len(list) + 1
         /\ \A k, l \in 1..Len(list') : list'[k] = list'[l] => k = l
         /\ \A u : InList(u)' <=> InList(u) \/ u = t
  <1>1. /\ list' \in Seq(Tasks) /\ Len(list) \in Nat /\ Len(list') = Len(list) + 1
        /\ list'[Len(list) + 1] = t
        /\ \A k \in 1..Len(list) : list'[k] = list[k]
    BY DEF TypeOK
  <1>2. \A k \in 1..Len(list) : list[k] # t
    BY DEF OnePlace, InList
  <1>3. \A k \in 1..Len(list') : k \in 1..Len(list) \/ k = Len(list) + 1
    BY <1>1
  <1>4. \A k \in 1..Len(list) : k \in 1..Len(list')
    BY <1>1
  <1>5. Len(list) + 1 \in 1..Len(list')
    BY <1>1
  <1>6. \A k, l \in 1..Len(list') : list'[k] = list'[l] => k = l
    BY <1>1, <1>2, <1>3 DEF OnePlace
  <1>7. ASSUME NEW u
        PROVE  InList(u)' <=> InList(u) \/ u = t
    <2>1. ASSUME InList(u)' PROVE InList(u) \/ u = t
      BY <1>1, <1>3, <2>1 DEF InList
    <2>2. ASSUME InList(u) PROVE InList(u)'
      BY <1>1, <1>4, <2>2 DEF InList
    <2>3. InList(t)'
      BY <1>1, <1>5 DEF InList
    <2> QED
      BY <2>1, <2>2, <2>3
  <1> QED
    BY <1>1, <1>6, <1>7

Shape == TypeOK /\ OnePlace /\ DelegatesRunTasks

LEMMA ShapeQueue ==
  ASSUME Shape, NEW t \in Tasks, NEW creator \in Tasks \cup {NoTask}, QueueTask(t, creator),
         UNCHANGED <<processing, runVars>>
  PROVE  Shape'
  <1> USE DEF Shape
  <1>1. /\ phase[t] = "new" /\ phase' = [phase EXCEPT ![t] = "queued"]
        /\ owner' = [owner EXCEPT ![t] = creator] /\ list' = Append(list, t)
        /\ UNCHANGED <<processing, stack, awaits>>
    BY DEF QueueTask, runVars
  <1>2. /\ list' \in Seq(Tasks)
        /\ \A k, l \in 1..Len(list') : list'[k] = list'[l] => k = l
        /\ \A u : InList(u)' <=> InList(u) \/ u = t
    BY <1>1, OneComes
  <1>3. \A u : OnStack(u)' <=> OnStack(u)
    BY <1>1 DEF OnStack
  <1>4. delegates' \in Nat /\ pending' \in Nat
    BY DEF QueueTask, TypeOK
  <1>5. TypeOK'
    BY <1>1, <1>2, <1>4 DEF TypeOK, Phases
  <1>6. OnePlace'
    <2>1. \A u \in Tasks : phase'[u] = IF u = t THEN "queued" ELSE phase[u]
      BY <1>1 DEF TypeOK
    <2>2. \A u \in Tasks : phase'[u] = "queued" <=> InList(u)'
      BY <1>2, <2>1 DEF OnePlace
    <2>3. \A u \in Tasks : phase'[u] = "running" <=> OnStack(u)'
      BY <1>1, <1>3, <2>1 DEF OnePlace
    <2>4. \A u, v \in Threads : \A i \in 1..Len(stack'[u]), j \in 1..Len(stack'[v]) :
              stack'[u][i] = stack'[v][j] => u = v /\ i = j
      <3>1. stack' = stack
        BY <1>1
      <3>2. \A u, v \in Threads : \A i \in 1..Len(stack[u]), j \in 1..Len(stack[v]) :
                stack[u][i] = stack[v][j] => u = v /\ i = j
        BY DEF OnePlace
      <3> QED
        BY <3>1, <3>2
    <2> QED
      BY <1>2, <2>2, <2>3, <2>4 DEF OnePlace
  <1> QED
    BY <1>1, <1>5, <1>6 DEF DelegatesRunTasks

\* A task leaves the list or comes from nowhere, and goes on top of a stack.
LEMMA ShapePush ==
  ASSUME Shape, NEW w \in Threads, NEW t \in Tasks, processing[w],
         stack' = [stack EXCEPT ![w] = Append(stack[w], t)],
         phase' = [phase EXCEPT ![t] = "running"],
         UNCHANGED <<delegates, poolVars, awaits>>,
         owner' \in [Tasks -> Tasks \cup {NoTask}],
         \/ phase[t] = "new" /\ list' = list
         \/ \E i \in 1..Len(list) :
                /\ list[i] = t
                /\ list' = SubSeq(list, 1, i - 1) \o SubSeq(list, i + 1, Len(list))
  PROVE  Shape' /\ (list' = list \/ (Len(list') = Len(list) - 1 /\ list # <<>>))
  <1> USE DEF Shape
  <1>1. /\ list' \in Seq(Tasks)
        /\ \A k, l \in 1..Len(list') : list'[k] = list'[l] => k = l
        /\ \A u : InList(u)' <=> InList(u) /\ u # t
        /\ phase[t] \in {"new", "queued"}
        /\ list' = list \/ (Len(list') = Len(list) - 1 /\ list # <<>>)
    <2>1. CASE phase[t] = "new" /\ list' = list
      <3>1. ~InList(t)
        BY <2>1 DEF OnePlace
      <3>2. \A u : InList(u)' <=> InList(u)
        BY <2>1 DEF InList
      <3>3. /\ list \in Seq(Tasks)
            /\ \A k, l \in 1..Len(list) : list[k] = list[l] => k = l
        BY DEF OnePlace, TypeOK
      <3> QED
        BY <2>1, <3>1, <3>2, <3>3
    <2>2. ASSUME NEW i \in 1..Len(list), list[i] = t,
                 list' = SubSeq(list, 1, i - 1) \o SubSeq(list, i + 1, Len(list))
          PROVE  /\ list' \in Seq(Tasks)
                 /\ \A k, l \in 1..Len(list') : list'[k] = list'[l] => k = l
                 /\ \A u : InList(u)' <=> InList(u) /\ u # t
                 /\ phase[t] \in {"new", "queued"}
                 /\ Len(list') = Len(list) - 1 /\ list # <<>>
      <3>1. list \in Seq(Tasks)
        BY DEF TypeOK
      <3>2. /\ list' \in Seq(Tasks) /\ Len(list') = Len(list) - 1
            /\ \A k \in 1..Len(list') : list'[k] = IF k < i THEN list[k] ELSE list[k + 1]
        BY <2>2, <3>1, TakenOff, ZenonT(60)
      <3>3. \A k, l \in 1..Len(list) : list[k] = list[l] => k = l
        BY DEF OnePlace
      <3>4. /\ \A k, l \in 1..Len(list') : list'[k] = list'[l] => k = l
            /\ \A u : InList(u)' <=> InList(u) /\ u # list[i]
        BY <3>1, <3>2, <3>3, OneLeaves
      <3>5. phase[t] = "queued" /\ list # <<>>
        BY <2>2 DEF OnePlace, InList
      <3> QED
        BY <2>2, <3>2, <3>4, <3>5
    <2> QED
      BY <2>1, <2>2
  <1>2. ~OnStack(t)
    BY <1>1 DEF OnePlace
  <1>3. /\ stack' \in [Threads -> Seq(Tasks)]
        /\ \A u, v \in Threads : \A i \in 1..Len(stack'[u]), j \in 1..Len(stack'[v]) :
               stack'[u][i] = stack'[v][j] => u = v /\ i = j
        /\ \A u : OnStack(u)' <=> OnStack(u) \/ u = t
    BY <1>2, OneOnTop DEF TypeOK, OnePlace
  <1>4. TypeOK'
    BY <1>1, <1>3 DEF TypeOK, Phases, poolVars
  <1>5. \A u \in Tasks : phase'[u] = IF u = t THEN "running" ELSE phase[u]
    BY DEF TypeOK
  <1>6. OnePlace'
    BY <1>1, <1>3, <1>5 DEF OnePlace
  <1>7. DelegatesRunTasks'
    BY DEF DelegatesRunTasks, TypeOK, poolVars
  <1> QED
    BY <1>1, <1>4, <1>6, <1>7

\* TakeItem moves the head of the list.
LEMMA TakesFirst ==
  ASSUME TypeOK, NEW w \in Threads, TakeItem(w)
  PROVE  /\ 1 \in 1..Len(list) /\ list[1] = Head(list) /\ Head(list) \in Tasks
         /\ list' = SubSeq(list, 1, 1 - 1) \o SubSeq(list, 1 + 1, Len(list))
         /\ stack' = [stack EXCEPT ![w] = Append(stack[w], Head(list))]
  <1>1. list \in Seq(Tasks) /\ list # <<>> /\ list' = Tail(list) /\ stack[w] = <<>>
    BY DEF TypeOK, TakeItem, AtLoop
  <1>2. 1 \in 1..Len(list) /\ list[1] = Head(list) /\ Head(list) \in Tasks
    BY <1>1
  <1>3. Tail(list) = SubSeq(list, 1, 1 - 1) \o SubSeq(list, 1 + 1, Len(list))
    BY <1>1
  <1>4. <<Head(list)>> = Append(stack[w], Head(list))
    BY <1>1
  <1> QED
    BY <1>1, <1>2, <1>3, <1>4 DEF TakeItem

LEMMA StepShape ==
  Shape /\ CountIsExact /\ [Next]_vars => Shape'
  <1> SUFFICES ASSUME Shape, CountIsExact, [Next]_vars PROVE Shape'
    OBVIOUS
  <1>0. TypeOK /\ OnePlace /\ DelegatesRunTasks
    BY DEF Shape
  <1>1. ASSUME NEW t \in Tasks, Submit(t)
        PROVE  Shape'
    BY <1>1, ShapeQueue DEF Submit
  <1>2. ASSUME NEW w \in Threads, NEW t \in Tasks, Spawn(w, t)
        PROVE  Shape'
    BY <1>2, ShapeQueue DEF Spawn
  <1>3. ASSUME UNCHANGED <<list, stack, phase>>, TypeOK', DelegatesRunTasks'
        PROVE  Shape'
    <2>1. OnePlace'
      BY <1>0, <1>3 DEF OnePlace, InList, OnStack
    <2> QED
      BY <1>3, <2>1 DEF Shape
  <1>4. ASSUME NEW w \in Threads, StartDelegate(w)
        PROVE  Shape'
    <2>1. TypeOK' /\ DelegatesRunTasks' /\ UNCHANGED <<list, stack, phase>>
      BY <1>0, <1>4 DEF StartDelegate, TypeOK, DelegatesRunTasks, runVars
    <2> QED
      BY <1>3, <2>1
  <1>5. ASSUME NEW w \in Threads, Leave(w)
        PROVE  Shape'
    <2>1. Cardinality(Live) > 0
      BY <1>0, <1>5, OneLess DEF Leave, AtLoop, TypeOK
    <2>2. delegates' \in Nat
      BY <1>0, <1>5, <2>1, LiveFinite DEF Leave, CountIsExact, TypeOK
    <2>3. UNCHANGED <<list, pending, stack, awaits, phase, owner>>
      BY <1>5 DEF Leave, runVars
    <2>4. TypeOK' /\ DelegatesRunTasks'
      BY <1>0, <1>5, <2>2, <2>3 DEF Leave, AtLoop, TypeOK, DelegatesRunTasks
    <2> QED
      BY <1>3, <2>3, <2>4
  <1>6. ASSUME NEW w \in Threads, TakeItem(w)
        PROVE  Shape'
    <2>1. owner' \in [Tasks -> Tasks \cup {NoTask}]
      BY <1>0, <1>6 DEF TakeItem, TypeOK
    <2>2. /\ processing[w] /\ phase' = [phase EXCEPT ![Head(list)] = "running"]
          /\ UNCHANGED <<delegates, poolVars, awaits>>
      BY <1>6 DEF TakeItem, AtLoop
    <2>3. Head(list) \in Tasks
      BY <1>0, <1>6, TakesFirst
    <2> QED
      BY <1>0, <1>6, <2>1, <2>2, <2>3, TakesFirst, ShapePush
  <1>7. ASSUME NEW w \in Threads, NEW t \in Tasks, RunInPlace(w, t) \/ WaitInPlace(w, t)
        PROVE  Shape'
    <2>1. processing[w]
      BY <1>0, <1>7 DEF RunInPlace, WaitInPlace, Executes, DelegatesRunTasks
    <2>2. owner' \in [Tasks -> Tasks \cup {NoTask}]
      BY <1>0, <1>7 DEF RunInPlace, WaitInPlace, TypeOK
    <2> QED
      BY <1>7, <2>1, <2>2, ShapePush DEF RunInPlace, WaitInPlace, Push, RemoveFirst
  <1>8. ASSUME NEW w \in Threads, Finish(w)
        PROVE  Shape'
    <2>1. PICK t \in Tasks :
              /\ Executes(w, t)
              /\ phase' = [phase EXCEPT ![t] = "done"]
              /\ stack' = [stack EXCEPT ![w] = SubSeq(stack[w], 1, Len(stack[w]) - 1)]
              /\ UNCHANGED <<list, delegates, poolVars, awaits, owner>>
      BY <1>8 DEF Finish
    <2>2. stack[w] # <<>> /\ t = stack[w][Len(stack[w])] /\ phase[t] = "running"
      BY <1>0, <2>1, Executing
    <2>3. /\ stack' \in [Threads -> Seq(Tasks)]
          /\ \A u, v \in Threads : \A i \in 1..Len(stack'[u]), j \in 1..Len(stack'[v]) :
                 stack'[u][i] = stack'[v][j] => u = v /\ i = j
          /\ \A u : OnStack(u)' <=> OnStack(u) /\ u # t
      BY <1>0, <2>1, <2>2, OneOffTop DEF TypeOK, OnePlace
    <2>4. \A u : InList(u)' <=> InList(u)
      BY <2>1 DEF InList
    <2>5. \A u \in Tasks : phase'[u] = IF u = t THEN "done" ELSE phase[u]
      BY <1>0, <2>1 DEF TypeOK
    <2>6. TypeOK'
      BY <1>0, <2>1, <2>3 DEF TypeOK, Phases, poolVars
    <2>7. OnePlace'
      BY <1>0, <2>1, <2>2, <2>3, <2>4, <2>5 DEF OnePlace
    <2>8. DelegatesRunTasks'
      <3>1. \A v \in Threads : v # w => stack'[v] = stack[v]
        BY <1>0, <2>1 DEF TypeOK
      <3> QED
        BY <1>0, <2>1, <2>2, <3>1 DEF DelegatesRunTasks, poolVars
    <2> QED
      BY <2>6, <2>7, <2>8 DEF Shape
  <1>9. ASSUME NEW w \in Threads, NEW t \in Tasks, WaitBlocked(w, t)
        PROVE  Shape'
    <2>1. TypeOK' /\ DelegatesRunTasks' /\ UNCHANGED <<list, stack, phase>>
      BY <1>0, <1>9 DEF WaitBlocked, TypeOK, DelegatesRunTasks, poolVars
    <2> QED
      BY <1>3, <2>1
  <1>10. ASSUME NEW w \in Threads, Resume(w)
         PROVE  Shape'
    <2>1. TypeOK' /\ DelegatesRunTasks' /\ UNCHANGED <<list, stack, phase>>
      BY <1>0, <1>10 DEF Resume, TypeOK, DelegatesRunTasks, poolVars
    <2> QED
      BY <1>3, <2>1
  <1>11. CASE UNCHANGED vars
    <2>1. TypeOK' /\ DelegatesRunTasks' /\ UNCHANGED <<list, stack, phase>>
      BY <1>0, <1>11 DEF vars, TypeOK, DelegatesRunTasks
    <2> QED
      BY <1>3, <2>1
  <1> QED
    BY <1>1, <1>2, <1>4, <1>5, <1>6, <1>7, <1>8, <1>9, <1>10, <1>11 DEF Next

-----------------------------------------------------------------------------
(* NoIdleCapacity *)

LEMMA BetweenFinite == IsFiniteSet(Between) /\ Cardinality(Between) \in Nat
  <1>1. IsFiniteSet(Between)
    BY FS_Subset DEF Between
  <1> QED
    BY <1>1, FS_CardinalityType

\* The list gets no longer, and no delegate on its way to it stops short of it.
LEMMA IdleStays ==
  ASSUME TypeOK, TypeOK', NoIdleCapacity, UNCHANGED <<delegates, pending>>,
         Len(list') <= Len(list), Between \subseteq Between'
  PROVE  NoIdleCapacity'
  <1>1. IsFiniteSet(Between')
    BY FS_Subset DEF Between
  <1>2. Cardinality(Between) <= Cardinality(Between') /\ Cardinality(Between') \in Nat
    BY <1>1, FS_Subset, FS_CardinalityType
  <1>3. Len(list) \in Nat /\ Len(list') \in Nat
    BY DEF TypeOK
  <1> QED
    BY <1>2, <1>3, BetweenFinite DEF NoIdleCapacity, TypeOK

LEMMA StepIdle ==
  Shape /\ Shape' /\ NoIdleCapacity /\ [Next]_vars => NoIdleCapacity'
  <1> SUFFICES ASSUME Shape, Shape', NoIdleCapacity, [Next]_vars PROVE NoIdleCapacity'
    OBVIOUS
  <1>0. /\ TypeOK /\ TypeOK' /\ OnePlace /\ DelegatesRunTasks
        /\ Len(list) \in Nat /\ Len(list') \in Nat
    BY DEF Shape, TypeOK
  <1>1. ASSUME NEW t, NEW creator, QueueTask(t, creator), UNCHANGED <<processing, stack>>
        PROVE  NoIdleCapacity'
    <2>1. Between' = Between
      BY <1>1 DEF Between, AtLoop
    <2>2. Len(list') = Len(list) + 1
      BY <1>0, <1>1 DEF QueueTask, TypeOK
    <2>3. CASE delegates < MaxConcurrency
      <3>1. pending' = pending + 1
        BY <1>1, <2>3 DEF QueueTask
      <3> QED
        BY <1>0, <2>1, <2>2, <2>3, <3>1, BetweenFinite DEF NoIdleCapacity, TypeOK
    <2>4. CASE ~(delegates < MaxConcurrency)
      BY <1>1, <2>4 DEF QueueTask, NoIdleCapacity
    <2> QED
      BY <2>3, <2>4
  <1>2. ASSUME NEW t \in Tasks, Submit(t)
        PROVE  NoIdleCapacity'
    BY <1>1, <1>2 DEF Submit, runVars
  <1>3. ASSUME NEW w \in Threads, NEW t \in Tasks, Spawn(w, t)
        PROVE  NoIdleCapacity'
    BY <1>1, <1>3 DEF Spawn, runVars
  <1>4. ASSUME NEW w \in Threads, StartDelegate(w)
        PROVE  NoIdleCapacity'
    <2>1. /\ ~processing[w] /\ stack[w] = <<>> /\ pending > 0 /\ pending' = pending - 1
          /\ processing' = [processing EXCEPT ![w] = TRUE]
          /\ UNCHANGED <<list, delegates, stack>>
      BY <1>0, <1>4 DEF StartDelegate, DelegatesRunTasks, runVars
    <2>2. Between' = Between \cup {w} /\ w \notin Between
      BY <1>0, <2>1 DEF Between, AtLoop, TypeOK
    <2>3. Cardinality(Between') = Cardinality(Between) + 1
      BY <2>2, BetweenFinite, FS_AddElement
    <2> QED
      BY <1>0, <2>1, <2>3, BetweenFinite DEF NoIdleCapacity, TypeOK
  <1>5. ASSUME NEW w \in Threads, TakeItem(w)
        PROVE  NoIdleCapacity'
    <2>1. /\ processing[w] /\ stack[w] = <<>> /\ list # <<>> /\ list' = Tail(list)
          /\ stack' = [stack EXCEPT ![w] = <<Head(list)>>]
          /\ UNCHANGED <<delegates, pending, processing>>
      BY <1>5 DEF TakeItem, AtLoop, poolVars
    <2>2. <<Head(list)>> # <<>> /\ Len(list') = Len(list) - 1
      BY <1>0, <2>1 DEF TypeOK
    <2>3. Between' = Between \ {w} /\ w \in Between
      BY <1>0, <2>1, <2>2 DEF Between, AtLoop, TypeOK
    <2>4. Cardinality(Between') = Cardinality(Between) - 1
      BY <2>3, BetweenFinite, FS_RemoveElement
    <2> QED
      BY <1>0, <2>1, <2>2, <2>4, BetweenFinite DEF NoIdleCapacity, TypeOK
  <1>6. ASSUME NEW w \in Threads, Leave(w)
        PROVE  NoIdleCapacity'
    <2>1. Len(list') = 0
      BY <1>6 DEF Leave
    <2>2. Cardinality(Between') \in Nat
      <3>1. IsFiniteSet(Between')
        BY FS_Subset DEF Between
      <3> QED
        BY <3>1, FS_CardinalityType
    <2> QED
      BY <1>0, <2>1, <2>2 DEF NoIdleCapacity, TypeOK
  <1>7. ASSUME NEW w \in Threads, Finish(w)
        PROVE  NoIdleCapacity'
    <2>1. UNCHANGED <<list, delegates, pending, processing>>
      BY <1>7 DEF Finish, poolVars
    <2>2. stack[w] # <<>> /\ \A v \in Threads : v # w => stack'[v] = stack[v]
      BY <1>0, <1>7 DEF Finish, Executes, TypeOK
    <2>3. Between \subseteq Between'
      BY <2>1, <2>2 DEF Between, AtLoop
    <2> QED
      BY <1>0, <2>1, <2>3, IdleStays
  <1>8. ASSUME NEW w \in Threads, NEW t \in Tasks, RunInPlace(w, t) \/ WaitInPlace(w, t)
        PROVE  NoIdleCapacity'
    <2>1. UNCHANGED <<delegates, pending, processing>>
      BY <1>8 DEF RunInPlace, WaitInPlace, poolVars
    <2>2. stack[w] # <<>> /\ \A v \in Threads : v # w => stack'[v] = stack[v]
      BY <1>0, <1>8 DEF RunInPlace, WaitInPlace, Push, Executes, TypeOK
    <2>3. Between \subseteq Between'
      BY <2>1, <2>2 DEF Between, AtLoop
    <2>4. Len(list') <= Len(list)
      <3>1. CASE RunInPlace(w, t)
        BY <1>0, <3>1 DEF RunInPlace
      <3>2. CASE WaitInPlace(w, t)
        <4>1. PICK i \in 1..Len(list) :
                  list' = SubSeq(list, 1, i - 1) \o SubSeq(list, i + 1, Len(list))
          BY <3>2 DEF WaitInPlace, RemoveFirst
        <4>2. Len(list') = Len(list) - 1
          BY <1>0, <4>1, TakenOff DEF TypeOK
        <4> QED
          BY <1>0, <4>2
      <3> QED
        BY <1>8, <3>1, <3>2
    <2> QED
      BY <1>0, <2>1, <2>3, <2>4, IdleStays
  <1>9. ASSUME UNCHANGED <<list, delegates, pending, processing, stack>>
        PROVE  NoIdleCapacity'
    BY <1>9 DEF NoIdleCapacity, Between, AtLoop
  <1>10. ASSUME NEW w \in Threads, NEW t \in Tasks, WaitBlocked(w, t)
         PROVE  NoIdleCapacity'
    BY <1>9, <1>10 DEF WaitBlocked, poolVars
  <1>11. ASSUME NEW w \in Threads, Resume(w)
         PROVE  NoIdleCapacity'
    BY <1>9, <1>11 DEF Resume, poolVars
  <1>12. CASE UNCHANGED vars
    BY <1>9, <1>12 DEF vars
  <1> QED
    BY <1>2, <1>3, <1>4, <1>5, <1>6, <1>7, <1>8, <1>10, <1>11, <1>12 DEF Next

-----------------------------------------------------------------------------
(* The theorems *)

\* The inductive invariant: the list, the stacks and the phases agree, and so do
\* the counter and the delegates (WorkflowSchedulerService.cs:20-110).
THEOREM Invariant == Spec => []IInv
  <1>1. Init => Shape /\ NoIdleCapacity
    <2> SUFFICES ASSUME Init PROVE Shape /\ NoIdleCapacity
      OBVIOUS
    <2>1. TypeOK
      BY DEF Init, TypeOK, Phases
    <2>2. OnePlace /\ DelegatesRunTasks
      BY DEF Init, OnePlace, InList, OnStack, DelegatesRunTasks
    <2>3. NoIdleCapacity
      BY BetweenFinite DEF Init, NoIdleCapacity
    <2> QED
      BY <2>1, <2>2, <2>3 DEF Shape
  <1>2. /\ (Shape /\ NoIdleCapacity) /\ (Counts /\ NoLostWakeup) /\ [Next]_vars
        => (Shape /\ NoIdleCapacity)'
    <2>1. Counts => CountIsExact
      BY DEF Counts
    <2> QED
      BY <2>1, StepShape, StepIdle
  <1>3. (Shape /\ NoIdleCapacity) /\ (Counts /\ NoLostWakeup) => IInv
    BY DEF Shape, Counts, IInv
  <1> QED
    BY <1>1, <1>2, <1>3, CountsInvariant, PTL DEF Spec

\* The state always has its declared shape; the counters never go below zero.
THEOREM TypeCorrect == Spec => []TypeOK
  <1>1. IInv => TypeOK
    BY DEF IInv
  <1> QED
    BY <1>1, Invariant, PTL

\* Every queued task is in the list and every running one on a thread, once
\* (:49-58, :64-84, :96-105).
THEOREM OnePlaceCorrect == Spec => []OnePlace
  <1>1. IInv => OnePlace
    BY DEF IInv
  <1> QED
    BY <1>1, Invariant, PTL

\* Below the level, a delegate is on its way for every task of the list (:54-58).
THEOREM NoIdleCapacityCorrect == Spec => []NoIdleCapacity
  <1>1. IInv => NoIdleCapacity
    BY DEF IInv
  <1> QED
    BY <1>1, Invariant, PTL

-----------------------------------------------------------------------------
(* The refinement *)

Busy == {w \in Threads : stack[w] # <<>>}

\* There are no more slots than threads that run tasks.
LEMMA SlotsCounted ==
  IsFiniteSet(Busy) /\ IsFiniteSet(Slots) /\ Cardinality(Slots) <= Cardinality(Busy)
  <1> DEFINE f == [w \in Busy |-> stack[w][1]]
  <1>1. IsFiniteSet(Busy)
    BY FS_Subset DEF Busy
  <1>2. f \in Surjection(Busy, Slots)
    BY DEF Surjection, Busy, Slots
  <1> QED
    BY <1>1, <1>2, FS_Surjection

\* A delegate that is between two items leaves a slot free.
LEMMA SlotFree ==
  ASSUME IInv, NEW w \in Threads, AtLoop(w)
  PROVE  Cardinality(Slots) < MaxConcurrency
  <1>1. Busy \subseteq Live \ {w} /\ w \in Live
    BY DEF IInv, DelegatesRunTasks, AtLoop, Busy, Live
  <1>2. IsFiniteSet(Live \ {w}) /\ Cardinality(Live \ {w}) = Cardinality(Live) - 1
    BY <1>1, LiveFinite, FS_RemoveElement
  <1>3. Cardinality(Busy) <= Cardinality(Live) - 1
    BY <1>1, <1>2, FS_Subset
  <1>4. Cardinality(Live) <= MaxConcurrency
    BY LiveFinite DEF IInv, CountIsExact, TypeOK
  <1>5. Cardinality(Slots) \in Nat /\ Cardinality(Busy) \in Nat
    BY SlotsCounted, FS_CardinalityType
  <1> QED
    BY <1>3, <1>4, <1>5, SlotsCounted, LiveFinite

\* WorkflowScheduler implements LimitedPool: a delegate that takes an item fills a
\* slot, and only the end of that item empties it.
THEOREM Refinement == Spec => ImplementsLimitedPool
  <1>1. Init => Pool!Init
    BY DEF Init, Pool!Init, Slots
  <1>2. IInv /\ [Next]_vars => [Pool!Next]_(Pool!vars)
    <2> SUFFICES ASSUME IInv, [Next]_vars PROVE [Pool!Next]_(Pool!vars)
      OBVIOUS
    <2> USE DEF Pool!vars
    <2>0. TypeOK /\ OnePlace /\ DelegatesRunTasks
      BY DEF IInv
    <2>1. ASSUME stack' = stack
          PROVE  Slots' = Slots
      BY <2>1 DEF Slots
    <2>2. ASSUME NEW t \in Tasks, Submit(t)
          PROVE  Pool!Submit(t)
      BY <2>1, <2>2 DEF Submit, QueueTask, runVars, Pool!Submit, Pool!Become
    <2>3. ASSUME NEW w \in Threads, NEW t \in Tasks, Spawn(w, t)
          PROVE  Pool!Submit(t)
      BY <2>1, <2>3 DEF Spawn, QueueTask, runVars, Pool!Submit, Pool!Become
    <2>4. ASSUME NEW w \in Threads, TakeItem(w)
          PROVE  Head(list) \in Tasks /\ Pool!Start(Head(list))
      <3>1. /\ Head(list) \in Tasks /\ phase[Head(list)] = "queued"
            /\ phase' = [phase EXCEPT ![Head(list)] = "running"]
        BY <2>0, <2>4, TakesFirst DEF TakeItem, OnePlace, InList
      <3>2. AtLoop(w) /\ stack[w] = <<>> /\ stack' = [stack EXCEPT ![w] = <<Head(list)>>]
        BY <2>4 DEF TakeItem, AtLoop
      <3>3. <<Head(list)>> # <<>> /\ <<Head(list)>>[1] = Head(list)
        OBVIOUS
      <3>4. Slots' = Slots \cup {Head(list)}
        BY <2>0, <3>2, <3>3 DEF Slots, TypeOK
      <3>5. Cardinality(Slots) < MaxConcurrency
        BY <3>2, SlotFree
      <3>6. Pool!Cardinality(Slots) = Cardinality(Slots)
        BY DEF Pool!Cardinality, Cardinality
      <3> QED
        BY <3>1, <3>4, <3>5, <3>6 DEF Pool!Start, Pool!Become
    <2>5. ASSUME NEW w \in Threads, NEW t \in Tasks, RunInPlace(w, t) \/ WaitInPlace(w, t)
          PROVE  Pool!StartInPlace(t)
      <3>1. /\ phase' = [phase EXCEPT ![t] = "running"]
            /\ stack' = [stack EXCEPT ![w] = Append(stack[w], t)]
        BY <2>5 DEF RunInPlace, WaitInPlace, Push
      <3>2. PICK p \in Tasks : Executes(w, p)
        BY <2>5 DEF RunInPlace, WaitInPlace
      <3>3. phase[p] = "running" /\ stack[w] # <<>>
        BY <2>0, <3>2, Executing
      <3>4. phase[t] \in {"new", "queued"}
        BY <2>0, <2>5 DEF RunInPlace, WaitInPlace, RemoveFirst, InList, OnePlace
      <3>5. stack'[w] # <<>> /\ stack'[w][1] = stack[w][1]
        <4>1. stack[w] \in Seq(Tasks) /\ stack'[w] = Append(stack[w], t) /\ Len(stack[w]) > 0
          BY <2>0, <3>1, <3>3 DEF TypeOK
        <4> QED
          BY <4>1
      <3>6. \A v \in Threads : v # w => stack'[v] = stack[v]
        BY <2>0, <3>1 DEF TypeOK
      <3>7. \A v \in Threads : /\ stack'[v] # <<>> <=> stack[v] # <<>>
                               /\ stack[v] # <<>> => stack'[v][1] = stack[v][1]
        BY <3>3, <3>5, <3>6
      <3>8. Slots' = Slots
        BY <3>7 DEF Slots
      <3> QED
        BY <3>1, <3>3, <3>4, <3>8 DEF Pool!StartInPlace, Pool!Become
    <2>6. ASSUME NEW w \in Threads, NEW t \in Tasks, Executes(w, t),
                 phase' = [phase EXCEPT ![t] = "done"],
                 stack' = [stack EXCEPT ![w] = SubSeq(stack[w], 1, Len(stack[w]) - 1)]
          PROVE  Pool!Finish(t)
      <3> DEFINE n == Len(stack[w])
      <3>1. /\ stack[w] # <<>> /\ t = stack[w][n] /\ n \in 1..n /\ phase[t] = "running"
        BY <2>0, <2>6, Executing
      <3>2. stack[w] \in Seq(Tasks) /\ n \in Nat /\ n > 0 /\ stack'[w] = SubSeq(stack[w], 1, n - 1)
        BY <2>0, <2>6, <3>1 DEF TypeOK
      <3>3. \A v \in Threads : v # w => stack'[v] = stack[v]
        BY <2>0, <2>6 DEF TypeOK
      <3>4. ASSUME NEW v \in Threads, stack[v] # <<>>
            PROVE  1 \in 1..Len(stack[v])
        BY <2>0, <3>4 DEF TypeOK
      <3> HIDE DEF n
      <3>5. ASSUME NEW v \in Threads, stack[v] # <<>>, stack[v][1] = t
            PROVE  v = w /\ n = 1
        <4>1. 1 \in 1..Len(stack[v]) /\ n \in 1..Len(stack[w]) /\ stack[v][1] = stack[w][n]
          BY <3>1, <3>4, <3>5 DEF n
        <4> QED
          BY <2>0, <4>1 DEF OnePlace
      <3>6. CASE n = 1
        <4>1. stack'[w] = <<>> /\ stack[w][1] = t
          BY <3>1, <3>2, <3>6
        <4> QED
          BY <2>6, <3>1, <3>3, <3>5, <4>1 DEF Slots, Pool!Finish, Pool!Become
      <3>7. CASE n # 1
        <4>1. stack'[w] # <<>> /\ stack'[w][1] = stack[w][1]
          <5>0. Len(stack[w]) = n
            BY DEF n
          <5>1. n - 1 \in 1..Len(stack[w]) /\ 1 \in 1..(n - 1)
            BY <3>2, <3>7, <5>0
          <5>2. Len(stack'[w]) = n - 1 /\ stack'[w][1] = stack[w][1]
            BY <3>2, <5>1
          <5> QED
            BY <5>1, <5>2
        <4>2. \A v \in Threads : /\ stack'[v] # <<>> <=> stack[v] # <<>>
                                 /\ stack[v] # <<>> => stack'[v][1] = stack[v][1]
          BY <3>1, <3>3, <4>1
        <4>3. Slots' = Slots /\ t \notin Slots
          BY <3>5, <3>7, <4>2 DEF Slots
        <4> QED
          BY <2>6, <3>1, <4>3 DEF Pool!Finish, Pool!Become
      <3> QED
        BY <3>6, <3>7
    <2>7. ASSUME NEW w \in Threads, Finish(w)
          PROVE  \E t \in Tasks : Pool!Finish(t)
      BY <2>6, <2>7 DEF Finish
    <2>8. ASSUME UNCHANGED <<stack, phase>>
          PROVE  UNCHANGED Pool!vars
      BY <2>1, <2>8
    <2>9. ASSUME NEW w \in Threads, StartDelegate(w) \/ Leave(w) \/ Resume(w)
          PROVE  UNCHANGED Pool!vars
      BY <2>8, <2>9 DEF StartDelegate, Leave, Resume, runVars
    <2>10. ASSUME NEW w \in Threads, NEW t \in Tasks, WaitBlocked(w, t)
           PROVE  UNCHANGED Pool!vars
      BY <2>8, <2>10 DEF WaitBlocked
    <2>11. CASE UNCHANGED vars
      BY <2>8, <2>11 DEF vars
    <2> QED
      BY <2>2, <2>3, <2>4, <2>5, <2>7, <2>9, <2>10, <2>11 DEF Next, Pool!Next
  <1> QED
    BY <1>1, <1>2, Invariant, PTL DEF Spec, ImplementsLimitedPool, Pool!Spec

-----------------------------------------------------------------------------
(* NeverLocked *)

\* Tasks can be numbered so that each has a greater number than the one that
\* created it: no task waits, through others, for itself.  (The numbers have no
\* bound that is known beforehand, so TLC cannot look for them.)
Numbered(rank, n) ==
    /\ rank \in [Tasks -> 0..n]
    /\ \A t \in Tasks : owner[t] # NoTask => rank[owner[t]] < rank[t]

OwnersOrdered == \E n \in Nat : \E rank \in [Tasks -> 0..n] : Numbered(rank, n)

\* A task that was just created may have a number greater than all others.
LEMMA OrderedCreate ==
  ASSUME TypeOK, CreatedByRunning, OwnersOrdered, NEW t \in Tasks, NEW p \in Tasks \cup {NoTask},
         phase[t] = "new", p # t, owner' = [owner EXCEPT ![t] = p]
  PROVE  OwnersOrdered'
  <1>0. PICK n \in Nat : \E rank \in [Tasks -> 0..n] : Numbered(rank, n)
    BY DEF OwnersOrdered
  <1>1. PICK rank \in [Tasks -> 0..n] : Numbered(rank, n)
    BY <1>0
  <1> DEFINE more == [rank EXCEPT ![t] = n + 1]
  <1>2. more \in [Tasks -> 0..(n + 1)]
    BY <1>1
  <1>3. ASSUME NEW u \in Tasks, owner'[u] # NoTask
        PROVE  more[owner'[u]] < more[u]
    <2>1. CASE u = t
      <3>1. owner'[u] = p /\ p \in Tasks /\ more[p] \in 0..n /\ more[u] = n + 1
        BY <1>1, <1>3, <2>1 DEF TypeOK
      <3> QED
        BY <1>1, <3>1
    <2>2. CASE u # t
      <3>1. owner'[u] = owner[u] /\ owner[u] # NoTask /\ owner[u] \in Tasks
        BY <1>3, <2>2 DEF TypeOK
      <3>2. owner[u] # t
        BY <3>1 DEF CreatedByRunning
      <3>3. more[owner[u]] = rank[owner[u]] /\ more[u] = rank[u]
        BY <1>1, <2>2, <3>1, <3>2
      <3> QED
        BY <1>1, <3>1, <3>3 DEF Numbered
    <2> QED
      BY <2>1, <2>2
  <1> HIDE DEF more
  <1>4. n + 1 \in Nat
    BY <1>1
  <1> QED
    BY <1>2, <1>3, <1>4 DEF OwnersOrdered, Numbered

Waits == WaitInv /\ OwnersOrdered

\* Phases only go onward, and no task gets another owner.
LEMMA CreatedOnward ==
  ASSUME TypeOK, CreatedByRunning, OwnersOrdered, owner' = owner,
         \A t \in Tasks : \/ phase'[t] = phase[t]
                          \/ phase[t] = "queued" /\ phase'[t] = "running"
                          \/ phase'[t] = "done"
  PROVE  CreatedByRunning' /\ OwnersOrdered'
  <1>1. OwnersOrdered'
    BY DEF OwnersOrdered, Numbered
  <1>2. ASSUME NEW t \in Tasks, owner'[t] # NoTask
        PROVE  phase'[t] # "new" /\ phase'[owner'[t]] \in {"running", "done"}
    <2>1. owner[t] \in Tasks /\ phase[t] # "new" /\ phase[owner[t]] \in {"running", "done"}
      BY <1>2 DEF TypeOK, CreatedByRunning
    <2> QED
      BY <2>1
  <1> QED
    BY <1>1, <1>2 DEF CreatedByRunning

\* A task is created by p, which runs, or by a client.
LEMMA CreatedOneMore ==
  ASSUME TypeOK, CreatedByRunning, OwnersOrdered, NEW t \in Tasks, NEW p \in Tasks \cup {NoTask},
         NEW q \in {"queued", "running"},
         phase[t] = "new", p = NoTask \/ phase[p] = "running",
         owner' = [owner EXCEPT ![t] = p], phase' = [phase EXCEPT ![t] = q]
  PROVE  CreatedByRunning' /\ OwnersOrdered'
  <1>0. p # t
    OBVIOUS
  <1>1. OwnersOrdered'
    BY <1>0, OrderedCreate
  <1>2. ASSUME NEW u \in Tasks, owner'[u] # NoTask
        PROVE  phase'[u] # "new" /\ phase'[owner'[u]] \in {"running", "done"}
    <2>1. CASE u = t
      BY <1>0, <1>2, <2>1 DEF TypeOK
    <2>2. CASE u # t
      <3>1. owner'[u] = owner[u] /\ owner[u] \in Tasks
        BY <1>2, <2>2 DEF TypeOK
      <3>2. phase[u] # "new" /\ phase[owner[u]] \in {"running", "done"} /\ owner[u] # t
        BY <1>2, <3>1 DEF CreatedByRunning
      <3> QED
        BY <2>2, <3>1, <3>2 DEF TypeOK
    <2> QED
      BY <2>1, <2>2
  <1> QED
    BY <1>1, <1>2 DEF CreatedByRunning

\* The tasks of a stack run.
LEMMA StacksRun ==
  ASSUME Shape
  PROVE  \A w \in Threads : \A i \in 1..Len(stack[w]) :
             stack[w][i] \in Tasks /\ phase[stack[w][i]] = "running"
  <1>1. \A w \in Threads : \A i \in 1..Len(stack[w]) : stack[w][i] \in Tasks
    BY DEF Shape, TypeOK
  <1> QED
    BY <1>1 DEF Shape, OnePlace, OnStack

\* No stack changes, nor the owner of a task that was begun.
LEMMA LinksStay ==
  ASSUME Shape, Waits, stack' = stack, awaits' = awaits,
         \A u \in Tasks : phase[u] \in {"running", "done"} =>
             phase'[u] \in {"running", "done"} /\ owner'[u] = owner[u]
  PROVE  StackLinked' /\ WaitsForItsOwn'
  <1>1. ASSUME NEW w \in Threads, NEW i \in 1..(Len(stack[w]) - 1)
        PROVE  owner'[stack[w][i + 1]] = stack[w][i]
    <2>1. Len(stack[w]) \in Nat /\ i + 1 \in 1..Len(stack[w])
      BY DEF Shape, TypeOK
    <2>2. stack[w][i + 1] \in Tasks /\ phase[stack[w][i + 1]] = "running"
      BY <2>1, StacksRun
    <2> QED
      BY <2>2 DEF Waits, WaitInv, StackLinked
  <1>2. ASSUME NEW w \in Threads, awaits[w] # NoTask
        PROVE  /\ owner'[awaits[w]] = owner[awaits[w]]
               /\ phase'[awaits[w]] \in {"running", "done"}
    BY <1>2 DEF Shape, TypeOK, Waits, WaitInv, WaitsForItsOwn
  <1> QED
    BY <1>1, <1>2 DEF Waits, WaitInv, StackLinked, WaitsForItsOwn

\* The executing task of w puts on top a task it created.
LEMMA LinksPush ==
  ASSUME Shape, Waits, NEW w \in Threads, NEW t \in Tasks, NEW p \in Tasks,
         Executes(w, p), owner'[t] = p, Push(w, t), awaits' = awaits,
         phase[t] \in {"new", "queued"},
         \A u \in Tasks \ {t} : owner'[u] = owner[u]
  PROVE  StackLinked' /\ WaitsForItsOwn'
  <1>0. /\ stack[w] \in Seq(Tasks) /\ Len(stack[w]) \in Nat \ {0}
        /\ stack'[w] = Append(stack[w], t) /\ Len(stack'[w]) = Len(stack[w]) + 1
        /\ \A i \in 1..Len(stack[w]) : stack'[w][i] = stack[w][i]
        /\ stack'[w][Len(stack[w]) + 1] = t
        /\ p = stack[w][Len(stack[w])] /\ awaits[w] = NoTask
        /\ \A v \in Threads : v # w => stack'[v] = stack[v]
        /\ \A u \in Tasks : u # t => phase'[u] = phase[u]
    BY DEF Shape, TypeOK, Push, Executes
  <1>1. ASSUME NEW v \in Threads, NEW i \in 1..(Len(stack[v]) - 1)
        PROVE  owner'[stack[v][i + 1]] = stack[v][i]
    <2>1. Len(stack[v]) \in Nat /\ i + 1 \in 1..Len(stack[v])
      BY DEF Shape, TypeOK
    <2>2. stack[v][i + 1] \in Tasks /\ phase[stack[v][i + 1]] = "running"
      BY <2>1, StacksRun
    <2> QED
      BY <2>2 DEF Waits, WaitInv, StackLinked
  <1>2. ASSUME NEW v \in Threads, NEW i \in 1..(Len(stack'[v]) - 1)
        PROVE  owner'[stack'[v][i + 1]] = stack'[v][i]
    <2>1. CASE v # w
      BY <1>0, <1>1, <2>1
    <2>2. CASE v = w /\ i = Len(stack[w])
      BY <1>0, <2>2
    <2>3. CASE v = w /\ i # Len(stack[w])
      <3>1. i \in 1..(Len(stack[w]) - 1) /\ i + 1 \in 1..Len(stack[w]) /\ i \in 1..Len(stack[w])
        BY <1>0, <2>3
      <3>2. owner'[stack[w][i + 1]] = stack[w][i]
        BY <1>1, <3>1
      <3> QED
        BY <1>0, <2>3, <3>1, <3>2
    <2> QED
      BY <2>1, <2>2, <2>3
  <1>3. ASSUME NEW v \in Threads, awaits[v] # NoTask
        PROVE  /\ v # w /\ owner'[awaits[v]] = owner[awaits[v]]
               /\ phase'[awaits[v]] \in {"running", "done"}
    <2>1. awaits[v] \in Tasks /\ phase[awaits[v]] \in {"running", "done"} /\ awaits[v] # t
      BY <1>3 DEF Shape, TypeOK, Waits, WaitInv, WaitsForItsOwn
    <2> QED
      BY <1>0, <1>3, <2>1
  <1> QED
    BY <1>0, <1>2, <1>3 DEF Waits, WaitInv, StackLinked, WaitsForItsOwn

LEMMA WithoutLast ==
  ASSUME NEW S, NEW s \in Seq(S), s # <<>>
  PROVE  /\ Len(s) \in Nat \ {0} /\ Len(SubSeq(s, 1, Len(s) - 1)) = Len(s) - 1
         /\ \A i \in 1..(Len(s) - 1) : SubSeq(s, 1, Len(s) - 1)[i] = s[i]
  <1>1. Len(s) \in Nat \ {0}
    OBVIOUS
  <1>2. ASSUME NEW n \in Nat, n <= Len(s)
        PROVE  /\ Len(SubSeq(s, 1, n)) = n
               /\ \A i \in 1..n : SubSeq(s, 1, n)[i] = s[i]
    BY <1>2
  <1>3. Len(s) - 1 \in Nat /\ Len(s) - 1 <= Len(s)
    BY <1>1
  <1> QED
    BY <1>1, <1>2, <1>3

\* The task on top of w ends.
LEMMA LinksPop ==
  ASSUME Shape, Waits, NEW w \in Threads, NEW t \in Tasks, Executes(w, t),
         phase' = [phase EXCEPT ![t] = "done"],
         stack' = [stack EXCEPT ![w] = SubSeq(stack[w], 1, Len(stack[w]) - 1)],
         owner' = owner, awaits' = awaits
  PROVE  StackLinked' /\ WaitsForItsOwn'
  <1>0. /\ stack[w] \in Seq(Tasks) /\ Len(stack[w]) \in Nat \ {0} /\ awaits[w] = NoTask
        /\ stack'[w] = SubSeq(stack[w], 1, Len(stack[w]) - 1)
        /\ Len(stack'[w]) = Len(stack[w]) - 1
        /\ \A i \in 1..(Len(stack[w]) - 1) : stack'[w][i] = stack[w][i]
        /\ \A v \in Threads : v # w => stack'[v] = stack[v]
        /\ \A u \in Tasks : phase'[u] = phase[u] \/ phase'[u] = "done"
    <2>1. /\ stack \in [Threads -> Seq(Tasks)] /\ stack[w] \in Seq(Tasks)
          /\ stack[w] # <<>> /\ awaits[w] = NoTask
          /\ \A u \in Tasks : phase'[u] = phase[u] \/ phase'[u] = "done"
      BY DEF Shape, TypeOK, Executes
    <2>2. /\ stack'[w] = SubSeq(stack[w], 1, Len(stack[w]) - 1)
          /\ \A v \in Threads : v # w => stack'[v] = stack[v]
      BY <2>1
    <2> QED
      BY <2>1, <2>2, WithoutLast
  <1>1. ASSUME NEW v \in Threads, NEW i \in 1..(Len(stack'[v]) - 1)
        PROVE  owner[stack'[v][i + 1]] = stack'[v][i]
    <2>1. CASE v # w
      BY <1>0, <2>1 DEF Waits, WaitInv, StackLinked
    <2>2. CASE v = w
      <3>1. /\ i \in 1..(Len(stack[w]) - 1) /\ i + 1 \in 1..(Len(stack[w]) - 1)
        BY <1>0, <2>2
      <3> QED
        BY <1>0, <2>2, <3>1 DEF Waits, WaitInv, StackLinked
    <2> QED
      BY <2>1, <2>2
  <1>2. ASSUME NEW v \in Threads, awaits[v] # NoTask
        PROVE  v # w /\ awaits[v] \in Tasks /\ phase'[awaits[v]] \in {"running", "done"}
    BY <1>0, <1>2 DEF Shape, TypeOK, Waits, WaitInv, WaitsForItsOwn
  <1>3. StackLinked'
    BY <1>1 DEF StackLinked
  <1>4. WaitsForItsOwn'
    <2> SUFFICES ASSUME NEW v \in Threads, awaits[v] # NoTask
                 PROVE  /\ stack'[v] # <<>> /\ owner[awaits[v]] = stack'[v][Len(stack'[v])]
                        /\ phase'[awaits[v]] \in {"running", "done"}
      BY DEF WaitsForItsOwn
    <2>1. stack[v] # <<>> /\ owner[awaits[v]] = stack[v][Len(stack[v])]
      BY DEF Waits, WaitInv, WaitsForItsOwn
    <2> QED
      BY <1>0, <1>2, <2>1
  <1> QED
    BY <1>3, <1>4

\* A delegate between two items takes the first of the list.
LEMMA LinksTake ==
  ASSUME Shape, Waits, NEW w \in Threads, NEW t \in Tasks, stack[w] = <<>>,
         phase[t] = "queued", phase' = [phase EXCEPT ![t] = "running"],
         stack' = [stack EXCEPT ![w] = <<t>>], owner' = owner, awaits' = awaits
  PROVE  StackLinked' /\ WaitsForItsOwn'
  <1>0. /\ stack'[w] = <<t>> /\ Len(stack'[w]) = 1 /\ awaits[w] = NoTask
        /\ \A v \in Threads : v # w => stack'[v] = stack[v]
    BY DEF Shape, TypeOK, Waits, WaitInv, WaitsForItsOwn
  <1>1. StackLinked'
    BY <1>0 DEF Waits, WaitInv, StackLinked
  <1>2. ASSUME NEW v \in Threads, awaits[v] # NoTask
        PROVE  v # w /\ awaits[v] \in Tasks /\ phase'[awaits[v]] \in {"running", "done"}
    BY <1>0, <1>2 DEF Shape, TypeOK, Waits, WaitInv, WaitsForItsOwn
  <1> QED
    BY <1>0, <1>1, <1>2 DEF Waits, WaitInv, WaitsForItsOwn

LEMMA StepWaits ==
  ASSUME Shape, Shape', Waits, [Next]_vars
  PROVE  Waits'
  <1> USE DEF Waits, WaitInv
  <1>0. TypeOK /\ OnePlace
    BY DEF Shape
  <1>1. ASSUME NEW t \in Tasks, NEW p \in Tasks \cup {NoTask}, QueueTask(t, p),
               UNCHANGED <<stack, awaits>>, p = NoTask \/ phase[p] = "running"
        PROVE  Waits'
    <2>1. CreatedByRunning' /\ OwnersOrdered'
      BY <1>0, <1>1, CreatedOneMore DEF QueueTask
    <2>2. \A u \in Tasks : phase[u] \in {"running", "done"} =>
              phase'[u] \in {"running", "done"} /\ owner'[u] = owner[u]
      BY <1>0, <1>1 DEF QueueTask, TypeOK
    <2> QED
      BY <1>1, <2>1, <2>2, LinksStay
  <1>2. ASSUME NEW t \in Tasks, Submit(t)
        PROVE  Waits'
    BY <1>1, <1>2 DEF Submit, runVars
  <1>3. ASSUME NEW w \in Threads, NEW t \in Tasks, Spawn(w, t)
        PROVE  Waits'
    <2>1. PICK p \in Tasks : Executes(w, p) /\ QueueTask(t, p)
      BY <1>3 DEF Spawn
    <2>2. phase[p] = "running"
      BY <1>0, <2>1, Executing
    <2> QED
      BY <1>1, <1>3, <2>1, <2>2 DEF Spawn, runVars
  <1>4. ASSUME UNCHANGED <<stack, awaits, phase, owner>>
        PROVE  Waits'
    <2>1. CreatedByRunning' /\ OwnersOrdered'
      BY <1>0, <1>4, CreatedOnward
    <2> QED
      BY <1>4, <2>1, LinksStay
  <1>5. ASSUME NEW w \in Threads, StartDelegate(w) \/ Leave(w)
        PROVE  Waits'
    BY <1>4, <1>5 DEF StartDelegate, Leave, runVars
  <1>6. ASSUME NEW w \in Threads, TakeItem(w)
        PROVE  Waits'
    <2>1. Head(list) \in Tasks /\ phase[Head(list)] = "queued"
      BY <1>0, <1>6, TakesFirst DEF TakeItem, OnePlace, InList
    <2>2. /\ stack[w] = <<>> /\ stack' = [stack EXCEPT ![w] = <<Head(list)>>]
          /\ phase' = [phase EXCEPT ![Head(list)] = "running"]
          /\ owner' = owner /\ awaits' = awaits
      BY <1>6 DEF TakeItem, AtLoop
    <2>3. CreatedByRunning' /\ OwnersOrdered'
      BY <1>0, <2>1, <2>2, CreatedOnward DEF TypeOK
    <2> QED
      BY <2>1, <2>2, <2>3, LinksTake
  <1>7. ASSUME NEW w \in Threads, Finish(w)
        PROVE  Waits'
    <2>1. PICK t \in Tasks :
              /\ Executes(w, t) /\ phase' = [phase EXCEPT ![t] = "done"]
              /\ stack' = [stack EXCEPT ![w] = SubSeq(stack[w], 1, Len(stack[w]) - 1)]
              /\ owner' = owner /\ awaits' = awaits
      BY <1>7 DEF Finish
    <2>2. CreatedByRunning' /\ OwnersOrdered'
      BY <1>0, <2>1, CreatedOnward DEF TypeOK
    <2> QED
      BY <2>1, <2>2, LinksPop
  <1>8. ASSUME NEW w \in Threads, NEW t \in Tasks, RunInPlace(w, t)
        PROVE  Waits'
    <2>1. PICK p \in Tasks : Executes(w, p) /\ owner' = [owner EXCEPT ![t] = p]
      BY <1>8 DEF RunInPlace
    <2>2. /\ phase[t] = "new" /\ phase' = [phase EXCEPT ![t] = "running"]
          /\ Push(w, t) /\ awaits' = awaits
      BY <1>8 DEF RunInPlace, Push
    <2>3. phase[p] = "running"
      BY <1>0, <2>1, Executing
    <2>4. CreatedByRunning' /\ OwnersOrdered'
      BY <1>0, <2>1, <2>2, <2>3, CreatedOneMore
    <2>5. owner'[t] = p /\ \A u \in Tasks \ {t} : owner'[u] = owner[u]
      BY <1>0, <2>1 DEF TypeOK
    <2> QED
      BY <2>1, <2>2, <2>4, <2>5, LinksPush
  <1>9. ASSUME NEW w \in Threads, NEW t \in Tasks, WaitInPlace(w, t)
        PROVE  Waits'
    <2>1. PICK p \in Tasks : Executes(w, p) /\ owner[t] = p
      BY <1>9 DEF WaitInPlace
    <2>2. /\ phase[t] = "queued" /\ phase' = [phase EXCEPT ![t] = "running"]
          /\ Push(w, t) /\ awaits' = awaits /\ owner' = owner
      BY <1>0, <1>9 DEF WaitInPlace, RemoveFirst, InList, OnePlace, Push
    <2>3. CreatedByRunning' /\ OwnersOrdered'
      BY <1>0, <2>2, CreatedOnward DEF TypeOK
    <2> QED
      BY <2>1, <2>2, <2>3, LinksPush
  <1>10. ASSUME NEW w \in Threads, NEW t \in Tasks, WaitBlocked(w, t)
         PROVE  Waits'
    <2>1. PICK p \in Tasks : Executes(w, p) /\ owner[t] = p
      BY <1>10 DEF WaitBlocked
    <2>2. /\ phase[t] = "running" /\ awaits' = [awaits EXCEPT ![w] = t]
          /\ stack' = stack /\ phase' = phase /\ owner' = owner
      BY <1>10 DEF WaitBlocked
    <2>3. CreatedByRunning' /\ OwnersOrdered' /\ StackLinked'
      BY <1>0, <2>2, CreatedOnward DEF StackLinked
    <2>4. stack[w] # <<>> /\ owner[t] = stack[w][Len(stack[w])]
      BY <2>1 DEF Executes
    <2>5. WaitsForItsOwn'
      BY <1>0, <2>2, <2>4 DEF WaitsForItsOwn, TypeOK
    <2> QED
      BY <2>3, <2>5
  <1>11. ASSUME NEW w \in Threads, Resume(w)
         PROVE  Waits'
    <2>1. /\ awaits' = [awaits EXCEPT ![w] = NoTask]
          /\ stack' = stack /\ phase' = phase /\ owner' = owner
      BY <1>11 DEF Resume
    <2>2. CreatedByRunning' /\ OwnersOrdered' /\ StackLinked'
      BY <1>0, <2>1, CreatedOnward DEF StackLinked
    <2>3. WaitsForItsOwn'
      BY <1>0, <2>1 DEF WaitsForItsOwn, TypeOK
    <2> QED
      BY <2>2, <2>3
  <1>12. CASE UNCHANGED vars
    BY <1>4, <1>12 DEF vars
  <1> QED
    BY <1>2, <1>3, <1>5, <1>6, <1>7, <1>8, <1>9, <1>10, <1>11, <1>12 DEF Next

\* What is known of the tasks that wait, in every state.
LEMMA WaitsInvariant == Spec => []Waits
  <1>1. Init => Waits
    <2> SUFFICES ASSUME Init
                 PROVE  Waits
      OBVIOUS
    <2>1. Numbered([t \in Tasks |-> 0], 0)
      BY DEF Init, Numbered
    <2>2. [t \in Tasks |-> 0] \in [Tasks -> 0..0] /\ 0 \in Nat
      OBVIOUS
    <2>3. OwnersOrdered
      BY <2>1, <2>2 DEF OwnersOrdered
    <2> QED
      BY <2>3 DEF Init, Waits, WaitInv, CreatedByRunning, StackLinked, WaitsForItsOwn
  <1>2. IInv /\ IInv' /\ Waits /\ [Next]_vars => Waits'
    BY StepWaits DEF IInv, Shape
  <1> QED
    BY <1>1, <1>2, Invariant, PTL DEF Spec

\* Numbers below a bound have a greatest one among them.
LEMMA Greatest ==
  ASSUME NEW S, S # {}, NEW n \in Nat, NEW f \in [S -> 0..n]
  PROVE  \E x \in S : \A y \in S : f[y] <= f[x]
  <1> DEFINE gaps == {n - f[x] : x \in S}
  <1>1. gaps \subseteq Nat /\ gaps # {}
    OBVIOUS
  <1> HIDE DEF gaps
  <1>2. PICK g \in gaps : \A h \in gaps : <<h, g>> \notin OpToRel(<, Nat)
    BY <1>1, NatLessThanWellFounded, WFMin
  <1>3. ASSUME NEW h \in gaps
        PROVE  ~(h < g)
    BY <1>1, <1>2, Zenon DEF OpToRel
  <1>4. PICK x \in S : g = n - f[x]
    BY DEF gaps
  <1>5. ASSUME NEW y \in S
        PROVE  f[y] <= f[x]
    <2>1. n - f[y] \in gaps
      BY DEF gaps
    <2>2. ~(n - f[y] < n - f[x])
      BY <1>3, <1>4, <2>1
    <2> QED
      BY <2>2
  <1> QED
    BY <1>5

\* Of the tasks of a stack, the last has the greatest number.
LEMMA TopIsGreatest ==
  ASSUME Shape, StackLinked, NEW n \in Nat, NEW rank \in [Tasks -> 0..n], Numbered(rank, n),
         NEW w \in Threads, NEW i \in 1..Len(stack[w])
  PROVE  rank[stack[w][i]] <= rank[stack[w][Len(stack[w])]]
  <1> DEFINE k == Len(stack[w])
             f == [j \in 1..k |-> rank[stack[w][j]]]
  <1>1. k \in Nat /\ \A j \in 1..k : stack[w][j] \in Tasks
    BY DEF Shape, TypeOK
  <1>2. f \in [1..k -> 0..n] /\ 1..k # {}
    BY <1>1
  <1> HIDE DEF f
  <1>3. PICK x \in 1..k : \A y \in 1..k : f[y] <= f[x]
    BY <1>2, Greatest
  <1>4. x = k
    <2>1. SUFFICES ASSUME x # k
                   PROVE  FALSE
      OBVIOUS
    <2>2. x \in 1..(k - 1) /\ x + 1 \in 1..k
      BY <1>1, <2>1
    <2>3. owner[stack[w][x + 1]] = stack[w][x]
      BY <2>2 DEF StackLinked
    <2>4. rank[stack[w][x]] < rank[stack[w][x + 1]]
      BY <1>1, <2>2, <2>3 DEF Numbered
    <2>5. f[x + 1] <= f[x]
      BY <1>3, <2>2
    <2> QED
      BY <1>1, <2>2, <2>4, <2>5 DEF f
  <1>5. f[i] <= f[k]
    BY <1>3, <1>4
  <1> QED
    BY <1>1, <1>5 DEF f

\* Of the threads with tasks on them, the one whose last task has the greatest
\* number goes on: what it waits for could only run under a greater one.
LEMMA BusyGoesOn ==
  ASSUME Shape, Waits, Busy # {}
  PROVE  \E w \in Threads : CanGoOn(w)
  <1>1. PICK n \in Nat : \E rank \in [Tasks -> 0..n] : Numbered(rank, n)
    BY DEF Waits, OwnersOrdered
  <1>2. PICK rank \in [Tasks -> 0..n] : Numbered(rank, n)
    BY <1>1
  <1> DEFINE top(w) == stack[w][Len(stack[w])]
             f == [w \in Busy |-> rank[top(w)]]
  <1>3. ASSUME NEW w \in Busy
        PROVE  w \in Threads /\ top(w) \in Tasks
    BY DEF Busy, Shape, TypeOK
  <1>4. f \in [Busy -> 0..n]
    BY <1>3
  <1> HIDE DEF f
  <1>5. PICK w \in Busy : \A v \in Busy : f[v] <= f[w]
    BY <1>4, Greatest
  <1>6. w \in Threads /\ stack[w] # <<>>
    BY DEF Busy
  <1>7. SUFFICES ASSUME awaits[w] # NoTask, phase[awaits[w]] # "done"
                 PROVE  FALSE
    BY <1>6 DEF CanGoOn
  <1>8. /\ awaits[w] \in Tasks /\ owner[awaits[w]] = top(w)
        /\ phase[awaits[w]] = "running"
    BY <1>6, <1>7 DEF Shape, TypeOK, Waits, WaitInv, WaitsForItsOwn
  <1>9. PICK v \in Threads : \E i \in 1..Len(stack[v]) : stack[v][i] = awaits[w]
    BY <1>8 DEF Shape, OnePlace, OnStack
  <1>10. PICK i \in 1..Len(stack[v]) : stack[v][i] = awaits[w]
    BY <1>9
  <1>11. v \in Busy
    BY <1>10 DEF Busy, Shape, TypeOK
  <1>12. rank[top(w)] < rank[awaits[w]]
    BY <1>2, <1>3, <1>8 DEF Numbered
  <1>13. rank[awaits[w]] <= rank[top(v)]
    BY <1>2, <1>10, TopIsGreatest DEF Waits, WaitInv
  <1>14. rank[top(v)] <= rank[top(w)]
    BY <1>5, <1>11 DEF f
  <1>15. rank[top(w)] \in Nat /\ rank[top(v)] \in Nat /\ rank[awaits[w]] \in Nat
    BY <1>3, <1>8, <1>11
  <1> QED
    BY <1>12, <1>13, <1>14, <1>15

\* No thread has a task: one that is in the list has a delegate, which is
\* between two items or finds a thread.
LEMMA IdleGoesOn ==
  ASSUME Shape, CountIsExact, NoLostWakeup, Busy = {}, NEW t \in Tasks,
         phase[t] \in {"queued", "running"}
  PROVE  \E w \in Threads : CanGoOn(w)
  <1>1. \A w \in Threads : stack[w] = <<>>
    BY DEF Busy
  <1>2. list # <<>>
    <2>1. ~OnStack(t)
      BY <1>1 DEF OnStack
    <2>2. InList(t)
      BY <2>1 DEF Shape, OnePlace
    <2> QED
      BY <2>2 DEF InList
  <1>3. CASE Live # {}
    BY <1>1, <1>3 DEF Live, CanGoOn, AtLoop
  <1>4. CASE Live = {}
    <2>1. Cardinality(Live) = 0
      BY <1>4, FS_EmptySet
    <2>2. pending > 0
      BY <1>2, <2>1 DEF Shape, TypeOK, CountIsExact, NoLostWakeup
    <2> QED
      BY <1>4, <2>2 DEF Live, CanGoOn
  <1> QED
    BY <1>3, <1>4

\* The pool never locks (NeverLocked): however tasks create tasks and wait for
\* them, in place or blocking their threads, while one is queued or running some
\* thread has something to do, whatever the number of threads and the level.
THEOREM NeverLockedCorrect == Spec => []NeverLocked
  <1>1. IInv /\ Waits => NeverLocked
    BY BusyGoesOn, IdleGoesOn DEF IInv, Shape, NeverLocked
  <1> QED
    BY <1>1, Invariant, WaitsInvariant, PTL
=============================================================================
