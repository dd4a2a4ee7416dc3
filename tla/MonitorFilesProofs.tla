------------------------- MODULE MonitorFilesProofs -------------------------
(***************************************************************************)
(* The safety of a monitoring workflow, for any paths and any number of    *)
(* executions.  HandledInv says of every path that is off the field, or    *)
(* off a copy of the field, that a thread of its own took it off; QuietInv *)
(* says what one more assumption, that no two threads were between their   *)
(* read and their write at once, adds to it.                               *)
(***************************************************************************)
EXTENDS MonitorFiles, TLAPS

\* A thread watches one of the paths.
LEMMA ThreadPath == \A t \in Threads : t[2] \in Paths
  BY DEF Threads

\* No thread that has taken its path off goes back.
ThreadsGoOn == \A t \in Threads : pc[t] \in Off => pc'[t] \in Off

\* What a thread has taken off stays off when no thread goes back.
LEMMA HandledStays ==
  ASSUME ThreadsGoOn
  PROVE  \A p \in Paths : Handled(p) => Handled(p)'
  BY DEF ThreadsGoOn, Handled

-----------------------------------------------------------------------------
(* Types *)

LEMMA InitType == Init => TypeOK
  <1> SUFFICES ASSUME Init PROVE TypeOK
    OBVIOUS
  <1> USE DEF Init
  <1>1. session \in {"null", "down", "up"}
    <2>1. CASE remote
      BY <2>1
    <2>2. CASE ~remote
      BY <2>2
    <2> QED
      BY <2>1, <2>2
  <1>2. executions \in 0..MaxExecutions
    BY ExecutionsAssumption
  <1>3. pc \in [Threads -> PCs] /\ local \in [Threads -> SUBSET Paths]
    BY DEF PCs
  <1>4. remote \in BOOLEAN /\ call = "idle"
    BY Zenon
  <1> QED
    BY <1>1, <1>2, <1>3, <1>4 DEF TypeOK, Calls

LEMMA StepType == TypeOK /\ [Next]_vars => TypeOK'
  <1> SUFFICES ASSUME TypeOK, [Next]_vars
               PROVE  TypeOK'
    OBVIOUS
  <1> USE DEF TypeOK, Calls, PCs, fieldVars, callVars, envVars
  <1>1. CASE ExecuteLocal
    BY <1>1, ExecutionsAssumption DEF ExecuteLocal, CanExecute
  <1>2. CASE ExecuteRemote
    BY <1>2, ExecutionsAssumption DEF ExecuteRemote, CanExecute
  <1>3. CASE Connect
    BY <1>3 DEF Connect
  <1>4. CASE MonitorReturns
    BY <1>4 DEF MonitorReturns
  <1>5. ASSUME NEW p \in Paths, StartThread(p)
        PROVE  TypeOK'
    BY <1>5 DEF StartThread, Visiting
  <1>6. ASSUME NEW p \in Paths, SkipPath(p)
        PROVE  TypeOK'
    BY <1>6 DEF SkipPath, Visiting
  <1>7. ASSUME NEW p \in Paths, GiveUp(p)
        PROVE  TypeOK'
    BY <1>7 DEF GiveUp, Visiting
  <1>8. ASSUME NEW t \in Threads, FindFile(t) \/ PollThrows(t)
        PROVE  TypeOK'
    BY <1>8 DEF FindFile, PollThrows, At, Become
  <1>9. ASSUME NEW t \in Threads, ReadPaths(t)
        PROVE  TypeOK'
    BY <1>9 DEF ReadPaths, At, Become, Reading
  <1>10. ASSUME NEW t \in Threads, WritePaths(t)
         PROVE  TypeOK'
    BY <1>10 DEF WritePaths, At, Become
  <1>11. ASSUME NEW t \in Threads, CountPaths(t)
         PROVE  TypeOK'
    BY <1>11 DEF CountPaths, At, Become
  <1>12. CASE EnvStep
    BY <1>12 DEF EnvStep, SessionDrops, MakeDirectory, FileArrives, FileLeaves
  <1>13. CASE UNCHANGED vars
    BY <1>13 DEF vars
  <1> QED
    BY <1>1, <1>2, <1>3, <1>4, <1>5, <1>6, <1>7, <1>8, <1>9, <1>10, <1>11, <1>12, <1>13
    DEF Next, CallStep, ThreadStep

\* The state always has its declared shape (the fields of the two workflows).
THEOREM TypeCorrect == Spec => []TypeOK
  <1>1. Init => TypeOK
    BY InitType
  <1>2. TypeOK /\ [Next]_vars => TypeOK'
    BY StepType
  <1> QED
    BY <1>1, <1>2, PTL DEF Spec

-----------------------------------------------------------------------------
(* FreshInv *)

LEMMA InitFresh == Init => FreshInv
  BY DEF Init, FreshInv

LEMMA StepFresh == TypeOK /\ FreshInv /\ [Next]_vars => FreshInv'
  <1> SUFFICES ASSUME TypeOK, FreshInv, [Next]_vars
               PROVE  FreshInv'
    OBVIOUS
  <1> USE DEF FreshInv
  <1>0. /\ executions \in Nat
        /\ pc \in [Threads -> PCs]
        /\ \A t \in Threads : t = <<t[1], t[2]>> /\ t[1] \in Nat /\ t[2] \in Paths
    BY ExecutionsAssumption DEF TypeOK, Threads
  <1>1. ASSUME CanExecute, UNCHANGED pc
        PROVE  FreshInv'
    BY <1>0, <1>1 DEF CanExecute
  <1>2. CASE Connect
    BY <1>0, <1>2 DEF Connect
  <1>3. CASE MonitorReturns
    BY <1>0, <1>3 DEF MonitorReturns
  <1>4. ASSUME NEW p \in Paths, StartThread(p)
        PROVE  FreshInv'
    <2>1. /\ UNCHANGED <<call, executions>>
          /\ call = "monitoring"
          /\ todo' = todo \ {p}
      BY <1>4 DEF StartThread, Visiting
    <2>2. \A t \in Threads : t # <<executions, p>> => pc'[t] = pc[t]
      BY <1>0, <1>4 DEF StartThread
    <2>3. ASSUME NEW t \in Threads, t = <<executions, p>>
          PROVE  /\ ~(t[1] > executions')
                 /\ t[2] \notin todo'
      BY <1>0, <2>1, <2>3
    <2> QED
      BY <1>0, <2>1, <2>2, <2>3
  <1>5. ASSUME NEW p \in Paths, SkipPath(p) \/ GiveUp(p)
        PROVE  FreshInv'
    BY <1>0, <1>5 DEF SkipPath, GiveUp, Visiting
  <1>6. ASSUME NEW t \in Threads, pc[t] # "none", UNCHANGED <<call, executions, todo>>,
               \A u \in Threads : u # t => pc'[u] = pc[u]
        PROVE  FreshInv'
    BY <1>0, <1>6
  <1>7. ASSUME NEW t \in Threads,
               FindFile(t) \/ PollThrows(t) \/ ReadPaths(t) \/ WritePaths(t) \/ CountPaths(t)
        PROVE  FreshInv'
    <2>1. pc[t] # "none" /\ UNCHANGED <<call, executions, todo>>
      BY <1>7 DEF FindFile, PollThrows, ReadPaths, WritePaths, CountPaths, At, callVars
    <2>2. \A u \in Threads : u # t => pc'[u] = pc[u]
      BY <1>0, <1>7 DEF FindFile, PollThrows, ReadPaths, WritePaths, CountPaths, Become
    <2> QED
      BY <1>6, <2>1, <2>2
  <1>8. ASSUME UNCHANGED <<call, executions, todo, pc>>
        PROVE  FreshInv'
    BY <1>8
  <1>9. CASE EnvStep \/ UNCHANGED vars
    BY <1>8, <1>9
    DEF EnvStep, SessionDrops, MakeDirectory, FileArrives, FileLeaves, callVars, vars
  <1>10. ExecuteLocal \/ ExecuteRemote => CanExecute /\ UNCHANGED pc
    BY DEF ExecuteLocal, ExecuteRemote
  <1> HIDE DEF FreshInv
  <1> QED
    BY <1>1, <1>2, <1>3, <1>4, <1>5, <1>7, <1>9, <1>10 DEF Next, CallStep, ThreadStep

-----------------------------------------------------------------------------
(* The steps that do not come near the field *)

\* The field, the flag and the copies stay; a thread is started or finds its file.
Aside ==
  /\ UNCHANGED fieldVars
  /\ arrived \subseteq arrived'
  /\ files' \subseteq arrived'
  /\ \A t \in Threads :
        \/ pc'[t] = pc[t]
        \/ pc[t] = "none" /\ pc'[t] = "polling"
        \/ pc[t] = "polling" /\ pc'[t] = "found" /\ t[2] \in arrived

\* What a step does that is neither a read, a write nor a count of the field.
LEMMA AsideStep ==
  ASSUME TypeOK, FreshInv, files \subseteq arrived,
         \/ CallStep
         \/ EnvStep
         \/ \E t \in Threads : FindFile(t) \/ PollThrows(t)
         \/ UNCHANGED vars
  PROVE  Aside
  <1>0. pc \in [Threads -> PCs]
    BY DEF TypeOK
  <1>1. ASSUME UNCHANGED <<fieldVars, pc, files, arrived>>
        PROVE  Aside
    BY <1>1 DEF Aside
  <1>2. CASE ExecuteLocal \/ ExecuteRemote \/ Connect \/ MonitorReturns
    BY <1>1, <1>2 DEF ExecuteLocal, ExecuteRemote, Connect, MonitorReturns, envVars
  <1>3. ASSUME NEW p \in Paths, StartThread(p)
        PROVE  Aside
    <2>1. UNCHANGED <<fieldVars, files, arrived>>
      BY <1>3 DEF StartThread, envVars
    <2>2. \A t \in Threads : t # <<executions, p>> => pc'[t] = pc[t]
      BY <1>0, <1>3 DEF StartThread
    <2>3. ASSUME NEW t \in Threads, t = <<executions, p>>
          PROVE  pc[t] = "none" /\ pc'[t] = "polling"
      BY <1>0, <1>3, <2>3 DEF FreshInv, StartThread, Visiting
    <2> QED
      BY <2>1, <2>2, <2>3 DEF Aside
  <1>4. ASSUME NEW p \in Paths, SkipPath(p) \/ GiveUp(p)
        PROVE  Aside
    BY <1>1, <1>4 DEF SkipPath, GiveUp, envVars
  <1>5. ASSUME NEW t \in Threads, FindFile(t)
        PROVE  Aside
    <2>1. UNCHANGED <<fieldVars, files, arrived>> /\ pc[t] = "polling" /\ t[2] \in arrived
      BY <1>5 DEF FindFile, At, envVars
    <2>2. \A u \in Threads : pc'[u] = IF u = t THEN "found" ELSE pc[u]
      BY <1>0, <1>5 DEF FindFile, Become
    <2> QED
      BY <2>1, <2>2 DEF Aside
  <1>6. ASSUME NEW t \in Threads, PollThrows(t)
        PROVE  Aside
    BY <1>1, <1>6 DEF PollThrows, envVars
  <1>7. CASE EnvStep
    <2>1. UNCHANGED <<fieldVars, pc>>
      BY <1>7 DEF EnvStep, SessionDrops, MakeDirectory, FileArrives, FileLeaves
    <2>2. arrived \subseteq arrived' /\ files' \subseteq arrived'
      BY <1>7 DEF EnvStep, SessionDrops, MakeDirectory, FileArrives, FileLeaves, envVars
    <2> QED
      BY <2>1, <2>2 DEF Aside
  <1>8. CASE UNCHANGED vars
    BY <1>1, <1>8 DEF vars, fieldVars
  <1> QED
    BY <1>2, <1>3, <1>4, <1>5, <1>6, <1>7, <1>8 DEF CallStep
-----------------------------------------------------------------------------
(* The three steps of onFileIsPresent *)

\* A step of thread t from one label to the next changes no other thread.
LEMMA OwnStep ==
  ASSUME TypeOK, NEW t \in Threads,
         ReadPaths(t) \/ WritePaths(t) \/ CountPaths(t)
  PROVE  /\ \A u \in Threads : u # t => pc'[u] = pc[u]
         /\ \/ ReadPaths(t) /\ pc[t] = "found" /\ pc'[t] = "read"
            \/ WritePaths(t) /\ pc[t] = "read" /\ pc'[t] = "written"
            \/ CountPaths(t) /\ pc[t] = "written" /\ pc'[t] = "over"
         /\ UNCHANGED <<files, arrived>>
  BY DEF TypeOK, ReadPaths, WritePaths, CountPaths, At, Become, envVars

\* Every step is aside, or one of the three.
LEMMA StepKinds ==
  ASSUME TypeOK, FreshInv, files \subseteq arrived, [Next]_vars
  PROVE  \/ Aside
         \/ \E t \in Threads : ReadPaths(t) \/ WritePaths(t) \/ CountPaths(t)
  BY AsideStep DEF Next, ThreadStep

\* No thread goes back from its write.
LEMMA GoOn ==
  ASSUME TypeOK, FreshInv, files \subseteq arrived, [Next]_vars
  PROVE  ThreadsGoOn
  <1>1. Aside => ThreadsGoOn
    BY DEF Aside, ThreadsGoOn, Off
  <1>2. ASSUME NEW t \in Threads, ReadPaths(t) \/ WritePaths(t) \/ CountPaths(t)
        PROVE  ThreadsGoOn
    BY <1>2, OwnStep DEF ThreadsGoOn, Off
  <1> QED
    BY <1>1, <1>2, StepKinds

-----------------------------------------------------------------------------
(* HandledInv *)

LEMMA InitHandled == Init => HandledInv
  BY DEF Init, HandledInv, Handling, Reading

LEMMA StepHandled ==
  TypeOK /\ FreshInv /\ HandledInv /\ [Next]_vars => HandledInv'
  <1> SUFFICES ASSUME TypeOK, FreshInv, HandledInv, [Next]_vars
               PROVE  HandledInv'
    OBVIOUS
  <1>0. files \subseteq arrived
    BY DEF HandledInv
  <1>1. \A p \in Paths : Handled(p) => Handled(p)'
    BY <1>0, GoOn, HandledStays
  <1>2. CASE Aside
    BY <1>1, <1>2 DEF Aside, HandledInv, Handling, Reading, fieldVars
  <1>3. ASSUME NEW t \in Threads, ReadPaths(t)
        PROVE  HandledInv'
    <2>1. /\ \A u \in Threads : u # t => pc'[u] = pc[u] /\ local'[u] = local[u]
          /\ pc[t] = "found" /\ pc'[t] = "read" /\ local'[t] = awaited
          /\ UNCHANGED <<files, arrived, awaited, CanGoNext>>
      BY <1>3 DEF TypeOK, ReadPaths, At, Become, envVars
    <2> QED
      BY <1>1, <2>1 DEF HandledInv, Handling, Reading
  <1>4. ASSUME NEW t \in Threads, WritePaths(t)
        PROVE  HandledInv'
    <2>1. /\ \A u \in Threads : u # t => pc'[u] = pc[u]
          /\ pc[t] = "read" /\ pc'[t] = "written"
          /\ awaited' = local[t] \ {t[2]}
          /\ UNCHANGED <<files, arrived, local, CanGoNext>>
      BY <1>4 DEF TypeOK, WritePaths, At, Become, envVars
    <2>2. Handled(t[2])'
      BY <2>1 DEF Handled, Off
    <2>3. \A p \in Paths \ awaited' : Handled(p)'
      BY <1>1, <2>1, <2>2 DEF HandledInv, Reading
    <2> QED
      BY <1>1, <2>1, <2>3 DEF HandledInv, Handling, Reading
  <1>5. ASSUME NEW t \in Threads, CountPaths(t)
        PROVE  HandledInv'
    <2>1. /\ \A u \in Threads : u # t => pc'[u] = pc[u]
          /\ pc[t] = "written" /\ pc'[t] = "over"
          /\ CanGoNext' = (CanGoNext \/ awaited = {})
          /\ UNCHANGED <<files, arrived, local, awaited>>
      BY <1>5 DEF TypeOK, CountPaths, At, Become, envVars
    <2>2. CanGoNext' => \A p \in Paths : Handled(p)'
      BY <1>1, <2>1 DEF HandledInv
    <2> QED
      BY <1>1, <2>1, <2>2 DEF HandledInv, Handling, Reading
  <1> QED
    BY <1>0, <1>2, <1>3, <1>4, <1>5, StepKinds

-----------------------------------------------------------------------------
(* QuietInv *)

LEMMA InitQuiet == Init => QuietInv
  BY PathsAssumption DEF Init, QuietInv, Reading, Off, Ended

LEMMA StepQuiet ==
  TypeOK /\ FreshInv /\ HandledInv /\ QuietInv /\ [Next]_vars => QuietInv'
  <1> SUFFICES ASSUME TypeOK, FreshInv, HandledInv, QuietInv, [Next]_vars, ~overlap'
               PROVE  QuietInv'
    BY DEF QuietInv
  <1>0. files \subseteq arrived
    BY DEF HandledInv
  <1>1. CASE Aside
    BY <1>1 DEF Aside, QuietInv, Reading, Off, Ended, fieldVars
  <1>2. ASSUME NEW t \in Threads, ReadPaths(t)
        PROVE  QuietInv'
    <2>1. /\ \A u \in Threads : u # t => pc'[u] = pc[u] /\ local'[u] = local[u]
          /\ pc[t] = "found" /\ pc'[t] = "read" /\ local'[t] = awaited
          /\ UNCHANGED <<awaited, CanGoNext>>
          /\ ~overlap /\ \A u \in Threads : ~Reading(u)
      BY <1>2 DEF TypeOK, ReadPaths, At, Become
    <2>2. \A p : Ended(p)' => Ended(p)
      BY <2>1 DEF Ended
    <2> QED
      BY <2>1, <2>2 DEF QuietInv, Reading, Off
  <1>3. ASSUME NEW t \in Threads, WritePaths(t)
        PROVE  QuietInv'
    <2>1. /\ \A u \in Threads : u # t => pc'[u] = pc[u]
          /\ pc[t] = "read" /\ pc'[t] = "written"
          /\ awaited' = local[t] \ {t[2]}
          /\ UNCHANGED <<local, CanGoNext, overlap>>
      BY <1>3 DEF TypeOK, WritePaths, At, Become
    <2>2. /\ local[t] = awaited
          /\ \A u \in Threads : u # t => ~Reading(u)
      BY <2>1 DEF QuietInv, Reading
    <2>3. \A p : Ended(p)' => Ended(p)
      BY <2>1 DEF Ended
    <2>4. awaited' = {} /\ ~CanGoNext' => \E p \in Paths : ~Ended(p)'
      <3>1. CASE t[2] \in awaited
        BY <2>1, <2>3, <3>1, ThreadPath DEF QuietInv, Off, Ended
      <3>2. CASE t[2] \notin awaited
        BY <2>1, <2>2, <2>3, <3>2 DEF QuietInv
      <3> QED
        BY <3>1, <3>2
    <2> QED
      BY <2>1, <2>2, <2>4 DEF QuietInv, Reading, Off
  <1>4. ASSUME NEW t \in Threads, CountPaths(t)
        PROVE  QuietInv'
    <2>1. /\ \A u \in Threads : u # t => pc'[u] = pc[u]
          /\ pc[t] = "written" /\ pc'[t] = "over"
          /\ CanGoNext' = (CanGoNext \/ awaited = {})
          /\ UNCHANGED <<local, awaited, overlap>>
      BY <1>4 DEF TypeOK, CountPaths, At, Become
    <2> QED
      BY <2>1 DEF QuietInv, Reading, Off
  <1> QED
    BY <1>0, <1>1, <1>2, <1>3, <1>4, StepKinds

-----------------------------------------------------------------------------
(* The theorems *)

\* The inductive invariant: every path off the field or off a copy was found and
\* taken off by a thread of its own (:93-99), threads are started once (:56-81).
THEOREM Invariant == Spec => []IInv
  <1>1. Init => IInv
    BY InitType, InitFresh, InitHandled, InitQuiet DEF IInv
  <1>2. IInv /\ [Next]_vars => IInv'
    BY StepType, StepFresh, StepHandled, StepQuiet DEF IInv
  <1> QED
    BY <1>1, <1>2, PTL DEF Spec

\* _CanGoNext is set only after every file was there and its thread has taken it
\* off, with lost updates, skipped paths and half-way exceptions (:97).
THEOREM GoMeansAllHandledCorrect == Spec => []GoMeansAllHandled
  <1>1. IInv => GoMeansAllHandled
    BY DEF IInv, HandledInv, GoMeansAllHandled, Handled, Handling, Off
  <1> QED
    BY <1>1, Invariant, PTL

\* Without an overlap of two read-modify-writes, a monitor whose threads are all
\* over has set the flag (:96-97).
THEOREM QuietMonitorGoesCorrect == Spec => []QuietMonitorGoes
  <1>1. IInv => QuietMonitorGoes
    <2> SUFFICES ASSUME IInv, ~overlap, \A p \in Paths : Ended(p)
                 PROVE  CanGoNext
      BY DEF QuietMonitorGoes
    <2>1. \A p \in Paths : p \notin awaited
      BY DEF IInv, QuietInv, Ended, Off
    <2>2. awaited = {}
      BY <2>1 DEF IInv, TypeOK
    <2> QED
      BY <2>2 DEF IInv, QuietInv
  <1> QED
    BY <1>1, Invariant, PTL

\* A path taken off comes back only by an overlap (:96).
THEOREM PathsShrinkCorrect == Spec => PathsShrink
  <1>1. IInv /\ [Next]_vars => [awaited' \subseteq awaited \/ overlap]_vars
    <2> SUFFICES ASSUME IInv, [Next]_vars, ~overlap
                 PROVE  awaited' \subseteq awaited
      OBVIOUS
    <2>1. CASE Aside
      BY <2>1 DEF Aside, fieldVars
    <2>2. ASSUME NEW t \in Threads, ReadPaths(t) \/ CountPaths(t)
          PROVE  awaited' \subseteq awaited
      BY <2>2 DEF ReadPaths, CountPaths
    <2>3. ASSUME NEW t \in Threads, WritePaths(t)
          PROVE  awaited' \subseteq awaited
      BY <2>3 DEF WritePaths, At, IInv, QuietInv, Reading
    <2> QED
      BY <2>1, <2>2, <2>3, StepKinds DEF IInv, HandledInv
  <1> QED
    BY <1>1, Invariant, PTL DEF Spec, PathsShrink

-----------------------------------------------------------------------------
(* FileGate *)

\* One file arrives in a step, or none.
LEMMA OneArrives ==
  ASSUME TypeOK, [Next]_vars
  PROVE  arrived' = arrived \/ \E p \in Paths : arrived' = arrived \cup {p}
  BY DEF Next, CallStep, ThreadStep, EnvStep, ExecuteLocal, ExecuteRemote, Connect,
     MonitorReturns, StartThread, SkipPath, GiveUp, FindFile, PollThrows, ReadPaths,
     WritePaths, CountPaths, SessionDrops, MakeDirectory, FileArrives, FileLeaves,
     envVars, vars

\* A monitor is a FileGate, for any paths and any number of executions: lost
\* updates, skipped paths and half-way exceptions can keep the gate shut and
\* never open it early (:66-99).
THEOREM Refinement == Spec => ImplementsFileGate
  <1> DEFINE H == {p \in Paths : Handled(p)}
  <1>1. Init => Gate!Init
    BY DEF Init, Gate!Init, Handled, Off
  <1>2. IInv /\ [Next]_vars => [Gate!Next]_(Gate!vars)
    <2> SUFFICES ASSUME IInv, [Next]_vars
                 PROVE  [Gate!Next]_(Gate!vars)
      OBVIOUS
    <2>0. TypeOK /\ FreshInv /\ HandledInv /\ files \subseteq arrived
      BY DEF IInv, HandledInv
    <2>1. CASE Aside
      <3>1. CanGoNext' = CanGoNext /\ \A t \in Threads : pc'[t] \in Off <=> pc[t] \in Off
        BY <2>1 DEF Aside, Off, fieldVars
      <3>2. H' = H
        BY <3>1 DEF Handled
      <3> QED
        BY <2>0, <3>1, <3>2, OneArrives DEF Gate!Next, Gate!Arrive, Gate!vars
    <2>2. ASSUME NEW t \in Threads, ReadPaths(t)
          PROVE  UNCHANGED Gate!vars
      <3>1. /\ pc'[t] = "read" /\ pc[t] = "found" /\ \A u \in Threads : u # t => pc'[u] = pc[u]
            /\ UNCHANGED <<arrived, CanGoNext>>
        BY <2>0, <2>2 DEF TypeOK, ReadPaths, At, Become, envVars
      <3>2. H' = H
        BY <3>1 DEF Handled, Off
      <3> QED
        BY <3>1, <3>2 DEF Gate!vars
    <2>3. ASSUME NEW t \in Threads, WritePaths(t)
          PROVE  Gate!Handle(t[2])
      <3>1. /\ pc'[t] = "written" /\ pc[t] = "read" /\ \A u \in Threads : u # t => pc'[u] = pc[u]
            /\ UNCHANGED <<arrived, CanGoNext>>
        BY <2>0, <2>3 DEF TypeOK, WritePaths, At, Become, envVars
      <3>2. H' = H \cup {t[2]}
        BY <3>1, ThreadPath DEF Handled, Off
      <3>3. t[2] \in arrived
        BY <2>0, <3>1 DEF HandledInv, Handling
      <3> QED
        BY <3>1, <3>2, <3>3 DEF Gate!Handle
    <2>4. ASSUME NEW t \in Threads, CountPaths(t)
          PROVE  Gate!Open \/ UNCHANGED Gate!vars
      <3>1. /\ pc'[t] = "over" /\ pc[t] = "written" /\ \A u \in Threads : u # t => pc'[u] = pc[u]
            /\ arrived' = arrived /\ CanGoNext' = (CanGoNext \/ awaited = {})
        BY <2>0, <2>4 DEF TypeOK, CountPaths, At, Become, envVars
      <3>2. H' = H
        BY <3>1 DEF Handled, Off
      <3>3. CASE awaited = {}
        <4>1. H = Paths
          BY <2>0, <3>3 DEF HandledInv
        <4>2. CanGoNext' = TRUE
          BY <3>1, <3>3
        <4> QED
          BY <3>1, <3>2, <4>1, <4>2 DEF Gate!Open
      <3>4. CASE awaited # {}
        <4>1. CanGoNext' = CanGoNext
          BY <2>0, <3>1, <3>4, Zenon DEF TypeOK
        <4> QED
          BY <3>1, <3>2, <4>1 DEF Gate!vars
      <3> QED
        BY <3>3, <3>4
    <2> QED
      BY <2>0, <2>1, <2>2, <2>3, <2>4, StepKinds, ThreadPath DEF Gate!Next
  <1> QED
    BY <1>1, <1>2, Invariant, PTL DEF Spec, ImplementsFileGate, Gate!Spec
=============================================================================
