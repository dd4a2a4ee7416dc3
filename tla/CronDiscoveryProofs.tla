------------------------- MODULE CronDiscoveryProofs -------------------------
(***************************************************************************)
(* Theorems about CronDiscovery, for any hosts, crontabs and number of     *)
(* calls.  The invariant is IInv; each action preserves its named parts.   *)
(***************************************************************************)
EXTENDS CronDiscovery, TLAPS

USE NamesAssumption, CrontabsAssumption, DiscoveriesAssumption DEF Threads

-----------------------------------------------------------------------------
(* Lines and states.                                                         *)

\* A line of a crontab is a role, a script, or broken, and nothing else.
LEMMA LineKinds ==
    ASSUME NEW x \in Lines
    PROVE  /\ x.kind \in {"role", "script", "broken"}
           /\ x.kind = "role" => \E r \in Roles : x = RoleLine(r)
           /\ x.kind = "script" => \E c \in Commands : x = ScriptLine(c)
           /\ x.kind = "broken" <=> x = BrokenLine
  BY DEF Lines, RoleLine, ScriptLine, BrokenLine

\* The line after the first i ones, if there is one, is a line.
LEMMA LineOf ==
    ASSUME TypeOK, NEW h \in Hosts, NEW i \in 1..Len(crontab[h])
    PROVE  crontab[h] \in Seq(Lines) /\ crontab[h][i] \in Lines
  <1>1. crontab[h] \in Crontabs
    BY DEF TypeOK
  <1>2. crontab[h] \in Seq(Lines)
    BY <1>1
  <1> QED
    BY <1>2

\* What a thread may find in the field.
LEMMA StateKinds ==
    ASSUME NEW x \in States
    PROVE  /\ x.kind = "initial" => \E h \in Hosts : x = Initial(h)
           /\ x.kind = "role" => \E r \in Roles : x = RoleLine(r)
           /\ x.kind = "script" => \E c \in Commands : x = ScriptLine(c)
  BY LineKinds DEF States, Initial, NoState, Lines, RoleLine, ScriptLine, BrokenLine

-----------------------------------------------------------------------------
(* Types.                                                                    *)

\* The parts of a step's effect that every action shares.
LEMMA MoveType ==
    ASSUME TypeOK, NEW a \in Threads, NEW to, Move(a, to)
    PROVE  /\ pc' = [pc EXCEPT ![a] = to]
           /\ crossed' \in BOOLEAN
  BY DEF TypeOK, Move

LEMMA HandledType ==
    ASSUME TypeOK, NEW a \in Threads, Handled(a), pc[a] # "idle"
    PROVE  readTo' \in [Hosts -> Nat]
  BY DEF TypeOK, Handled

LEMMA GraphStepType ==
    ASSUME TypeOK
    PROVE  /\ \A h \in Hosts : CreateHost(h) => GraphTypeOK'
           /\ \A c \in Commands, r \in Roles \cup {NoRole}, h \in Hosts \cup {NoHost} :
                 CreateAndMatch(c, r, h) => GraphTypeOK'
           /\ QueryFails => GraphTypeOK'
  <1>1. ASSUME NEW h \in Hosts, CreateHost(h) PROVE GraphTypeOK'
    BY <1>1 DEF CreateHost, GraphTypeOK, TypeOK
  <1>2. ASSUME NEW c \in Commands, NEW r \in Roles \cup {NoRole},
               NEW h \in Hosts \cup {NoHost}, CreateAndMatch(c, r, h)
        PROVE  GraphTypeOK'
    <2>1. h \in hosts => [host |-> h, role |-> r] \in ScriptNodes
      BY DEF TypeOK, GraphTypeOK, ScriptNodes
    <2> QED
      BY <1>2, <2>1 DEF CreateAndMatch, GraphTypeOK, TypeOK
  <1>3. QueryFails => GraphTypeOK'
    BY DEF QueryFails, graphVars, GraphTypeOK, TypeOK
  <1> QED
    BY <1>1, <1>2, <1>3

LEMMA InitType == Init => TypeOK
  <1> SUFFICES ASSUME Init PROVE TypeOK
    OBVIOUS
  <1>1. queue \in Seq(Hosts)
    BY DEF Init
  <1>2. currentState \in States \ {BrokenLine}
    BY DEF Init, States, NoState, BrokenLine
  <1>3. GraphTypeOK
    BY DEF Init, GraphInit, GraphTypeOK
  <1>4. pc \in [Threads -> {"idle"}] /\ readTo \in [Hosts -> Nat]
    BY DEF Init
  <1>5. session \in BOOLEAN /\ crossed \in BOOLEAN /\ lossy \in BOOLEAN
    BY Zenon DEF Init
  <1> QED
    BY <1>1, <1>2, <1>3, <1>4, <1>5 DEF Init, TypeOK

LEMMA StepType == TypeOK /\ [Next]_vars => TypeOK'
  <1> SUFFICES ASSUME TypeOK, [Next]_vars
               PROVE  TypeOK'
    OBVIOUS
  <1> USE DEF contextVars, workerVars, queueVars, graphVars
  <1>1. ASSUME NEW h \in Hosts, AssignHostName(h) PROVE TypeOK'
    BY <1>1 DEF AssignHostName, TypeOK, GraphTypeOK
  <1>2. ASSUME NEW h \in Hosts, Discover(h) PROVE TypeOK'
    <2>1. Initial(h) \in States \ {BrokenLine, NoState}
      BY DEF States, Initial, BrokenLine, NoState
    <2> QED
      BY <1>2, <2>1 DEF Discover, SetInitial, Move, TypeOK, GraphTypeOK
  <1>3. ASSUME NEW h \in Hosts, DiscoverThrows(h) PROVE TypeOK'
    BY <1>3 DEF DiscoverThrows, TypeOK, GraphTypeOK
  <1>4. ASSUME NEW a \in Threads, HandleInitial(a) PROVE TypeOK'
    <2>1. currentState.host \in Hosts
      BY <1>4, StateKinds DEF HandleInitial, TypeOK, Initial
    <2> QED
      BY <1>4, <2>1 DEF HandleInitial, Move, TypeOK, GraphTypeOK
  <1>5. ASSUME NEW a \in Threads, StoreHost(a) PROVE TypeOK'
    <2>1. creating[a] \in Hosts /\ pc[a] # "idle"
      BY <1>5 DEF StoreHost, TypeOK
    <2>2. GraphTypeOK' /\ readTo' \in [Hosts -> Nat]
      BY <1>5, <2>1, GraphStepType, HandledType DEF StoreHost
    <2> QED
      BY <1>5, <2>2 DEF StoreHost, Move, Resumes, TypeOK
  <1>6. ASSUME NEW a \in Threads, HandleRole(a) PROVE TypeOK'
    <2>1. currentState.role \in Roles
      BY <1>6, StateKinds DEF HandleRole, TypeOK, RoleLine
    <2>2. readTo' \in [Hosts -> Nat]
      BY <1>6, HandledType DEF HandleRole
    <2> QED
      BY <1>6, <2>1, <2>2 DEF HandleRole, Move, Resumes, TypeOK, GraphTypeOK
  <1>7. ASSUME NEW a \in Threads, HandleScript(a) PROVE TypeOK'
    <2>1. currentState.command \in Commands
      BY <1>7, StateKinds DEF HandleScript, TypeOK, ScriptLine
    <2>2. GraphTypeOK' /\ readTo' \in [Hosts -> Nat]
      BY <1>7, <2>1, GraphStepType, HandledType DEF HandleScript, TypeOK
    <2> QED
      BY <1>7, <2>2 DEF HandleScript, Move, Resumes, TypeOK
  <1>8. ASSUME NEW a \in Threads, Unreachable(a) PROVE TypeOK'
    BY <1>8 DEF Unreachable, Move, TypeOK, GraphTypeOK
  <1>9. CASE Enqueue
    BY <1>9 DEF Enqueue, Move, TypeOK, GraphTypeOK
  <1>10. CASE BeginWork
    <2>1. Head(queue) \in Hosts /\ Tail(queue) \in Seq(Hosts)
      BY <1>10 DEF BeginWork, TypeOK
    <2>2. Len(crontab[Head(queue)]) \in Nat
      BY <2>1 DEF TypeOK
    <2>3. host' = [host EXCEPT !["worker"] = Head(queue)]
          /\ host'["worker"] = Head(queue) /\ line' = 0
      BY <1>10 DEF BeginWork, TypeOK
    <2>4. line' <= Len(crontab'[host'["worker"]])
      BY <1>10, <2>2, <2>3 DEF BeginWork
    <2>5. queue' \in Seq(Hosts)
      BY <1>10, <2>1 DEF BeginWork
    <2>6. GraphTypeOK'
      BY <1>10 DEF BeginWork, TypeOK, GraphTypeOK
    <2>7. session' \in BOOLEAN /\ crossed' \in BOOLEAN
      BY <1>10 DEF BeginWork, Move, TypeOK
    <2>8. /\ pc' = [pc EXCEPT !["worker"] = "connect"]
          /\ pc' \in [Threads -> {"idle", "handle", "create", "enqueue", "connect", "fetch", "read"}]
          /\ \A a \in Threads : pc'[a] # "idle" => host'[a] # NoHost
      BY <1>10, <2>1, <2>3 DEF BeginWork, Move, TypeOK
    <2>9. UNCHANGED <<hostName, currentRole, currentState, crontab, creating,
                      discoveries, readTo, lossy>>
      BY <1>10 DEF BeginWork
    <2> HIDE DEF contextVars, workerVars, queueVars, graphVars
    <2> QED
      BY <2>1, <2>3, <2>4, <2>5, <2>6, <2>7, <2>8, <2>9 DEF TypeOK
  <1>11. CASE WorkThrows
    BY <1>11 DEF WorkThrows, Move, TypeOK, GraphTypeOK
  <1>12. CASE Reinitialize
    <2>1. host["worker"] \in Hosts
      BY <1>12 DEF Reinitialize, TypeOK
    <2>2. Initial(host["worker"]) \in States \ {BrokenLine, NoState}
      BY <2>1 DEF States, Initial, BrokenLine, NoState
    <2> QED
      BY <1>12, <2>1, <2>2 DEF Reinitialize, SetInitial, Move, TypeOK, GraphTypeOK
  <1>13. CASE GetCronFile
    BY <1>13 DEF GetCronFile, Move, TypeOK, GraphTypeOK
  <1>14. CASE WorkEnds
    BY <1>14 DEF WorkEnds, Move, TypeOK, GraphTypeOK
  <1>15. CASE ReadLine
    <2>1. host["worker"] \in Hosts
      BY <1>15 DEF ReadLine, TypeOK
    <2>2. crontab[host["worker"]] \in Seq(Lines)
      BY <2>1 DEF TypeOK
    <2>3. currentState' \in States \ {BrokenLine, NoState}
      <3>1. currentState' \in Lines
        BY <1>15, <2>2 DEF ReadLine, TypeOK
      <3>2. NoState \notin Lines
        BY LineKinds DEF NoState
      <3> QED
        BY <1>15, <3>1, <3>2 DEF ReadLine, States
    <2>4. line + 1 \in Nat /\ line + 1 <= Len(crontab[host["worker"]])
      BY <1>15, <2>2 DEF ReadLine, TypeOK
    <2> QED
      BY <1>15, <2>1, <2>3, <2>4 DEF ReadLine, Move, TypeOK, GraphTypeOK
  <1>16. CASE UNCHANGED vars
    BY <1>16 DEF vars, TypeOK, GraphTypeOK
  <1> QED
    BY <1>1, <1>2, <1>3, <1>4, <1>5, <1>6, <1>7, <1>8, <1>9, <1>10, <1>11, <1>12,
       <1>13, <1>14, <1>15, <1>16 DEF Next, Handle, Work

\* The state of a discovery always has its declared shape.
THEOREM TypeCorrect == Spec => []TypeOK
  BY InitType, StepType, PTL DEF Spec

-----------------------------------------------------------------------------
(* Lines are handled in their order.                                         *)

\* The worker has a host as long as it works, and the lengths are numbers.
LEMMA WorkerHost ==
    ASSUME TypeOK
    PROVE  /\ pc["worker"] # "idle" => host["worker"] \in Hosts
           /\ \A h \in Hosts : Len(crontab[h]) \in Nat
  BY DEF TypeOK

LEMMA HandledReads ==
    ASSUME TypeOK, ReadInv, NEW a \in Threads, pc[a] \in {"handle", "create"},
           Handled(a), Move(a, Resumes(a)), UNCHANGED <<crontab, host, line>>
    PROVE  ReadInv'
  <1>1. CASE a = "caller"
    BY <1>1 DEF Handled, Move, Resumes, ReadInv, AtLine, TypeOK
  <1>2. CASE a = "worker"
    <2>1. host["worker"] \in Hosts /\ line <= Len(crontab[host["worker"]])
          /\ line \in Nat /\ readTo \in [Hosts -> Nat]
      BY <1>2 DEF TypeOK
    <2>2. pc' = [pc EXCEPT !["worker"] = IF line = 0 THEN "fetch" ELSE "read"]
          /\ pc \in [Threads -> {"idle", "handle", "create", "enqueue",
                                 "connect", "fetch", "read"}]
      BY <1>2 DEF Move, Resumes, TypeOK
    <2>3. /\ readTo' \in [Hosts -> Nat]
          /\ readTo'[host["worker"]] >= line
          /\ \A h \in Hosts : readTo'[h] = readTo[h] \/ (h = host["worker"] /\ readTo'[h] = line)
      <3>1. readTo[host["worker"]] \in Nat
        BY <2>1
      <3>2. CASE line > readTo[host["worker"]]
        <4>1. readTo' = [readTo EXCEPT ![host["worker"]] = line]
          BY <1>2, <3>2 DEF Handled
        <4> QED
          BY <2>1, <4>1
      <3>3. CASE ~(line > readTo[host["worker"]])
        <4>1. readTo' = readTo
          BY <1>2, <3>3 DEF Handled
        <4> QED
          BY <2>1, <3>1, <3>3, <4>1
      <3> QED
        BY <3>2, <3>3
    <2> QED
      BY <1>2, <2>1, <2>2, <2>3 DEF ReadInv, AtLine
  <1> QED
    BY <1>1, <1>2

LEMMA StepRead ==
    ASSUME TypeOK, ReadInv, [Next]_vars
    PROVE  ReadInv'
  <1> USE WorkerHost DEF contextVars, workerVars, queueVars, graphVars
  <1>1. ASSUME NEW h \in Hosts, AssignHostName(h) PROVE ReadInv'
    BY <1>1 DEF AssignHostName, ReadInv, AtLine
  <1>2. ASSUME NEW h \in Hosts, Discover(h) PROVE ReadInv'
    BY <1>2 DEF Discover, SetInitial, Move, ReadInv, AtLine, TypeOK
  <1>3. ASSUME NEW h \in Hosts, DiscoverThrows(h) PROVE ReadInv'
    BY <1>3 DEF DiscoverThrows, ReadInv, AtLine, TypeOK
  <1>4. ASSUME NEW a \in Threads, HandleInitial(a) PROVE ReadInv'
    BY <1>4 DEF HandleInitial, Move, ReadInv, AtLine, TypeOK
  <1>5. ASSUME NEW a \in Threads, StoreHost(a) PROVE ReadInv'
    BY <1>5, HandledReads DEF StoreHost
  <1>6. ASSUME NEW a \in Threads, HandleRole(a) PROVE ReadInv'
    BY <1>6, HandledReads DEF HandleRole
  <1>7. ASSUME NEW a \in Threads, HandleScript(a) PROVE ReadInv'
    BY <1>7, HandledReads DEF HandleScript
  <1>8. ASSUME NEW a \in Threads, Unreachable(a) PROVE ReadInv'
    BY <1>8 DEF Unreachable, Move, ReadInv, AtLine, TypeOK
  <1>9. CASE Enqueue
    BY <1>9 DEF Enqueue, Move, ReadInv, AtLine, TypeOK
  <1>10. CASE BeginWork
    BY <1>10 DEF BeginWork, Move, ReadInv, AtLine, TypeOK
  <1>11. CASE WorkThrows
    BY <1>11 DEF WorkThrows, Move, ReadInv, AtLine, TypeOK
  <1>12. CASE Reinitialize
    BY <1>12 DEF Reinitialize, SetInitial, Move, ReadInv, AtLine, TypeOK
  <1>13. CASE GetCronFile
    BY <1>13 DEF GetCronFile, Move, ReadInv, AtLine, TypeOK
  <1>14. CASE WorkEnds
    BY <1>14 DEF WorkEnds, Move, ReadInv, AtLine, TypeOK
  <1>15. CASE ReadLine
    BY <1>15 DEF ReadLine, Move, ReadInv, AtLine, TypeOK
  <1>16. CASE UNCHANGED vars
    BY <1>16 DEF vars, ReadInv, AtLine
  <1> QED
    BY <1>1, <1>2, <1>3, <1>4, <1>5, <1>6, <1>7, <1>8, <1>9, <1>10, <1>11, <1>12,
       <1>13, <1>14, <1>15, <1>16 DEF Next, Handle, Work

-----------------------------------------------------------------------------
(* What the worker finds in the context while it has it for itself.          *)

\* Both threads are in the context only if that is remembered.
LEMMA MoveCrosses ==
    ASSUME TypeOK, NEW a \in Threads, NEW to, Move(a, to)
    PROVE  /\ pc' = [pc EXCEPT ![a] = to]
           /\ crossed => crossed'
           /\ ~crossed' => ~(Inside("caller", pc') /\ Inside("worker", pc'))
  BY DEF Move, TypeOK

\* While the threads do not cross, a thread finds in the field what it put there.
LEMMA FoundState ==
    ASSUME TypeOK, AloneInv, ~crossed, NEW a \in Threads, pc[a] = "handle"
    PROVE  /\ currentState.kind = "initial" =>
                 /\ currentState = Initial(host[a]) /\ currentState.host = host[a]
                 /\ a = "worker" => line = 0
           /\ currentState.kind # "initial" =>
                 /\ a = "worker" /\ line \in 1..Len(crontab[host["worker"]])
                 /\ currentState = crontab[host["worker"]][line]
  <1>1. CASE a = "caller"
    <2>1. currentState = Initial(host["caller"])
      BY <1>1 DEF AloneInv
    <2> QED
      BY <1>1, <2>1 DEF Initial
  <1>2. CASE a = "worker" /\ line = 0
    <2>1. currentState = Initial(host["worker"])
      BY <1>2 DEF AloneInv
    <2> QED
      BY <1>2, <2>1 DEF Initial
  <1>3. CASE a = "worker" /\ line # 0
    <2>1. currentState = crontab[host["worker"]][line]
      BY <1>3 DEF AloneInv
    <2>2. host["worker"] \in Hosts /\ line \in 1..Len(crontab[host["worker"]])
      BY <1>3, WorkerHost DEF TypeOK
    <2>3. currentState.kind # "initial"
      BY <2>1, <2>2, LineOf, LineKinds
    <2> QED
      BY <1>3, <2>1, <2>2, <2>3
  <1> QED
    BY <1>1, <1>2, <1>3

LEMMA StepAlone ==
    ASSUME TypeOK, ReadInv, AloneInv, [Next]_vars
    PROVE  AloneInv'
  <1> USE WorkerHost DEF contextVars, workerVars, queueVars, graphVars
  <1>1. ASSUME NEW h \in Hosts, AssignHostName(h) PROVE AloneInv'
    BY <1>1 DEF AssignHostName, AloneInv, AtLine, Inside, TypeOK
  <1>2. ASSUME NEW h \in Hosts, Discover(h) PROVE AloneInv'
    BY <1>2, MoveCrosses DEF Discover, SetInitial, AloneInv, AtLine, Inside, TypeOK
  <1>3. ASSUME NEW h \in Hosts, DiscoverThrows(h) PROVE AloneInv'
    BY <1>3 DEF DiscoverThrows, AloneInv, AtLine, Inside, TypeOK
  <1>4. ASSUME NEW a \in Threads, HandleInitial(a) PROVE AloneInv'
    BY <1>4, MoveCrosses, FoundState, SMTT(30)
    DEF HandleInitial, AloneInv, AtLine, Inside, TypeOK
  <1>5. ASSUME NEW a \in Threads, StoreHost(a) PROVE AloneInv'
    BY <1>5, MoveCrosses DEF StoreHost, Resumes, AloneInv, AtLine, Inside, TypeOK
  <1>6. ASSUME NEW a \in Threads, HandleRole(a) PROVE AloneInv'
    BY <1>6, MoveCrosses, FoundState DEF HandleRole, Resumes, AloneInv, AtLine, Inside, TypeOK
  <1>7. ASSUME NEW a \in Threads, HandleScript(a) PROVE AloneInv'
    BY <1>7, MoveCrosses, FoundState DEF HandleScript, Resumes, AloneInv, AtLine, Inside, TypeOK
  <1>8. ASSUME NEW a \in Threads, Unreachable(a) PROVE AloneInv'
    BY <1>8, MoveCrosses DEF Unreachable, AloneInv, AtLine, Inside, TypeOK
  <1>9. CASE Enqueue
    BY <1>9, MoveCrosses DEF Enqueue, AloneInv, AtLine, Inside, TypeOK
  <1>10. CASE BeginWork
    BY <1>10, MoveCrosses DEF BeginWork, AloneInv, AtLine, Inside, TypeOK
  <1>11. CASE WorkThrows
    BY <1>11, MoveCrosses DEF WorkThrows, AloneInv, AtLine, Inside, TypeOK
  <1>12. CASE Reinitialize
    BY <1>12, MoveCrosses, SMTT(30)
    DEF Reinitialize, SetInitial, ReadInv, AloneInv, AtLine, Inside, TypeOK
  <1>13. CASE GetCronFile
    BY <1>13, MoveCrosses DEF GetCronFile, AloneInv, AtLine, Inside, TypeOK
  <1>14. CASE WorkEnds
    BY <1>14, MoveCrosses DEF WorkEnds, AloneInv, AtLine, Inside, TypeOK
  <1>15. CASE ReadLine
    BY <1>15, MoveCrosses DEF ReadLine, AloneInv, AtLine, Inside, TypeOK
  <1>16. CASE UNCHANGED vars
    BY <1>16 DEF vars, AloneInv, AtLine, Inside
  <1> QED
    BY <1>1, <1>2, <1>3, <1>4, <1>5, <1>6, <1>7, <1>8, <1>9, <1>10, <1>11, <1>12,
       <1>13, <1>14, <1>15, <1>16 DEF Next, Handle, Work

-----------------------------------------------------------------------------
(* The role of the context, and the host in the graph.                       *)

\* A line that names no role leaves the role of the lines above it.
LEMMA RoleExtends ==
    ASSUME NEW lines, NEW i \in Nat, NEW r, RoleAt(lines, i, r),
           lines[i + 1].kind # "role"
    PROVE  RoleAt(lines, i + 1, r)
  <1>1. PICK j \in 1..i : /\ lines[j] = RoleLine(r)
                         /\ \A k \in (j + 1)..i : lines[k].kind # "role"
    BY DEF RoleAt
  <1>2. j \in 1..(i + 1) /\ \A k \in (j + 1)..(i + 1) : k = i + 1 \/ k \in (j + 1)..i
    OBVIOUS
  <1> QED
    BY <1>1, <1>2 DEF RoleAt

\* The worker has handled a role line: the context has the role of that line.
LEMMA RoleRead ==
    ASSUME TypeOK, AloneInv, ~crossed, HandleRole("worker")
    PROVE  RoleAt(crontab[host["worker"]], line, currentRole')
  <1>1. /\ line \in 1..Len(crontab[host["worker"]]) /\ host["worker"] \in Hosts
        /\ currentState = crontab[host["worker"]][line] /\ line \in Nat
    BY FoundState, WorkerHost DEF HandleRole, TypeOK
  <1>2. PICK r \in Roles : currentState = RoleLine(r)
    BY StateKinds DEF HandleRole, TypeOK
  <1>3. currentRole' = r
    BY <1>2 DEF HandleRole, RoleLine
  <1>4. /\ crontab[host["worker"]][line] = RoleLine(r) /\ line \in 1..line
        /\ \A k \in (line + 1)..line : crontab[host["worker"]][k].kind # "role"
    BY <1>1, <1>2
  <1> QED
    BY <1>3, <1>4 DEF RoleAt

\* A script line of a crontab that starts with a role has a role above it.
LEMMA RoleAbove ==
    ASSUME TypeOK, AloneInv, RoleInv, ~crossed, pc["worker"] = "handle",
           currentState.kind = "script", StartsWithRole(crontab[host["worker"]])
    PROVE  RoleAt(crontab[host["worker"]], line, currentRole)
  <1>1. /\ line \in 1..Len(crontab[host["worker"]]) /\ host["worker"] \in Hosts
        /\ currentState = crontab[host["worker"]][line] /\ line \in Nat
    BY FoundState, WorkerHost DEF TypeOK
  <1>2. line # 1 /\ line >= 1
    BY <1>1, WorkerHost DEF StartsWithRole
  <1>3. line - 1 \in Nat /\ line > 1 /\ (line - 1) + 1 = line
    BY <1>1, <1>2
  <1>4. RoleAt(crontab[host["worker"]], line - 1, currentRole)
    BY <1>3 DEF RoleInv, AtLine
  <1>5. crontab[host["worker"]][(line - 1) + 1].kind # "role"
    BY <1>1, <1>3
  <1> QED
    BY <1>3, <1>4, <1>5, RoleExtends

LEMMA StepRole ==
    ASSUME TypeOK, ReadInv, AloneInv, RoleInv, [Next]_vars
    PROVE  RoleInv'
  <1> USE WorkerHost DEF contextVars, workerVars, queueVars, graphVars
  <1>1. ASSUME NEW h \in Hosts, AssignHostName(h) PROVE RoleInv'
    BY <1>1 DEF AssignHostName, RoleInv, AtLine
  <1>2. ASSUME NEW h \in Hosts, Discover(h) PROVE RoleInv'
    <2>1. /\ crossed => crossed'
          /\ pc'["worker"] = pc["worker"] /\ host'["worker"] = host["worker"]
          /\ UNCHANGED <<crontab, line, currentRole>>
      BY <1>2, MoveCrosses DEF Discover, SetInitial, TypeOK
    <2> QED
      BY <2>1 DEF RoleInv, AtLine
  <1>3. ASSUME NEW h \in Hosts, DiscoverThrows(h) PROVE RoleInv'
    BY <1>3 DEF DiscoverThrows, RoleInv, AtLine, TypeOK
  <1>4. ASSUME NEW a \in Threads, HandleInitial(a) PROVE RoleInv'
    BY <1>4, MoveCrosses, FoundState, SMTT(30) DEF HandleInitial, RoleInv, AtLine, TypeOK
  <1>5. ASSUME NEW a \in Threads, StoreHost(a) PROVE RoleInv'
    BY <1>5, MoveCrosses DEF StoreHost, Resumes, AloneInv, RoleInv, AtLine, TypeOK
  <1>6. ASSUME NEW a \in Threads, HandleRole(a) PROVE RoleInv'
    <2>1. CASE crossed
      BY <1>6, <2>1, MoveCrosses DEF HandleRole, RoleInv
    <2>2. CASE ~crossed
      <3>1. a = "worker" /\ line > 0
        BY <1>6, <2>2, FoundState DEF HandleRole
      <3>2. RoleAt(crontab[host["worker"]], line, currentRole')
        BY <1>6, <2>2, <3>1, RoleRead
      <3>3. pc'["worker"] = "read" /\ UNCHANGED <<host, line, crontab>>
        BY <1>6, <3>1, MoveCrosses DEF HandleRole, Resumes, TypeOK
      <3> QED
        BY <3>2, <3>3 DEF RoleInv, AtLine
    <2> QED
      BY <2>1, <2>2
  <1>7. ASSUME NEW a \in Threads, HandleScript(a) PROVE RoleInv'
    <2>1. CASE crossed
      BY <1>7, <2>1, MoveCrosses DEF HandleScript, RoleInv
    <2>2. CASE ~crossed
      <3>1. a = "worker" /\ line > 0
        BY <1>7, <2>2, FoundState DEF HandleScript
      <3>2. pc'["worker"] = "read" /\ UNCHANGED <<host, line, crontab, currentRole>>
        BY <1>7, <3>1, MoveCrosses DEF HandleScript, Resumes, TypeOK
      <3>3. StartsWithRole(crontab[host["worker"]])
               => RoleAt(crontab[host["worker"]], line, currentRole)
        BY <1>7, <2>2, <3>1, RoleAbove DEF HandleScript
      <3> QED
        BY <3>2, <3>3 DEF RoleInv, AtLine
    <2> QED
      BY <2>1, <2>2
  <1>8. ASSUME NEW a \in Threads, Unreachable(a) PROVE RoleInv'
    BY <1>8, MoveCrosses DEF Unreachable, RoleInv, AtLine, TypeOK
  <1>9. CASE Enqueue
    BY <1>9, MoveCrosses DEF Enqueue, RoleInv, AtLine, TypeOK
  <1>10. CASE BeginWork
    BY <1>10, MoveCrosses DEF BeginWork, RoleInv, AtLine, TypeOK
  <1>11. CASE WorkThrows
    BY <1>11, MoveCrosses DEF WorkThrows, RoleInv, AtLine, TypeOK
  <1>12. CASE Reinitialize
    BY <1>12, MoveCrosses DEF Reinitialize, SetInitial, ReadInv, RoleInv, AtLine, TypeOK
  <1>13. CASE GetCronFile
    BY <1>13, MoveCrosses DEF GetCronFile, ReadInv, RoleInv, AtLine, TypeOK
  <1>14. CASE WorkEnds
    BY <1>14, MoveCrosses DEF WorkEnds, RoleInv, AtLine, TypeOK
  <1>15. CASE ReadLine
    <2>1. line' = line + 1 /\ line' - 1 = line /\ line \in Nat
      BY <1>15 DEF ReadLine, TypeOK
    <2> QED
      BY <1>15, <2>1, MoveCrosses DEF ReadLine, RoleInv, AtLine, TypeOK
  <1>16. CASE UNCHANGED vars
    BY <1>16 DEF vars, RoleInv, AtLine
  <1> QED
    BY <1>1, <1>2, <1>3, <1>4, <1>5, <1>6, <1>7, <1>8, <1>9, <1>10, <1>11, <1>12,
       <1>13, <1>14, <1>15, <1>16 DEF Next, Handle, Work

\* The graph only grows.
LEMMA GraphGrows ==
    ASSUME TypeOK, [Next]_vars
    PROVE  /\ hosts \subseteq hosts'
           /\ script' \in [Commands -> ScriptNodes \cup {NoNode}]
           /\ \A c \in Commands : script[c] # NoNode => script'[c] = script[c]
  <1> USE DEF graphVars, GraphTypeOK, TypeOK
  <1>1. ASSUME NEW a \in Threads, StoreHost(a)
        PROVE  hosts \subseteq hosts' /\ script' = script
    BY <1>1 DEF StoreHost, CreateHost, QueryFails
  <1>2. ASSUME NEW a \in Threads, HandleScript(a)
        PROVE  /\ hosts' = hosts
               /\ \A c \in Commands : script[c] # NoNode => script'[c] = script[c]
    BY <1>2 DEF HandleScript, CreateAndMatch, QueryFails
  <1>3. script' \in [Commands -> ScriptNodes \cup {NoNode}]
    BY StepType
  <1>4. \/ hosts' = hosts /\ script' = script
        \/ \E a \in Threads : StoreHost(a) \/ HandleScript(a)
    <2> HIDE DEF TypeOK, GraphTypeOK
    <2> QED
      BY DEF Next, Handle, Work, vars, AssignHostName, Discover, DiscoverThrows,
         HandleInitial, HandleRole, Unreachable, Enqueue, BeginWork, WorkThrows,
         Reinitialize, GetCronFile, WorkEnds, ReadLine
  <1> QED
    BY <1>1, <1>2, <1>3, <1>4

LEMMA StepStored ==
    ASSUME TypeOK, ReadInv, AloneInv, StoredInv, [Next]_vars
    PROVE  StoredInv'
  <1> USE WorkerHost, GraphGrows DEF contextVars, workerVars, queueVars, graphVars
  <1>1. ASSUME NEW h \in Hosts, AssignHostName(h) PROVE StoredInv'
    BY <1>1 DEF AssignHostName, StoredInv, AtLine, TypeOK
  <1>2. ASSUME NEW h \in Hosts, Discover(h) PROVE StoredInv'
    BY <1>2, MoveCrosses DEF Discover, SetInitial, StoredInv, AtLine, TypeOK
  <1>3. ASSUME NEW h \in Hosts, DiscoverThrows(h) PROVE StoredInv'
    BY <1>3 DEF DiscoverThrows, StoredInv, AtLine, TypeOK
  <1>4. ASSUME NEW a \in Threads, HandleInitial(a) PROVE StoredInv'
    BY <1>4, MoveCrosses, FoundState DEF HandleInitial, StoredInv, AtLine, TypeOK
  <1>5. ASSUME NEW a \in Threads, StoreHost(a) PROVE StoredInv'
    <2>1. CASE a = "caller"
      BY <1>5, <2>1, MoveCrosses DEF StoreHost, Resumes, StoredInv, AtLine, TypeOK
    <2>2. CASE a = "worker" /\ ~crossed
      BY <1>5, <2>2, MoveCrosses DEF StoreHost, CreateHost, Resumes, AloneInv, StoredInv, AtLine, TypeOK
    <2>3. CASE crossed
      BY <1>5, <2>3, MoveCrosses DEF StoreHost, StoredInv
    <2> QED
      BY <2>1, <2>2, <2>3
  <1>6. ASSUME NEW a \in Threads, HandleRole(a) PROVE StoredInv'
    BY <1>6, MoveCrosses, FoundState DEF HandleRole, Resumes, StoredInv, AtLine, TypeOK
  <1>7. ASSUME NEW a \in Threads, HandleScript(a) PROVE StoredInv'
    BY <1>7, MoveCrosses, FoundState DEF HandleScript, Resumes, StoredInv, AtLine, TypeOK
  <1>8. ASSUME NEW a \in Threads, Unreachable(a) PROVE StoredInv'
    BY <1>8, MoveCrosses DEF Unreachable, StoredInv, AtLine, TypeOK
  <1>9. CASE Enqueue
    BY <1>9, MoveCrosses DEF Enqueue, StoredInv, AtLine, TypeOK
  <1>10. CASE BeginWork
    BY <1>10, MoveCrosses DEF BeginWork, StoredInv, AtLine, TypeOK
  <1>11. CASE WorkThrows
    BY <1>11, MoveCrosses DEF WorkThrows, StoredInv, AtLine, TypeOK
  <1>12. CASE Reinitialize
    BY <1>12, MoveCrosses DEF Reinitialize, SetInitial, ReadInv, StoredInv, AtLine, TypeOK
  <1>13. CASE GetCronFile
    BY <1>13, MoveCrosses DEF GetCronFile, StoredInv, AtLine, TypeOK
  <1>14. CASE WorkEnds
    BY <1>14, MoveCrosses DEF WorkEnds, StoredInv, AtLine, TypeOK
  <1>15. CASE ReadLine
    BY <1>15, MoveCrosses DEF ReadLine, StoredInv, AtLine, TypeOK
  <1>16. CASE UNCHANGED vars
    BY <1>16 DEF vars, StoredInv, AtLine, TypeOK
  <1> QED
    BY <1>1, <1>2, <1>3, <1>4, <1>5, <1>6, <1>7, <1>8, <1>9, <1>10, <1>11, <1>12,
       <1>13, <1>14, <1>15, <1>16 DEF Next, Handle, Work

-----------------------------------------------------------------------------
(* What the graph holds.                                                     *)

\* Histories do not forget, and only a handled script makes a script.
LEMMA QuietBefore ==
    ASSUME TypeOK, [Next]_vars
    PROVE  /\ ~crossed' => ~crossed
           /\ ~lossy' => ~lossy
           /\ crontab' = crontab
           /\ script' # script => \E a \in Threads : HandleScript(a)
  BY MoveCrosses DEF Next, Handle, Work, vars, graphVars, AssignHostName, Discover,
     SetInitial, DiscoverThrows, HandleInitial, StoreHost, CreateHost, QueryFails,
     HandleRole, HandleScript, Unreachable, Enqueue, BeginWork, WorkThrows,
     Reinitialize, GetCronFile, WorkEnds, ReadLine

\* A script that a step creates is the line the worker is at, on its host and
\* with the role of the context.
LEMMA NewScript ==
    ASSUME TypeOK, AloneInv, ~crossed, NEW a \in Threads, HandleScript(a),
           NEW c \in Commands, script[c] = NoNode, script'[c] # NoNode
    PROVE  /\ RunsAt(crontab[host["worker"]], line, c)
           /\ script'[c] = [host |-> host["worker"], role |-> currentRole]
           /\ pc["worker"] = "handle" /\ host["worker"] \in Hosts
  <1>1. /\ a = "worker" /\ line \in 1..Len(crontab[host["worker"]])
        /\ currentState = crontab[host["worker"]][line]
        /\ pc["worker"] = "handle" /\ host["worker"] \in Hosts
    BY FoundState, WorkerHost DEF HandleScript
  <1>2. PICK d \in Commands : currentState = ScriptLine(d)
    BY StateKinds DEF HandleScript, TypeOK
  <1>3. currentState.command = d /\ hostName = host["worker"]
    BY <1>1, <1>2 DEF ScriptLine, AloneInv, AtLine
  <1>4. CreateAndMatch(d, currentRole, hostName)
    BY <1>3 DEF HandleScript, QueryFails, graphVars
  <1>5. d = c /\ script'[c] = [host |-> hostName, role |-> currentRole]
    BY <1>4 DEF CreateAndMatch, TypeOK, GraphTypeOK
  <1> QED
    BY <1>1, <1>2, <1>3, <1>5 DEF RunsAt

LEMMA StepOnHost ==
    ASSUME TypeOK, AloneInv, OnHostThatRunsIt, [Next]_vars
    PROVE  OnHostThatRunsIt'
  <1> SUFFICES ASSUME ~crossed', NEW c \in Commands, script'[c] # NoNode
               PROVE  \E i \in 1..Len(crontab[script'[c].host]) :
                          RunsAt(crontab[script'[c].host], i, c)
    BY QuietBefore DEF OnHostThatRunsIt
  <1>1. ~crossed
    BY QuietBefore
  <1>2. CASE script[c] # NoNode
    BY <1>1, <1>2, GraphGrows DEF OnHostThatRunsIt
  <1>3. CASE script[c] = NoNode
    <2>1. PICK a \in Threads : HandleScript(a)
      BY <1>3, QuietBefore
    <2>2. /\ RunsAt(crontab[host["worker"]], line, c)
          /\ script'[c].host = host["worker"]
      BY <1>1, <1>3, <2>1, NewScript
    <2> QED
      BY <2>2 DEF RunsAt
  <1> QED
    BY <1>2, <1>3

LEMMA StepRoleOf ==
    ASSUME TypeOK, AloneInv, RoleInv, RoleFromItsCrontab, [Next]_vars
    PROVE  RoleFromItsCrontab'
  <1> SUFFICES ASSUME ~crossed', NEW c \in Commands, script'[c] # NoNode,
                      StartsWithRole(crontab[script'[c].host])
               PROVE  \E i \in 1..Len(crontab[script'[c].host]) :
                          /\ RunsAt(crontab[script'[c].host], i, c)
                          /\ RoleAt(crontab[script'[c].host], i, script'[c].role)
    BY QuietBefore DEF RoleFromItsCrontab
  <1>1. ~crossed
    BY QuietBefore
  <1>2. CASE script[c] # NoNode
    BY <1>1, <1>2, GraphGrows DEF RoleFromItsCrontab
  <1>3. CASE script[c] = NoNode
    <2>1. PICK a \in Threads : HandleScript(a)
      BY <1>3, QuietBefore
    <2>2. /\ RunsAt(crontab[host["worker"]], line, c)
          /\ script'[c].host = host["worker"] /\ script'[c].role = currentRole
          /\ pc["worker"] = "handle"
      BY <1>1, <1>3, <2>1, NewScript
    <2>3. RoleAt(crontab[host["worker"]], line, currentRole)
      BY <1>1, <2>1, <2>2, RoleAbove DEF HandleScript
    <2> QED
      BY <2>2, <2>3 DEF RunsAt
  <1> QED
    BY <1>2, <1>3

\* What makes a line count as handled.
LEMMA NewlyRead ==
    ASSUME TypeOK, ReadInv, AloneInv, ~crossed, [Next]_vars,
           NEW h \in Hosts, NEW i \in 1..readTo'[h], i > readTo[h]
    PROVE  /\ h = host["worker"] /\ i = line /\ pc["worker"] = "handle"
           /\ HandleRole("worker") \/ HandleScript("worker")
  <1>1. PICK a \in Threads : StoreHost(a) \/ HandleRole(a) \/ HandleScript(a)
    <2>1. readTo' # readTo
      BY DEF TypeOK
    <2> QED
      BY <2>1 DEF Next, Handle, Work, vars, AssignHostName, Discover, DiscoverThrows,
         HandleInitial, Unreachable, Enqueue, BeginWork, WorkThrows, Reinitialize,
         GetCronFile, WorkEnds, ReadLine
  <1>2. Handled(a) /\ readTo \in [Hosts -> Nat] /\ line \in Nat
    BY <1>1 DEF StoreHost, HandleRole, HandleScript, TypeOK
  <1>3. a = "worker" /\ line > readTo[host["worker"]]
    BY <1>2 DEF Handled, TypeOK
  <1>4. pc["worker"] \in {"handle", "create"} /\ host["worker"] \in Hosts
    BY <1>1, <1>3, WorkerHost DEF StoreHost, HandleRole, HandleScript
  <1>5. readTo' = [readTo EXCEPT ![host["worker"]] = line]
    BY <1>2, <1>3 DEF Handled
  <1>6. h = host["worker"] /\ i <= line /\ line > 0
    BY <1>2, <1>4, <1>5
  <1>7. i = line
    BY <1>2, <1>4, <1>6 DEF ReadInv, AtLine
  <1>8. ~StoreHost("worker")
    BY <1>6 DEF StoreHost, AloneInv
  <1> QED
    BY <1>1, <1>3, <1>6, <1>7, <1>8 DEF HandleRole, HandleScript

LEMMA StepHandled ==
    ASSUME TypeOK, ReadInv, AloneInv, StoredInv, HandledMeansStored, [Next]_vars
    PROVE  HandledMeansStored'
  <1> SUFFICES ASSUME ~crossed', ~lossy', NEW h \in Hosts, NEW c \in Commands,
                      NEW i \in 1..readTo'[h], RunsAt(crontab[h], i, c)
               PROVE  script'[c] # NoNode
    BY QuietBefore DEF HandledMeansStored
  <1>1. ~crossed /\ ~lossy /\ readTo[h] \in Nat /\ readTo'[h] \in Nat
    BY QuietBefore, StepType DEF TypeOK
  <1>2. CASE i <= readTo[h]
    BY <1>1, <1>2, GraphGrows DEF HandledMeansStored
  <1>3. CASE i > readTo[h]
    <2>1. /\ h = host["worker"] /\ i = line /\ pc["worker"] = "handle"
          /\ HandleRole("worker") \/ HandleScript("worker")
      BY <1>1, <1>3, NewlyRead
    <2>2. line > 0 /\ line \in Nat
      BY <2>1 DEF TypeOK
    <2>3. currentState = ScriptLine(c)
      BY <1>1, <2>1, <2>2, FoundState DEF RunsAt, AloneInv
    <2>4. HandleScript("worker") /\ currentState.command = c
      BY <2>1, <2>3 DEF HandleRole, ScriptLine
    <2>5. hostName = host["worker"] /\ host["worker"] \in hosts
      BY <1>1, <2>1, <2>2 DEF AloneInv, StoredInv, AtLine
    <2>6. CreateAndMatch(c, currentRole, hostName)
      BY <1>1, <2>4 DEF HandleScript
    <2>7. [host |-> hostName, role |-> currentRole] # NoNode
      BY <2>1, <2>5, WorkerHost DEF TypeOK
    <2> QED
      BY <2>5, <2>6, <2>7 DEF CreateAndMatch, TypeOK, GraphTypeOK
  <1> QED
    BY <1>1, <1>2, <1>3

-----------------------------------------------------------------------------
(* The theorems.                                                             *)

LEMMA InitInv == Init => IInv
  <1> SUFFICES ASSUME Init PROVE IInv
    OBVIOUS
  <1>1. TypeOK
    BY InitType
  <1>2. pc["worker"] = "idle" /\ pc["caller"] = "idle"
    BY DEF Init
  <1>3. ReadInv
    BY <1>1, <1>2, WorkerHost DEF Init, ReadInv, AtLine
  <1>4. AloneInv /\ RoleInv /\ StoredInv
    BY <1>2 DEF AloneInv, RoleInv, StoredInv, AtLine, Inside
  <1>5. OnHostThatRunsIt /\ RoleFromItsCrontab /\ HandledMeansStored
    BY DEF Init, GraphInit, OnHostThatRunsIt, RoleFromItsCrontab, HandledMeansStored
  <1> QED
    BY <1>1, <1>3, <1>4, <1>5 DEF IInv

LEMMA StepInv == IInv /\ [Next]_vars => IInv'
  BY StepType, StepRead, StepAlone, StepRole, StepStored, StepOnHost, StepRoleOf,
     StepHandled DEF IInv

\* The inductive invariant.
THEOREM Invariant == Spec => []IInv
  BY InitInv, StepInv, PTL DEF Spec

\* Without crossing threads every script is on a host that runs it.
THEOREM OnHostCorrect == Spec => []OnHostThatRunsIt
  <1>1. IInv => OnHostThatRunsIt
    BY DEF IInv
  <1> QED
    BY <1>1, Invariant, PTL

\* Without crossing threads every script has the role its own crontab gives it.
THEOREM RoleCorrect == Spec => []RoleFromItsCrontab
  <1>1. IInv => RoleFromItsCrontab
    BY DEF IInv
  <1> QED
    BY <1>1, Invariant, PTL

\* Without crossing threads and failed queries what was read is stored.
THEOREM HandledCorrect == Spec => []HandledMeansStored
  <1>1. IInv => HandledMeansStored
    BY DEF IInv
  <1> QED
    BY <1>1, Invariant, PTL

\* A script never moves to another host and never changes its role.
THEOREM FirstHostCorrect == Spec => FirstHostKeeps
  <1>1. TypeOK /\ [Next]_vars
          => [\A c \in Commands : script[c] # NoNode => script'[c] = script[c]]_vars
    BY GraphGrows
  <1> QED
    BY <1>1, TypeCorrect, PTL DEF Spec, FirstHostKeeps

\* All that discovery does to the graph, from any thread, is what GraphSync
\* expects of it (GraphSpec), so that what is shown of GraphSync holds beside it.
THEOREM Refinement == Spec => GraphSpec
  <1>1. Init => GraphInit
    BY DEF Init
  <1>2. TypeOK /\ [Next]_vars => [Discovered]_graphVars
    <2> SUFFICES ASSUME TypeOK, [Next]_vars
                 PROVE  [Discovered]_graphVars
      OBVIOUS
    <2>1. ASSUME NEW a \in Threads, StoreHost(a)
          PROVE  [Discovered]_graphVars
      <3>1. creating[a] \in Hosts
        BY <2>1 DEF StoreHost, TypeOK
      <3> QED
        BY <2>1, <3>1 DEF StoreHost, QueryFails, Discovered
    <2>2. ASSUME NEW a \in Threads, HandleScript(a)
          PROVE  [Discovered]_graphVars
      <3>1. currentState.command \in Commands
        BY <2>2, StateKinds DEF HandleScript, TypeOK, ScriptLine
      <3>2. CASE hostName = NoHost /\ CreateAndMatch(currentState.command, currentRole, hostName)
        BY <3>2 DEF CreateAndMatch, TypeOK, GraphTypeOK, graphVars
      <3>3. CASE hostName # NoHost /\ CreateAndMatch(currentState.command, currentRole, hostName)
        BY <3>1, <3>3 DEF Discovered, TypeOK
      <3> QED
        BY <2>2, <3>2, <3>3 DEF HandleScript, QueryFails
    <2>3. \/ UNCHANGED graphVars
          \/ \E a \in Threads : StoreHost(a) \/ HandleScript(a)
      BY DEF Next, Handle, Work, vars, AssignHostName, Discover, DiscoverThrows,
         HandleInitial, HandleRole, Unreachable, Enqueue, BeginWork, WorkThrows,
         Reinitialize, GetCronFile, WorkEnds, ReadLine
    <2> QED
      BY <2>1, <2>2, <2>3
  <1> QED
    BY <1>1, <1>2, TypeCorrect, PTL DEF Spec, GraphSpec
=============================================================================
