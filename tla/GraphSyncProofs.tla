---------------------------- MODULE GraphSyncProofs ----------------------------
(***************************************************************************)
(* Proofs about GraphSync, for any hosts, scripts, repositories and number *)
(* of calls.                                                               *)
(***************************************************************************)
EXTENDS GraphSync, TLAPS

-----------------------------------------------------------------------------
(* What a step does to the graph *)

\* A script that is in the graph stays what it is.
LEMMA ScriptsStay ==
  ASSUME TypeOK, [Next]_vars, NEW c \in Commands
  PROVE  script[c] # NoNode => script'[c] = script[c]
  <1>0. script \in [Commands -> ScriptNodes \cup {NoNode}]
    BY DEF TypeOK, Types, GraphTypeOK
  <1> QED
    BY <1>0 DEF Next, Discovers, Discovered, CreateHost, CreateAndMatch, Works, Ends, ListFails,
       GetAllScripts, LinkThrows, Linked, ReflectAgain, Reflected, Completes, Throws, Returns,
       LinkToRepository, ReflectProper, ReflectImproper, Generate,
       dataVars, graphVars, vars

\* Discovery keeps the graph a graph.
LEMMA GraphType == GraphTypeOK /\ TypeOK /\ [Next]_vars => GraphTypeOK'
  <1> SUFFICES ASSUME GraphTypeOK, TypeOK, [Next]_vars PROVE GraphTypeOK'
    OBVIOUS
  <1>1. ASSUME NEW c \in Commands, NEW r \in Roles \cup {NoRole}, NEW h \in Hosts, CreateAndMatch(c, r, h)
        PROVE  GraphTypeOK'
    <2>1. [host |-> h, role |-> r] \in ScriptNodes
      BY DEF ScriptNodes
    <2> QED
      BY <1>1, <2>1 DEF GraphTypeOK, CreateAndMatch
  <1>2. ASSUME NEW h \in Hosts, CreateHost(h)
        PROVE  GraphTypeOK'
    BY <1>2 DEF GraphTypeOK, CreateHost
  <1>3. CASE UNCHANGED graphVars
    BY <1>3 DEF GraphTypeOK, graphVars
  <1> QED
    BY <1>1, <1>2, <1>3 DEF Next, Discovers, Discovered, Works, Ends, ListFails,
       GetAllScripts, LinkThrows, Linked, ReflectAgain, Reflected, Completes, Throws, Returns,
       LinkToRepository, ReflectProper, ReflectImproper, Generate,
       dataVars, vars

\* What a step does to the links: nothing, or what Link does for one script.
LEMMA StepLinks ==
  ASSUME TypeOK, [Next]_vars
  PROVE  UNCHANGED on \/ \E c \in Commands : Link(c)
  BY DEF Next, Discovers, Works, Ends, ListFails,
     GetAllScripts, LinkThrows, Linked, ReflectAgain, Reflected, Completes, Throws, Returns,
     LinkToRepository, ReflectProper, ReflectImproper, Generate,
     TryLink, TypeOK, Types, dataVars, vars

-----------------------------------------------------------------------------
(* Links *)

\* Linking keeps a script on the repository of its path and a repository with one
\* script.
LEMMA LinkKeepsLinkInv ==
  ASSUME TypeOK, LinkInv, NEW c \in Commands, Link(c)
  PROVE  LinkInv'
  <1>0. /\ on \in [Commands -> Repositories \cup {NoRepository}]
        /\ RepositoryOf[c] # NoRepository
    BY RepositoriesAssumption DEF TypeOK, Types
  <1>1. CASE UNCHANGED on
    BY <1>1 DEF LinkInv
  <1>2. CASE on' = [on EXCEPT ![c] = RepositoryOf[c]] /\ \A d \in Commands : on[d] # RepositoryOf[c]
    BY <1>0, <1>2 DEF LinkInv
  <1> QED
    BY <1>1, <1>2 DEF Link

LEMMA StepLinkInv == TypeOK /\ LinkInv /\ [Next]_vars => LinkInv'
  <1> SUFFICES ASSUME TypeOK, LinkInv, [Next]_vars PROVE LinkInv'
    OBVIOUS
  <1>1. CASE UNCHANGED on
    BY <1>1 DEF LinkInv
  <1> QED
    BY <1>1, StepLinks, LinkKeepsLinkInv

\* A link that is there stays ...
LEMMA LinksStay ==
  ASSUME TypeOK, LinkInv, [Next]_vars, NEW d \in Commands, on[d] # NoRepository
  PROVE  on'[d] = on[d]
  <1>0. on \in [Commands -> Repositories \cup {NoRepository}]
    BY DEF TypeOK, Types
  <1>1. ASSUME NEW c \in Commands, Link(c) PROVE on'[d] = on[d]
    BY <1>0, <1>1 DEF Link, LinkInv
  <1> QED
    BY <1>1, StepLinks

\* ... and so does the one script of a repository.
LEMMA OneScriptStays ==
  ASSUME TypeOK, LinkInv, [Next]_vars, NEW c \in Commands, HasOneScript(c)
  PROVE  HasOneScript(c)'
  <1>0. RepositoryOf[c] # NoRepository
    BY RepositoriesAssumption
  <1>1. PICK d \in Commands : \A e \in Commands : on[e] = RepositoryOf[c] <=> e = d
    BY DEF HasOneScript
  <1>2. on'[d] = RepositoryOf[c]
    BY <1>0, <1>1, LinksStay
  <1>3. \A e \in Commands : on'[e] = on'[d] /\ on'[e] # NoRepository => e = d
    BY StepLinkInv DEF LinkInv
  <1>4. \A e \in Commands : on'[e] = RepositoryOf[c] <=> e = d
    BY <1>0, <1>2, <1>3
  <1> QED
    BY <1>4 DEF HasOneScript

\* A query to link a script of the graph leaves its repository with one script.
LEMMA LinkGives ==
  ASSUME TypeOK, LinkInv, NEW c \in Commands, script[c] # NoNode, Link(c)
  PROVE  HasOneScript(c)'
  <1>0. /\ on \in [Commands -> Repositories \cup {NoRepository}]
        /\ RepositoryOf[c] # NoRepository
    BY RepositoriesAssumption DEF TypeOK, Types
  <1>1. \E d \in Commands : on'[d] = RepositoryOf[c]
    BY <1>0 DEF Link
  <1>2. PICK d \in Commands : on'[d] = RepositoryOf[c]
    BY <1>1
  <1>3. \A e \in Commands : on'[e] = on'[d] /\ on'[e] # NoRepository => e = d
    BY LinkKeepsLinkInv DEF LinkInv
  <1>4. \A e \in Commands : on'[e] = RepositoryOf[c] <=> e = d
    BY <1>0, <1>2, <1>3
  <1> QED
    BY <1>4 DEF HasOneScript

-----------------------------------------------------------------------------
(* The inductive invariant *)

LEMMA StepTypes == TypeOK /\ [Next]_vars => Types'
  <1> SUFFICES ASSUME TypeOK, [Next]_vars PROVE Types'
    OBVIOUS
  <1>0. GraphTypeOK'
    BY GraphType DEF TypeOK, Types
  <1>1. on' \in [Commands -> Repositories \cup {NoRepository}]
    BY StepLinks, RepositoriesAssumption DEF TypeOK, Types, Link
  <1>2. CASE UNCHANGED <<pc, pipeVars, callVars, todo, current, missed>>
    BY <1>0, <1>1, <1>2 DEF TypeOK, Types, callVars, pipeVars
  <1>3. ASSUME NEW k \in Calls, NEW h \in Hosts, Generate(k, h) PROVE Types'
    BY <1>0, <1>1, <1>3 DEF TypeOK, Types, Generate, Goes
  <1>4. ASSUME NEW k \in Calls, ListFails(k) \/ Reflected(k) PROVE Types'
    BY <1>0, <1>1, <1>4 DEF TypeOK, Types, ListFails, Reflected, Goes, IsOver, callVars, pipeVars, Stages
  <1>5. ASSUME NEW k \in Calls, GetAllScripts(k) \/ LinkThrows(k) PROVE Types'
    BY <1>0, <1>1, <1>5 DEF TypeOK, Types, GetAllScripts, LinkThrows, Goes, IsOver, Stages
  <1>6. ASSUME NEW k \in Calls, Linked(k) PROVE Types'
    BY <1>0, <1>1, <1>6 DEF TypeOK, Types, Linked, Goes, IsOver, callVars, Stages
  <1>7. ASSUME NEW k \in Calls, NEW c \in Commands,
               LinkToRepository(k, c) \/ ReflectProper(k, c) \/ ReflectImproper(k, c)
        PROVE  Types'
    <2>1. missed' \in [Calls -> SUBSET Commands]
      BY <1>7 DEF LinkToRepository, ReflectProper, ReflectImproper, TryLink, TryFails, TypeOK, Types
    <2>2. /\ todo' \in [Calls -> SUBSET Commands] /\ current' \in [Calls -> Commands \cup {NoNode}]
          /\ UNCHANGED <<pc, pipeVars, callVars>>
      BY <1>7 DEF LinkToRepository, ReflectProper, ReflectImproper, TypeOK, Types
    <2> QED
      BY <1>0, <1>1, <2>1, <2>2 DEF TypeOK, Types, callVars, pipeVars
  <1>8. ASSUME NEW k \in Calls, ReflectAgain(k) PROVE Types'
    <2>1. current[k] \in Commands
      BY <1>8 DEF TypeOK, Types, ReflectAgain
    <2>2. missed' \in [Calls -> SUBSET Commands]
      BY <1>8, <2>1 DEF ReflectAgain, TryLink, TryFails, TypeOK, Types
    <2>3. /\ todo' \in [Calls -> SUBSET Commands] /\ current' \in [Calls -> Commands \cup {NoNode}]
          /\ UNCHANGED <<pc, pipeVars, callVars>>
      BY <1>8 DEF ReflectAgain, TypeOK, Types
    <2> QED
      BY <1>0, <1>1, <2>2, <2>3 DEF TypeOK, Types, callVars, pipeVars
  <1>9. ASSUME NEW k \in Calls, Ends(k) PROVE Types'
    <2>1. /\ over' \in [Calls -> SUBSET Stages]
          /\ call' \in [Calls -> {"new", "waits", "returned", "threw"}]
      BY <1>9 DEF Ends, Throws, Returns, Completes, IsOver, TypeOK, Types, Stages
    <2>2. UNCHANGED <<pc, host, listed, todo, current, missed>>
      BY <1>9 DEF Ends, Throws, Returns, Completes, dataVars, callVars
    <2> QED
      BY <1>0, <1>1, <2>1, <2>2 DEF TypeOK, Types
  <1> QED
    BY <1>2, <1>3, <1>4, <1>5, <1>6, <1>7, <1>8, <1>9 DEF Next, Discovers, Works, vars

LEMMA StepCallsOK == TypeOK /\ PipeInv /\ [Next]_vars => CallsOK'
  <1> SUFFICES ASSUME TypeOK, PipeInv, [Next]_vars PROVE CallsOK'
    OBVIOUS
  <1>0. /\ call \in [Calls -> {"new", "waits", "returned", "threw"}]
        /\ pc \in [Calls -> {"new", "list", "link", "reflect", "done", "unlisted", "unlinked"}]
        /\ host \in [Calls -> Hosts \cup {NoHost}]
        /\ listed \in [Calls -> SUBSET Commands] /\ todo \in [Calls -> SUBSET Commands]
        /\ current \in [Calls -> Commands \cup {NoNode}] /\ NoNode \notin Commands
    BY RepositoriesAssumption DEF TypeOK, Types
  <1>1. ASSUME NEW k \in Calls, NEW c \in listed[k]
        PROVE  script'[c] # NoNode /\ script'[c].host = host[k]
    <2>1. c \in Commands /\ script[c] # NoNode /\ script[c].host = host[k]
      BY <1>0, <1>1 DEF TypeOK, CallsOK
    <2> QED
      BY <2>1, ScriptsStay
  <1>2. CASE UNCHANGED <<pc, pipeVars, callVars, todo, current, missed>>
    BY <1>1, <1>2 DEF TypeOK, CallsOK, callVars, pipeVars
  <1>3. ASSUME NEW k \in Calls, NEW h \in Hosts, Generate(k, h) PROVE CallsOK'
    BY <1>0, <1>1, <1>3 DEF TypeOK, CallsOK, Generate, Goes, Stages
  <1>4. ASSUME NEW k \in Calls, ListFails(k) \/ Reflected(k) PROVE CallsOK'
    BY <1>0, <1>1, <1>4 DEF TypeOK, CallsOK, ListFails, Reflected, Goes, callVars, pipeVars, Stages
  <1>5. ASSUME NEW k \in Calls, GetAllScripts(k) PROVE CallsOK'
    BY <1>0, <1>1, <1>5 DEF TypeOK, CallsOK, GetAllScripts, Goes, graphVars, Stages
  <1>6. ASSUME NEW k \in Calls, LinkThrows(k) PROVE CallsOK'
    BY <1>0, <1>1, <1>6 DEF TypeOK, CallsOK, LinkThrows, Goes, Stages
  <1>7. ASSUME NEW k \in Calls, Linked(k) PROVE CallsOK'
    BY <1>0, <1>1, <1>7 DEF TypeOK, CallsOK, Linked, Goes, callVars, Stages
  <1>8. ASSUME NEW k \in Calls, NEW c \in Commands, LinkToRepository(k, c) PROVE CallsOK'
    BY <1>0, <1>1, <1>8 DEF TypeOK, CallsOK, LinkToRepository, callVars, pipeVars
  <1>9. ASSUME NEW k \in Calls, NEW c \in Commands, ReflectProper(k, c) \/ ReflectImproper(k, c)
        PROVE  CallsOK'
    BY <1>0, <1>1, <1>9 DEF TypeOK, CallsOK, ReflectProper, ReflectImproper, callVars, pipeVars
  <1>10. ASSUME NEW k \in Calls, ReflectAgain(k) PROVE CallsOK'
    BY <1>0, <1>1, <1>10 DEF TypeOK, CallsOK, ReflectAgain, callVars, pipeVars
  <1>11. ASSUME NEW k \in Calls, Ends(k) PROVE CallsOK'
    <2>1. UNCHANGED <<pc, host, listed, todo, current>>
      BY <1>11 DEF Ends, Throws, Returns, Completes, dataVars, callVars
    <2>2. \A j \in Calls : j # k => call'[j] = call[j]
      BY <1>0, <1>11 DEF Ends, Throws, Returns, Completes
    <2>3. call'[k] # call[k] => pc[k] \notin Stages
      BY <1>0, <1>11 DEF Ends, Throws, Returns, Completes, PipeInv, Stages
    <2> QED
      BY <1>0, <1>1, <2>1, <2>2, <2>3 DEF TypeOK, CallsOK
  <1> QED
    BY <1>2, <1>3, <1>4, <1>5, <1>6, <1>7, <1>8, <1>9, <1>10, <1>11 DEF Next, Discovers, Works, vars

LEMMA StepType == TypeOK /\ PipeInv /\ [Next]_vars => TypeOK'
  BY StepTypes, StepCallsOK DEF TypeOK

\* A block is over only after the ones before it, and the caller waits for them.
LEMMA StepPipe == TypeOK /\ PipeInv /\ [Next]_vars => PipeInv'
  <1> SUFFICES ASSUME TypeOK, PipeInv, [Next]_vars PROVE PipeInv'
    OBVIOUS
  <1>1. CASE UNCHANGED <<pc, pipeVars, listed>>
    BY <1>1 DEF PipeInv, pipeVars
  <1>2. ASSUME NEW k \in Calls, NEW h \in Hosts, Generate(k, h) PROVE PipeInv'
    BY <1>2 DEF TypeOK, Types, PipeInv, Generate, Goes
  <1>3. ASSUME NEW k \in Calls, ListFails(k) \/ Reflected(k) PROVE PipeInv'
    <2>1. ListFails(k) => listed[k] = {}
      BY DEF TypeOK, CallsOK, ListFails
    <2> QED
      BY <1>3, <2>1 DEF TypeOK, Types, PipeInv, ListFails, Reflected, Goes, IsOver, callVars, pipeVars
  <1>4. ASSUME NEW k \in Calls, GetAllScripts(k) PROVE PipeInv'
    BY <1>4 DEF TypeOK, Types, PipeInv, GetAllScripts, Goes, IsOver
  <1>5. ASSUME NEW k \in Calls, LinkThrows(k) \/ Linked(k) PROVE PipeInv'
    BY <1>5 DEF TypeOK, Types, PipeInv, LinkThrows, Linked, Goes, IsOver, callVars
  <1>6. ASSUME NEW k \in Calls, NEW b \in {"link", "reflect"}, Completes(k, b) PROVE PipeInv'
    <2>1. b = "link" => pc[k] \notin {"new", "list", "link"}
      BY <1>6 DEF PipeInv, Completes, Told, Before
    <2>2. b = "reflect" => "link" \in over[k] /\ pc[k] # "reflect"
      BY <1>6 DEF Completes, Told, Before
    <2>3. UNCHANGED <<pc, call, listed>> /\ over' = [over EXCEPT ![k] = @ \cup {b}]
      BY <1>6 DEF Completes, IsOver, dataVars, callVars
    <2> QED
      BY <2>1, <2>2, <2>3 DEF TypeOK, Types, PipeInv
  <1>7. ASSUME NEW k \in Calls, Throws(k) \/ Returns(k) PROVE PipeInv'
    BY <1>7 DEF TypeOK, Types, PipeInv, Throws, Returns, dataVars, callVars
  <1>8. ASSUME NEW k \in Calls, NEW c \in Commands,
               LinkToRepository(k, c) \/ ReflectProper(k, c) \/ ReflectImproper(k, c) \/ ReflectAgain(k)
        PROVE  UNCHANGED <<pc, pipeVars, listed>>
    BY <1>8 DEF LinkToRepository, ReflectProper, ReflectImproper, ReflectAgain, callVars
  <1>9. ASSUME NEW k \in Calls, ReflectAgain(k)
        PROVE  UNCHANGED <<pc, pipeVars, listed>>
    BY <1>9 DEF ReflectAgain, callVars
  <1> QED
    BY <1>1, <1>2, <1>3, <1>4, <1>5, <1>6, <1>7, <1>8, <1>9
    DEF Next, Works, Ends, Discovers, callVars, vars

\* A script leaves k's missed scripts, or its first block, only with its
\* repository in the graph or as missed.
LEMMA StepTried == TypeOK /\ PipeInv /\ LinkInv /\ TriedInv /\ [Next]_vars => TriedInv'
  <1> SUFFICES ASSUME TypeOK, PipeInv, LinkInv, TriedInv, [Next]_vars, NEW k \in Calls,
                      pc'[k] \in {"link", "reflect", "done"},
                      NEW c \in listed'[k] \ missed'[k]
               PROVE  HasOneScript(c)' \/ (pc'[k] = "link" /\ c \in todo'[k])
    BY DEF TriedInv
  <1>0. /\ pc \in [Calls -> {"list", "link", "reflect", "new", "done", "unlisted", "unlinked"}]
        /\ listed \in [Calls -> SUBSET Commands] /\ todo \in [Calls -> SUBSET Commands]
        /\ missed \in [Calls -> SUBSET Commands]
        /\ pc[k] \in {"new", "list"} => listed[k] = {}
        /\ current[k] # NoNode => pc[k] = "reflect"
        /\ todo[k] \subseteq listed[k]
    BY DEF TypeOK, Types, CallsOK, Stages
  <1>1. c \in Commands
    BY StepType DEF TypeOK, Types, CallsOK
  <1>2. HasOneScript(c) => HasOneScript(c)'
    BY <1>1, OneScriptStays
  <1>3. ASSUME pc[k] \in {"link", "reflect", "done"}, c \in listed[k] \ missed[k]
        PROVE  HasOneScript(c) \/ (pc[k] = "link" /\ c \in todo[k])
    BY <1>3 DEF TriedInv
  <1>4. CASE pc'[k] = pc[k] /\ listed'[k] = listed[k] /\ todo'[k] = todo[k] /\ missed'[k] = missed[k]
    BY <1>2, <1>3, <1>4
  <1>5. ASSUME NEW j \in Calls, j # k, Works(j) \/ Ends(j) \/ \E h \in Hosts : Generate(j, h)
        PROVE  pc'[k] = pc[k] /\ listed'[k] = listed[k] /\ todo'[k] = todo[k] /\ missed'[k] = missed[k]
    BY <1>0, <1>5 DEF Works, Ends, ListFails,
       GetAllScripts, LinkThrows, Linked, ReflectAgain, Reflected, Completes, Throws, Returns,
       LinkToRepository, ReflectProper, ReflectImproper, Generate,
       TryLink, TryFails, Goes, dataVars, callVars
  <1>6. ASSUME NEW h \in Hosts, Generate(k, h) PROVE FALSE
    BY <1>0, <1>6 DEF Generate, Goes
  <1>7. CASE ListFails(k)
    BY <1>0, <1>7 DEF ListFails, Goes
  <1>8. CASE GetAllScripts(k)
    <2>1. pc'[k] = "link" /\ listed'[k] = todo'[k]
      BY <1>0, <1>8 DEF GetAllScripts, Goes
    <2> QED
      BY <2>1
  <1>9. CASE LinkThrows(k)
    BY <1>0, <1>9 DEF LinkThrows, Goes
  <1>10. CASE Linked(k)
    <2>1. pc[k] = "link" /\ todo[k] = {} /\ listed'[k] = listed[k] /\ missed'[k] = missed[k]
      BY <1>10 DEF Linked, callVars
    <2> QED
      BY <1>2, <1>3, <2>1
  <1>11. CASE Reflected(k)
    <2>1. pc[k] = "reflect" /\ listed'[k] = listed[k] /\ missed'[k] = missed[k]
      BY <1>11 DEF Reflected, callVars
    <2> QED
      BY <1>2, <1>3, <2>1
  <1>12. ASSUME NEW d \in Commands, TryLink(k, d), d \in listed[k], UNCHANGED <<pc, listed>>,
                \/ todo' = [todo EXCEPT ![k] = @ \ {d}]
                \/ UNCHANGED todo
         PROVE  HasOneScript(c)' \/ (pc'[k] = "link" /\ c \in todo'[k])
    <2>1. pc[k] \in {"link", "reflect", "done"} /\ c \in listed[k]
      BY <1>12
    <2>2. CASE c # d
      <3>1. c \notin missed[k]
        BY <1>0, <1>12, <2>2 DEF TryLink, TryFails
      <3>2. c \in todo[k] => c \in todo'[k]
        BY <1>0, <1>12, <2>2
      <3> QED
        BY <1>2, <1>3, <1>12, <2>1, <3>1, <3>2
    <2>3. CASE c = d /\ Link(d)
      <3>1. script[c] # NoNode
        BY <2>1 DEF TypeOK, Types, CallsOK
      <3> QED
        BY <1>1, <2>3, <3>1, LinkGives
    <2>4. CASE c = d /\ UNCHANGED on /\ TryFails(k, d)
      <3>1. pc[k] # "link" /\ c \notin missed[k]
        BY <1>0, <2>4 DEF TryFails
      <3> QED
        BY <1>2, <1>3, <2>1, <3>1
    <2> QED
      BY <1>12, <2>2, <2>3, <2>4 DEF TryLink
  <1>13. ASSUME NEW d \in Commands, LinkToRepository(k, d) \/ ReflectProper(k, d)
         PROVE  HasOneScript(c)' \/ (pc'[k] = "link" /\ c \in todo'[k])
    <2>1. d \in listed[k]
      BY <1>0, <1>13 DEF LinkToRepository, ReflectProper
    <2> QED
      BY <1>12, <1>13, <2>1 DEF LinkToRepository, ReflectProper, callVars
  <1>14. ASSUME NEW d \in Commands, ReflectImproper(k, d)
         PROVE  HasOneScript(c)' \/ (pc'[k] = "link" /\ c \in todo'[k])
    BY <1>4, <1>14 DEF ReflectImproper, callVars
  <1>15. CASE ReflectAgain(k)
    <2>1. current[k] \in Commands /\ current[k] \in listed[k]
      BY <1>15 DEF ReflectAgain, TypeOK, Types, CallsOK
    <2> QED
      BY <1>12, <1>15, <2>1 DEF ReflectAgain, callVars
  <1>16. CASE Discovers \/ Ends(k) \/ UNCHANGED vars
    BY <1>4, <1>16 DEF Discovers, Ends, Completes, Throws, Returns, dataVars, callVars, vars
  <1> QED
    BY <1>4, <1>5, <1>6, <1>7, <1>8, <1>9, <1>10, <1>11, <1>13, <1>14, <1>15, <1>16
    DEF Next, Works

LEMMA InitIInv == Init => IInv
  <1> SUFFICES ASSUME Init PROVE IInv
    OBVIOUS
  <1>1. TypeOK
    BY DEF Init, TypeOK, Types, CallsOK, GraphInit, GraphTypeOK
  <1>2. LinkInv /\ TriedInv /\ PipeInv
    BY DEF Init, LinkInv, TriedInv, PipeInv
  <1> QED
    BY <1>1, <1>2 DEF IInv

LEMMA NextIInv == IInv /\ [Next]_vars => IInv'
  BY StepType, StepPipe, StepLinkInv, StepTried DEF IInv

\* The inductive invariant: calls, links and the graph agree, for any hosts,
\* scripts, repositories and number of calls at once (ScriptSyncService:52-219).
THEOREM Invariant == Spec => []IInv
  BY InitIInv, NextIInv, PTL DEF Spec

\* Every variable has its shape (ScriptSyncService:52-219).
THEOREM TypeCorrect == Spec => []TypeOK
  <1>1. IInv => TypeOK
    BY DEF IInv
  <1> QED
    BY Invariant, <1>1, PTL

\* A call that returned has had its message through all blocks, or listed nothing.
LEMMA DoneWhenReturned ==
  ASSUME TypeOK, PipeInv, NEW k \in Calls,
         call[k] = "returned" \/ Returns(k)
  PROVE  pc[k] = "done" \/ listed[k] = {}
  <1>1. {"link", "reflect"} \subseteq over[k] /\ pc[k] # "unlinked"
    BY DEF PipeInv, Returns
  <1> QED
    BY <1>1 DEF TypeOK, Types, CallsOK, PipeInv, Stages

\* What a call that returned has listed and could link once has its repository in
\* the graph, with one script (ScriptSyncService:164-219).
THEOREM ReturnedMeansLinkedCorrect == Spec => []ReturnedMeansLinked
  <1>1. IInv => ReturnedMeansLinked
    <2> SUFFICES ASSUME IInv, NEW k \in Calls, call[k] = "returned",
                        NEW c \in listed[k] \ missed[k]
                 PROVE  HasOneScript(c)
      BY DEF ReturnedMeansLinked
    <2> QED
      BY DoneWhenReturned DEF IInv, TriedInv
  <1> QED
    BY Invariant, <1>1, PTL

-----------------------------------------------------------------------------
(* RepositoryLinks *)

\* A step of discovery makes one script known, or none.
LEMMA DiscoversKnown ==
  ASSUME TypeOK, Discovered
  PROVE  Known' = Known \/ \E c \in Commands : Known' = Known \cup {c}
  <1>0. script \in [Commands -> ScriptNodes \cup {NoNode}] /\ hosts \subseteq Hosts
    BY DEF TypeOK, Types, GraphTypeOK
  <1>1. ASSUME NEW c \in Commands, NEW r \in Roles \cup {NoRole}, NEW h \in Hosts,
               CreateAndMatch(c, r, h)
        PROVE  Known' = Known \/ Known' = Known \cup {c}
    <2>1. [host |-> h, role |-> r] # NoNode
      BY NamesAssumption
    <2>2. CASE script' = script
      BY <2>2 DEF Known
    <2>3. CASE script' = [script EXCEPT ![c] = [host |-> h, role |-> r]]
      BY <1>0, <2>1, <2>3 DEF Known
    <2> QED
      BY <1>1, <2>2, <2>3 DEF CreateAndMatch
  <1>2. ASSUME NEW h \in Hosts, CreateHost(h)
        PROVE  Known' = Known
    BY <1>2 DEF CreateHost, Known
  <1> QED
    BY <1>1, <1>2 DEF Discovered

\* Only the step with which a call returns changes what it answers for.
LEMMA AnswersStay ==
  ASSUME TypeOK, [Next]_vars, \A k \in Calls : ~Returns(k)
  PROVE  Answers' = Answers
  <1> SUFFICES ASSUME NEW k \in Calls
               PROVE  (IF call'[k] = "returned" THEN listed'[k] \ missed'[k] ELSE {})
                        = (IF call[k] = "returned" THEN listed[k] \ missed[k] ELSE {})
    BY DEF Answers
  <1>0. /\ call \in [Calls -> {"new", "waits", "returned", "threw"}]
        /\ listed \in [Calls -> SUBSET Commands] /\ missed \in [Calls -> SUBSET Commands]
        /\ call[k] = "returned" => pc[k] \notin {"list", "link", "reflect"}
        /\ current[k] # NoNode => pc[k] = "reflect"
    BY DEF TypeOK, Types, CallsOK, Stages
  <1>1. ASSUME NEW j \in Calls, j # k, Works(j) \/ Ends(j) \/ \E h \in Hosts : Generate(j, h)
        PROVE  call'[k] = call[k] /\ listed'[k] = listed[k] /\ missed'[k] = missed[k]
    BY <1>0, <1>1 DEF Works, Ends, ListFails,
       GetAllScripts, LinkThrows, Linked, ReflectAgain, Reflected, Completes, Throws, Returns,
       LinkToRepository, ReflectProper, ReflectImproper, Generate,
       TryLink, TryFails, dataVars, callVars, pipeVars
  <1>2. ASSUME NEW h \in Hosts, Generate(k, h)
        PROVE  UNCHANGED <<listed, missed>> /\ call'[k] # "returned" /\ listed[k] = {}
    BY <1>0, <1>2 DEF Generate, TypeOK, CallsOK
  <1>3. CASE Works(k)
    <2>1. call[k] # "returned" /\ UNCHANGED call
      BY <1>0, <1>3 DEF Works, ListFails, GetAllScripts, LinkThrows, Linked, ReflectAgain, Reflected,
         LinkToRepository, ReflectProper, ReflectImproper, pipeVars
    <2> QED
      BY <2>1
  <1>4. CASE Ends(k)
    <2>1. /\ UNCHANGED <<listed, missed>>
          /\ UNCHANGED call \/ (call[k] = "waits" /\ call'[k] = "threw")
      BY <1>0, <1>4 DEF Ends, Completes, Throws, dataVars, callVars
    <2> QED
      BY <2>1
  <1>5. CASE Discovers \/ UNCHANGED vars
    <2>1. call' = call /\ listed' = listed /\ missed' = missed
      BY <1>5 DEF Discovers, vars, callVars, pipeVars
    <2> QED
      BY <2>1
  <1> QED
    BY <1>1, <1>2, <1>3, <1>4, <1>5 DEF Next

\* The graph of repositories is one that RepositoryLinks describes: linked once and
\* for ever, and completely for every call that returned
\* (ScriptSyncService:164-219, ScriptRepositoryRepository:50-74).
THEOREM Refinement == Spec => ImplementsRepositoryLinks
  <1>1. Init => Links!Init
    BY DEF Init, GraphInit, Links!Init, Known, Answers
  <1>2. IInv /\ [Next]_vars => [Links!Next]_(Links!vars)
    <2> SUFFICES ASSUME IInv, [Next]_vars
                 PROVE  [Links!Next]_(Links!vars)
      OBVIOUS
    <2>0. TypeOK /\ PipeInv /\ LinkInv /\ TriedInv
      BY DEF IInv
    <2>1. CASE Discovers
      <3>1. on' = on
        BY <2>1 DEF Discovers
      <3>2. Answers' = Answers
        BY <2>1 DEF Discovers, Answers, callVars, pipeVars
      <3>3. Known' = Known \/ \E c \in Commands : Known' = Known \cup {c}
        BY <2>0, <2>1, DiscoversKnown DEF Discovers
      <3> QED
        BY <3>1, <3>2, <3>3 DEF Links!Next, Links!Know, Links!vars
    <2>2. ASSUME NEW k \in Calls, Returns(k)
          PROVE  [Links!Next]_(Links!vars)
      <3>1. /\ call[k] = "waits" /\ call' = [call EXCEPT ![k] = "returned"]
            /\ pc[k] = "done" \/ listed[k] = {}
            /\ UNCHANGED <<graphVars, on, listed, missed>>
        BY <2>0, <2>2, DoneWhenReturned DEF Returns, dataVars, callVars
      <3>2. Known' = Known
        BY <3>1 DEF Known, graphVars
      <3> DEFINE S == listed[k] \ missed[k]
      <3>3. S \in SUBSET Commands
        BY <2>0 DEF TypeOK, Types, CallsOK
      <3>4. \A c \in S : c \in Known /\ \E d \in Commands : on[d] = RepositoryOf[c]
        BY <2>0, <3>1, <3>3 DEF TypeOK, Types, CallsOK, TriedInv, HasOneScript, Known
      <3>5. Answers[k] = {} /\ Answers' = [Answers EXCEPT ![k] = S]
        BY <2>0, <3>1 DEF Answers, TypeOK, Types
      <3> HIDE DEF S
      <3>6. Links!Answer(k, S)
        BY <3>1, <3>2, <3>4, <3>5 DEF Links!Answer, Links!Linked
      <3> QED
        BY <3>3, <3>6 DEF Links!Next
    <2>3. CASE ~Discovers /\ \A k \in Calls : ~Returns(k)
      <3>1. Answers' = Answers
        BY <2>0, <2>3, AnswersStay
      <3>2. UNCHANGED graphVars
        BY <2>3 DEF Next, Works, Ends, ListFails, GetAllScripts, LinkThrows, Linked, ReflectAgain,
           Reflected, Completes, Throws, Returns, LinkToRepository, ReflectProper, ReflectImproper,
           Generate, dataVars, vars
      <3>3. Known' = Known
        BY <3>2 DEF Known, graphVars
      <3>4. \/ UNCHANGED on
            \/ \E c \in Known : Link(c)
        <4>1. ASSUME NEW c \in Commands, Link(c)
              PROVE  UNCHANGED on \/ c \in Known
          BY <4>1 DEF Link, Known
        <4> QED
          BY <2>0, <4>1, StepLinks
      <3>5. ASSUME NEW c \in Known, Link(c), ~ UNCHANGED on
            PROVE  Links!Link(c)
        BY <3>1, <3>3, <3>5 DEF Link, Links!Link, Links!Linked
      <3>6. \A c \in Known : c \in Commands
        BY DEF Known
      <3> QED
        BY <3>1, <3>3, <3>4, <3>5, <3>6 DEF Links!Next, Links!vars
    <2> QED
      BY <2>1, <2>2, <2>3
  <1> QED
    BY <1>1, <1>2, Invariant, PTL DEF Spec, ImplementsRepositoryLinks, Links!Spec
=============================================================================
