---------------------------- MODULE DownloadsProofs ----------------------------
(***************************************************************************)
(* The safety of a download, for any tree of remote entries and any number *)
(* of calls and changes.  CopyInv follows the last good copy of a file     *)
(* from the local file to the .bak file, RootInv the loop over the root.   *)
(***************************************************************************)
EXTENDS Downloads, TLAPS

Walking == {"move", "create", "fetch"}

LEMMA ChildrenAreEntries == \A d \in Dirs : Children(d) \subseteq Entries
  BY DEF Children

LEMMA DirsOfTree ==
  /\ Root \in Dirs /\ Root \notin Entries /\ NoEntry \notin Entries
  /\ \A e \in Entries : Parent[e] \in Dirs /\ (Kind[e] = "dir" => e \in Dirs)
  /\ \A d \in Dirs : d # Root => d \in Entries
  BY TreeAssumption DEF Dirs

-----------------------------------------------------------------------------
(* Types *)

LEMMA InitType == Init => TypeOK
  <1> SUFFICES ASSUME Init PROVE TypeOK
    OBVIOUS
  <1>1. local \in [Entries -> {NoFile, 0}] /\ good = local
    BY DEF Init
  <1>2. local \in [Entries -> Contents] /\ good \in [Entries -> Nat \cup {NoFile}]
    BY <1>1 DEF Contents
  <1>3. /\ remote \in [Entries -> Nat] /\ bak \in [Entries -> Contents]
        /\ rotations \in [Entries -> Nat]
    BY DEF Init, Contents
  <1>4. /\ slash \in BOOLEAN /\ client = "null" /\ pc = "idle" /\ file = NoEntry
        /\ listed = FALSE /\ fetched = {} /\ failed = {}
    BY Zenon DEF Init
  <1>5. calls \in 0..MaxCalls
    BY BoundsAssumption DEF Init
  <1>6. /\ at \in Dirs /\ todo \in [Dirs -> SUBSET Entries]
        /\ \A d \in Dirs : todo[d] \subseteq Children(d)
    BY DirsOfTree DEF Init
  <1> QED
    BY <1>2, <1>3, <1>4, <1>5, <1>6 DEF TypeOK

LEMMA ForgetType ==
  ASSUME TypeOK, Forget
  PROVE  /\ at' \in Dirs /\ todo' \in [Dirs -> SUBSET Entries]
         /\ \A d \in Dirs : todo'[d] \subseteq Children(d)
         /\ file' = NoEntry /\ listed' \in BOOLEAN
         /\ fetched' \in SUBSET Entries /\ failed' \in SUBSET Entries
  BY DirsOfTree DEF TypeOK, Forget

\* The loop over a directory goes on with what is left of it.
LEMMA TakeType ==
  ASSUME TypeOK, NEW e \in Entries, Take(e)
  PROVE  /\ todo' \in [Dirs -> SUBSET Entries]
         /\ \A d \in Dirs : todo'[d] \subseteq todo[d] /\ todo'[d] \subseteq Children(d)
         /\ \A d \in Dirs : d # at => todo'[d] = todo[d]
         /\ todo'[at] = todo[at] \ {e}
         /\ e \in Children(at)
  BY DEF TypeOK, Take

LEMMA LeaveType ==
  ASSUME TypeOK, Leave
  PROVE  pc' \in {"loop", "returned"} /\ at' \in Dirs
  BY DirsOfTree DEF TypeOK, Leave

LEMMA StepType == TypeOK /\ [Next]_vars => TypeOK'
  <1> SUFFICES ASSUME TypeOK, [Next]_vars
               PROVE  TypeOK'
    OBVIOUS
  <1> USE DEF localVars, walkVars, callVars
  <1>1. CASE Connect
    BY <1>1 DEF TypeOK, Connect
  <1>2. CASE SessionDrops
    BY <1>2 DEF TypeOK, SessionDrops
  <1>3. ASSUME NEW e \in Entries, RemoteChanges(e)
        PROVE  TypeOK'
    BY <1>3 DEF TypeOK, RemoteChanges
  <1>4. CASE Crash
    BY <1>4, ForgetType DEF TypeOK, Crash
  <1>5. CASE Call
    <2>1. calls' \in 0..MaxCalls
      BY <1>5, BoundsAssumption DEF Call, TypeOK
    <2>2. CASE Forget /\ pc' \in {"threw", "returned"}
      BY <1>5, <2>1, <2>2, ForgetType DEF TypeOK, Call
    <2>3. CASE /\ pc' = "loop" /\ listed' = TRUE /\ fetched' = {} /\ failed' = {}
               /\ at' = Root /\ file' = NoEntry
               /\ todo' = [[d \in Dirs |-> {}] EXCEPT ![Root] = Children(Root)]
      <3>1. /\ todo' \in [Dirs -> SUBSET Entries]
            /\ \A d \in Dirs : todo'[d] \subseteq Children(d)
        BY <2>3, DirsOfTree, ChildrenAreEntries
      <3> QED
        BY <1>5, <2>1, <2>3, <3>1, DirsOfTree DEF TypeOK, Call
    <2> QED
      BY <1>5, <2>2, <2>3 DEF Call
  <1>6. CASE LoopEnds
    BY <1>6, LeaveType DEF TypeOK, LoopEnds
  <1>7. ASSUME NEW e \in Entries, VisitDot(e)
        PROVE  TypeOK'
    BY <1>7, LeaveType, TakeType DEF TypeOK, VisitDot
  <1>8. ASSUME NEW e \in Entries, VisitCsv(e)
        PROVE  TypeOK'
    BY <1>8, TakeType DEF TypeOK, VisitCsv
  <1>9. ASSUME NEW e \in Entries, VisitDir(e)
        PROVE  TypeOK'
    <2>1. CASE Take(e) /\ UNCHANGED <<pc, at, file, callVars>>
      BY <1>9, <2>1, TakeType DEF TypeOK, VisitDir
    <2>2. CASE pc' = "threw" /\ Forget /\ UNCHANGED calls
      BY <1>9, <2>2, ForgetType DEF TypeOK, VisitDir
    <2>3. CASE /\ at' = e
               /\ todo' = [todo EXCEPT ![at] = @ \ {e}, ![e] = Children(e)]
               /\ UNCHANGED <<pc, file, callVars>>
      <3>1. e \in Dirs
        BY <1>9, DirsOfTree DEF VisitDir
      <3>2. /\ todo' \in [Dirs -> SUBSET Entries]
            /\ \A d \in Dirs : todo'[d] \subseteq Children(d)
        BY <2>3, <3>1, ChildrenAreEntries DEF TypeOK
      <3> QED
        BY <1>9, <2>3, <3>1, <3>2 DEF TypeOK, VisitDir
    <2> QED
      BY <1>9, <2>1, <2>2, <2>3 DEF VisitDir
  <1>10. ASSUME NEW e \in Entries, VisitFile(e)
         PROVE  TypeOK'
    <2>1. file' = e /\ Copied(e) /\ pc' \in {"move", "create"}
      BY <1>10 DEF VisitFile
    <2>2. /\ local' \in [Entries -> Contents] /\ bak' \in [Entries -> Contents]
          /\ good' \in [Entries -> Nat \cup {NoFile}] /\ rotations' \in [Entries -> Nat]
      BY <1>10 DEF VisitFile, TypeOK, Contents
    <2> QED
      BY <1>10, <2>1, <2>2, TakeType DEF TypeOK, VisitFile, Copied
  <1>11. CASE Move
    BY <1>11 DEF TypeOK, Move, Contents, Copied
  <1>12. CASE Create
    BY <1>12 DEF TypeOK, Create, Contents, Copied
  <1>13. CASE LocalThrows
    BY <1>13, ForgetType DEF TypeOK, LocalThrows
  <1>14. CASE Fetch
    BY <1>14 DEF TypeOK, Fetch, Contents
  <1>15. CASE FetchFails
    BY <1>15 DEF TypeOK, FetchFails
  <1>16. CASE UNCHANGED vars
    BY <1>16 DEF TypeOK, vars, Copied
  <1> QED
    BY <1>1, <1>2, <1>3, <1>4, <1>5, <1>6, <1>7, <1>8, <1>9, <1>10, <1>11, <1>12,
       <1>13, <1>14, <1>15, <1>16 DEF Next, Walk

\* The state always has its declared shape: a file is in hand exactly while it is
\* moved, created or filled, and no loop holds an entry of another directory.
THEOREM TypeCorrect == Spec => []TypeOK
  <1>1. Init => TypeOK
    BY InitType
  <1>2. TypeOK /\ [Next]_vars => TypeOK'
    BY StepType
  <1> QED
    BY <1>1, <1>2, PTL DEF Spec

-----------------------------------------------------------------------------
(* The last good copy *)

\* CopyInv speaks of these variables only.
LEMMA CopyUnchanged ==
  ASSUME CopyInv, UNCHANGED localVars, pc' \notin Walking
  PROVE  CopyInv'
  BY DEF CopyInv, localVars, Walking

LEMMA StepCopy == TypeOK /\ CopyInv /\ [Next]_vars => CopyInv'
  <1> SUFFICES ASSUME TypeOK, CopyInv, [Next]_vars
               PROVE  CopyInv'
    OBVIOUS
  <1>0. /\ local \in [Entries -> Contents] /\ bak \in [Entries -> Contents]
        /\ good \in [Entries -> Nat \cup {NoFile}] /\ rotations \in [Entries -> Nat]
        /\ pc \in Walking => file \in Entries
    BY DEF TypeOK, Walking
  <1>1. CASE UNCHANGED <<localVars, pc, file>>
    BY <1>1 DEF CopyInv, localVars
  <1>2. CASE UNCHANGED localVars /\ pc' \notin Walking
    BY <1>2, CopyUnchanged
  <1>3. ASSUME NEW e \in Entries, VisitFile(e)
        PROVE  CopyInv'
    <2>1. CASE local[e] = NoFile
      BY <1>0, <1>3, <2>1, ContentAssumption DEF VisitFile, CopyInv, localVars, Copied
    <2>2. CASE local[e] # NoFile
      <3>1. /\ pc' = "move" /\ file' = e /\ UNCHANGED <<local, good>> /\ pc = "loop"
            /\ bak' = [bak EXCEPT ![e] = NoFile]
            /\ rotations' = [rotations EXCEPT ![e] = @ + 1]
        BY <1>3, <2>2 DEF VisitFile
      <3>2. /\ bak'[e] = NoFile /\ rotations'[e] = rotations[e] + 1
            /\ \A d \in Entries : d # e => bak'[d] = bak[d] /\ rotations'[d] = rotations[d]
        BY <1>0, <3>1
      <3>3. rotations'[e] = 1 => good[e] = NoFile \/ local[e] = good[e]
        BY <1>0, <3>2 DEF CopyInv
      <3> QED
        BY <1>0, <3>1, <3>2, <3>3 DEF CopyInv
    <2> QED
      BY <2>1, <2>2
  <1>4. CASE Move
    <2>1. /\ pc = "move" /\ pc' = "create" /\ UNCHANGED <<good, rotations, file>>
          /\ file \in Entries
          /\ bak' = [bak EXCEPT ![file] = local[file]]
          /\ local' = [local EXCEPT ![file] = NoFile]
      BY <1>0, <1>4 DEF Move, walkVars, Walking
    <2>2. rotations[file] # 0 \/ good[file] = NoFile
      BY <2>1 DEF CopyInv
    <2>3. good[file] # NoFile /\ rotations[file] = 1 => bak'[file] = good[file]
      BY <1>0, <2>1 DEF CopyInv
    <2> QED
      BY <1>0, <2>1, <2>2, <2>3 DEF CopyInv
  <1>5. CASE Create
    <2>1. /\ pc = "create" /\ pc' = "fetch" /\ UNCHANGED <<bak, good, rotations, file>>
          /\ file \in Entries
          /\ local' = [local EXCEPT ![file] = Partial]
      BY <1>0, <1>5 DEF Create, walkVars, Walking
    <2>2. good[file] # NoFile /\ rotations[file] = 1 => bak[file] = good[file]
      BY <2>1 DEF CopyInv
    <2> QED
      BY <1>0, <2>1, <2>2 DEF CopyInv
  <1>6. CASE Fetch
    BY <1>0, <1>6 DEF Fetch, CopyInv, TypeOK
  <1>7. CASE LoopEnds \/ (\E e \in Entries : VisitDot(e)) \/ LocalThrows \/ FetchFails
             \/ Call \/ Crash
    BY <1>2, <1>7
    DEF LoopEnds, VisitDot, Leave, LocalThrows, FetchFails, Call, Crash, Walking
  <1>8. CASE (\E e \in Entries : VisitCsv(e) \/ VisitDir(e))
    BY <1>1, <1>2, <1>8 DEF VisitCsv, VisitDir, callVars, Walking
  <1>9. CASE Connect \/ SessionDrops \/ (\E e \in Entries : RemoteChanges(e)) \/ UNCHANGED vars
    BY <1>1, <1>9 DEF Connect, SessionDrops, RemoteChanges, walkVars, vars
  <1> QED
    BY <1>3, <1>4, <1>5, <1>6, <1>7, <1>8, <1>9 DEF Next, Walk

LEMMA CopySurvives == TypeOK /\ CopyInv => LastGoodSurvives
  BY DEF TypeOK, CopyInv, LastGoodSurvives

-----------------------------------------------------------------------------
(* The loop over the root *)

\* What the two properties about the root speak of stays as it is.
LEMMA RootUnchanged ==
  ASSUME RootInv, ReturnedMeansTried,
         UNCHANGED <<pc, todo, file, local, good, listed, fetched, failed>>
  PROVE  RootInv' /\ ReturnedMeansTried'
  BY DEF RootInv, ReturnedMeansTried, Copied

\* A call that is over without having returned, or without a listing.
LEMMA RootOver ==
  ASSUME pc' \notin Walking \cup {"loop"}, pc' = "returned" => ~listed'
  PROVE  RootInv' /\ ReturnedMeansTried'
  BY DEF RootInv, ReturnedMeansTried, Walking

LEMMA StepRoot ==
  TypeOK /\ RootInv /\ ReturnedMeansTried /\ [Next]_vars => RootInv' /\ ReturnedMeansTried'
  <1> SUFFICES ASSUME TypeOK, RootInv, ReturnedMeansTried, [Next]_vars
               PROVE  RootInv' /\ ReturnedMeansTried'
    OBVIOUS
  <1>0. /\ local \in [Entries -> Contents] /\ good \in [Entries -> Nat \cup {NoFile}]
        /\ todo \in [Dirs -> SUBSET Entries] /\ Children(Root) \subseteq Entries
        /\ \A d \in Dirs : todo[d] \subseteq Children(d)
        /\ Root \in Dirs /\ Root \notin Entries /\ NoEntry \notin Entries
        /\ at \in Dirs /\ (pc = "loop" => file = NoEntry)
        /\ pc \in Walking => file \in Entries /\ Copied(file)
    BY DirsOfTree, ChildrenAreEntries DEF TypeOK, Walking
  <1>1. CASE Connect \/ SessionDrops \/ (\E e \in Entries : RemoteChanges(e)) \/ UNCHANGED vars
    BY <1>1, RootUnchanged
    DEF Connect, SessionDrops, RemoteChanges, walkVars, localVars, callVars, vars
  <1>2. CASE Crash \/ LocalThrows
    BY <1>2, RootOver DEF Crash, LocalThrows, Forget, Walking
  <1>3. CASE Call
    <2>1. CASE Forget /\ pc' \in {"threw", "returned"}
      BY <2>1, RootOver DEF Forget, Walking
    <2>2. CASE /\ pc' = "loop" /\ fetched' = {} /\ file' = NoEntry
               /\ todo' = [[d \in Dirs |-> {}] EXCEPT ![Root] = Children(Root)]
      <3>1. todo'[Root] = Children(Root)
        BY <1>0, <2>2
      <3> QED
        BY <1>0, <2>2, <3>1 DEF RootInv, ReturnedMeansTried
    <2> QED
      BY <1>3, <2>1, <2>2 DEF Call
  <1>4. CASE LoopEnds
    <2>1. /\ pc = "loop" /\ todo[at] = {} /\ Leave
          /\ UNCHANGED <<todo, file, local, good, listed, fetched, failed>>
      BY <1>4 DEF LoopEnds, localVars, callVars
    <2> QED
      BY <1>0, <2>1 DEF RootInv, ReturnedMeansTried, Leave, Copied
  <1>5. ASSUME NEW e \in Entries, VisitDot(e)
        PROVE  RootInv' /\ ReturnedMeansTried'
    <2>1. /\ pc = "loop" /\ Kind[e] = "dot" /\ Take(e) /\ Leave
          /\ UNCHANGED <<file, local, good, listed, fetched, failed>>
      BY <1>5 DEF VisitDot, localVars, callVars
    <2>2. /\ ~Copied(e) /\ e \in Children(at)
          /\ \A c \in todo[Root] : c # e => c \in todo'[Root]
          /\ todo'[Root] \subseteq todo[Root]
      BY <1>0, <2>1, TakeType DEF Copied
    <2>3. ASSUME at = Root
          PROVE  \E c \in Children(Root) : Kind[c] = "dot"
      BY <2>1, <2>2, <2>3
    <2>4. pc' = "returned" => at = Root
      BY <2>1 DEF Leave
    <2> QED
      BY <1>0, <2>1, <2>2, <2>3, <2>4 DEF RootInv, ReturnedMeansTried
  <1>6. ASSUME NEW e \in Entries, VisitCsv(e) \/ VisitDir(e)
        PROVE  RootInv' /\ ReturnedMeansTried'
    <2>1. CASE pc' = "threw" /\ Forget
      BY <2>1, RootOver DEF Walking
    <2>2. CASE /\ pc = "loop" /\ pc' = "loop"
               /\ UNCHANGED <<file, local, good, listed, fetched, failed>>
               /\ ~Copied(e)
               /\ \/ Take(e)
                  \/ todo' = [todo EXCEPT ![at] = @ \ {e}, ![e] = Children(e)]
      <3>1. /\ \A c \in todo[Root] : c # e => c \in todo'[Root]
            /\ todo'[Root] \subseteq todo[Root]
        BY <1>0, <2>2 DEF Take
      <3> QED
        BY <1>0, <2>2, <3>1 DEF RootInv, ReturnedMeansTried
    <2> QED
      BY <1>6, <2>1, <2>2 DEF VisitCsv, VisitDir, localVars, callVars, Copied
  <1>7. ASSUME NEW e \in Entries, VisitFile(e)
        PROVE  RootInv' /\ ReturnedMeansTried'
    <2>1. /\ pc = "loop" /\ Take(e) /\ file' = e /\ pc' \in {"move", "create"}
          /\ UNCHANGED <<local, good, listed, fetched, failed>>
      BY <1>7 DEF VisitFile, localVars, callVars
    <2>2. /\ e \in Children(at) /\ e \notin todo'[Root] /\ e \in todo[at]
          /\ \A c \in todo[Root] : c # e => c \in todo'[Root]
          /\ todo'[Root] \subseteq todo[Root]
      <3>1. e \in Children(at) /\ e \in todo[at]
        BY <1>0, <2>1, TakeType DEF Take
      <3>2. at # Root => e \notin Children(Root)
        BY <3>1 DEF Children
      <3> QED
        BY <1>0, <2>1, <3>1, <3>2, TakeType
    <2>3. e \in Children(Root) => at = Root
      BY <2>2 DEF Children
    <2> QED
      BY <1>0, <2>1, <2>2, <2>3 DEF RootInv, ReturnedMeansTried
  <1>8. CASE Move \/ Create
    <2>1. /\ pc \in {"move", "create"} /\ pc' \in {"create", "fetch"}
          /\ UNCHANGED <<todo, file, good, listed, fetched, failed>>
          /\ \A e \in Entries : e # file => local'[e] = local[e]
      BY <1>0, <1>8 DEF Move, Create, walkVars, callVars
    <2> QED
      BY <1>0, <2>1 DEF RootInv, ReturnedMeansTried
  <1>9. CASE Fetch
    <2>1. /\ pc = "fetch" /\ pc' = "loop" /\ file' = NoEntry
          /\ fetched' = fetched \cup {file}
          /\ UNCHANGED <<todo, listed, failed>>
          /\ local'[file] = good'[file]
          /\ \A e \in Entries : e # file => local'[e] = local[e] /\ good'[e] = good[e]
      BY <1>0, <1>9 DEF Fetch, Walking
    <2> QED
      BY <1>0, <2>1 DEF RootInv, ReturnedMeansTried
  <1>10. CASE FetchFails
    BY <1>0, <1>10 DEF FetchFails, RootInv, ReturnedMeansTried, localVars
  <1> QED
    BY <1>1, <1>2, <1>3, <1>4, <1>5, <1>6, <1>7, <1>8, <1>9, <1>10 DEF Next, Walk

-----------------------------------------------------------------------------
(* The theorems *)

LEMMA InitInv == Init => IInv
  <1> SUFFICES ASSUME Init PROVE IInv
    OBVIOUS
  <1>1. TypeOK
    BY InitType
  <1>2. CopyInv
    BY <1>1 DEF Init, CopyInv, TypeOK
  <1>3. RootInv /\ ReturnedMeansTried
    BY DEF Init, RootInv, ReturnedMeansTried
  <1> QED
    BY <1>1, <1>2, <1>3, CopySurvives DEF IInv

\* Copies, loops and what was filled agree at all times (the walk of
\* DownloadDirectory and the .bak copies it makes).
THEOREM Invariant == Spec => []IInv
  <1>1. Init => IInv
    BY InitInv
  <1>2. IInv /\ [Next]_vars => IInv'
    <2>1. IInv /\ [Next]_vars => TypeOK' /\ CopyInv' /\ RootInv' /\ ReturnedMeansTried'
      BY StepType, StepCopy, StepRoot DEF IInv
    <2>2. TypeOK' /\ CopyInv' => LastGoodSurvives'
      BY CopySurvives, PTL
    <2> QED
      BY <2>1, <2>2 DEF IInv
  <1> QED
    BY <1>1, <1>2, PTL DEF Spec

\* One download that fails or dies anywhere loses no good copy.
THEOREM LastGoodSurvivesCorrect == Spec => []LastGoodSurvives
  <1>1. IInv => LastGoodSurvives
    BY DEF IInv
  <1> QED
    BY <1>1, Invariant, PTL

\* A call that returned after a listing has come to every file right in the
\* directory.
THEOREM ReturnedMeansTriedCorrect == Spec => []ReturnedMeansTried
  <1>1. IInv => ReturnedMeansTried
    BY DEF IInv
  <1> QED
    BY <1>1, Invariant, PTL
=============================================================================
