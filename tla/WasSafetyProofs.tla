--------------------------- MODULE WasSafetyProofs ---------------------------
(***************************************************************************)
(* Type correctness of Was, for every number of worker processes and every *)
(* setting: one lemma per call or group of actions; FieldType carries the  *)
(* record updates they all rest on.  Then two safety properties: both are  *)
(* about what a call still pending may do when it is finally made, so both *)
(* inductive invariants speak of the stack.                                *)
(***************************************************************************)
EXTENDS Was, TLAPS

\* Free memory is a well-typed record.
LEMMA NoObjectType == NoObject \in WorkerProcesses
  BY PointerAssumption DEF NoObject, WorkerProcesses, NoHandles, Handles, HandleStates, NoProcess, Processes,
     ProcessPhases, IllnessReasons, WorkerProcessStates, HandlerStates

\* Storing a well-typed record, or a well-typed value in one of its fields, keeps
\* the table of worker processes well typed.
LEMMA TableType ==
  ASSUME NEW tbl \in [WP -> WorkerProcesses], NEW w \in WP, NEW r \in WorkerProcesses
  PROVE  [tbl EXCEPT ![w] = r] \in [WP -> WorkerProcesses]
  OBVIOUS

\* Each field of a WORKER_PROCESS can be given a value of its type.
LEMMA RecordType ==
  ASSUME NEW r \in WorkerProcesses
  PROVE  /\ \A v \in WorkerProcessStates : [r EXCEPT !.m_State = v] \in WorkerProcesses
         /\ \A v \in IllnessReasons : [r EXCEPT !.m_TerminalIllReason = v] \in WorkerProcesses
         /\ \A v \in WP \cup {NoWP} :
              [r EXCEPT !.m_pWorkerProcessToReplace = v] \in WorkerProcesses
         /\ \A v \in HandlerStates : [r EXCEPT !.m_pMessagingHandler = v] \in WorkerProcesses
         /\ \A v \in [Handles -> HandleStates] : [r EXCEPT !.handle = v] \in WorkerProcesses
         /\ \A v \in Processes : [r EXCEPT !.process = v] \in WorkerProcesses
         /\ \A v \in BOOLEAN : /\ [r EXCEPT !.m_BeingReplaced = v] \in WorkerProcesses
                               /\ [r EXCEPT !.m_NotifiedAppPool = v] \in WorkerProcesses
                               /\ [r EXCEPT !.m_Registered = v] \in WorkerProcesses
                               /\ [r EXCEPT !.m_ProcessAlive = v] \in WorkerProcesses
                               /\ [r EXCEPT !.m_IgnoredPingDueToDebugger = v] \in WorkerProcesses
  BY DEF WorkerProcesses

\* The same for an assignment to one field of one object in the table.
LEMMA FieldType ==
  ASSUME NEW tbl \in [WP -> WorkerProcesses], NEW w \in WP
  PROVE  /\ \A v \in WorkerProcessStates :
              [tbl EXCEPT ![w].m_State = v] \in [WP -> WorkerProcesses]
         /\ \A v \in IllnessReasons :
              [tbl EXCEPT ![w].m_TerminalIllReason = v] \in [WP -> WorkerProcesses]
         /\ [tbl EXCEPT ![w].m_pWorkerProcessToReplace = NoWP] \in [WP -> WorkerProcesses]
         /\ \A v \in HandlerStates :
              [tbl EXCEPT ![w].m_pMessagingHandler = v] \in [WP -> WorkerProcesses]
         /\ \A v \in BOOLEAN :
              /\ [tbl EXCEPT ![w].m_BeingReplaced = v] \in [WP -> WorkerProcesses]
              /\ [tbl EXCEPT ![w].m_NotifiedAppPool = v] \in [WP -> WorkerProcesses]
              /\ [tbl EXCEPT ![w].m_Registered = v] \in [WP -> WorkerProcesses]
              /\ [tbl EXCEPT ![w].m_ProcessAlive = v] \in [WP -> WorkerProcesses]
              /\ [tbl EXCEPT ![w].m_IgnoredPingDueToDebugger = v] \in [WP -> WorkerProcesses]
         /\ \A h \in Handles, v \in HandleStates :
              [tbl EXCEPT ![w].handle[h] = v] \in [WP -> WorkerProcesses]
         /\ \A v \in ProcessPhases :
              [tbl EXCEPT ![w].process.phase = v] \in [WP -> WorkerProcesses]
         /\ \A v \in SUBSET {"Ping", "Shutdown"} :
              [tbl EXCEPT ![w].process.inbox = v] \in [WP -> WorkerProcesses]
         /\ [tbl EXCEPT ![w].process.pipe = "broken"] \in [WP -> WorkerProcesses]
<1>1. tbl[w] \in WorkerProcesses
  OBVIOUS
<1>2. /\ \A v \in ProcessPhases : [tbl[w].process EXCEPT !.phase = v] \in Processes
      /\ \A v \in SUBSET {"Ping", "Shutdown"} :
           [tbl[w].process EXCEPT !.inbox = v] \in Processes
      /\ [tbl[w].process EXCEPT !.pipe = "broken"] \in Processes
  BY <1>1 DEF WorkerProcesses, Processes
<1>3. \A h \in Handles, v \in HandleStates :
        [tbl[w].handle EXCEPT ![h] = v] \in [Handles -> HandleStates]
  BY <1>1 DEF WorkerProcesses
<1> QED
  BY <1>1, <1>2, <1>3, RecordType, TableType

\* A call on a worker process is a frame.
LEMMA WorkerFrame ==
  ASSUME NEW fn \in WorkerProcessMethods, NEW w \in WP
  PROVE  Call(fn, w) \in Frames
  BY DEF Call, Frames, IllnessReasons

\* A call on the pool is a frame.
LEMMA PoolFrame ==
  ASSUME NEW fn \in AppPoolMethods
  PROVE  Call(fn, NoWP) \in Frames
  BY DEF Call, Frames

\* A call of MarkAsTerminallyIll is a frame.
LEMMA IllFrame ==
  ASSUME NEW w \in WP, NEW why \in IllnessReasons
  PROVE  Ill(w, why) \in Frames
  BY DEF Ill, Frames, WorkerProcessMethods

\* The next turn of a loop over the list, if there is one, is a frame.
LEMMA WalkFrames ==
  ASSUME NEW fn \in Walks, NEW e \in WP \cup {NoWP, ListHead}
  PROVE  WalkFrom(fn, e) \in Seq(Frames)
<1>1. CASE e = ListHead
  BY <1>1 DEF WalkFrom
<1>2. CASE e # ListHead
  <2>1. Call(fn, e) \in Frames
    BY <1>2 DEF Call, Frames
  <2> QED
    BY <1>2, <2>1 DEF WalkFrom
<1> QED
  BY <1>1, <1>2

\* The object of a worker process method is a worker process.
LEMMA CallingWP ==
  ASSUME TypeOK, NEW fn \in WorkerProcessMethods, Calling(fn)
  PROVE  This \in WP
  BY DEF TypeOK, Calling, This, Frames, WorkerProcessMethods, Walks, AppPoolMethods

\* Returning after well-typed calls leaves a well-typed stack.
LEMMA ReturnType ==
  ASSUME TypeOK, stack # <<>>, NEW frames \in Seq(Frames), Return(frames)
  PROVE  stack' \in Seq(Frames)
  BY DEF TypeOK, Return

\* So does returning without a further call.
LEMMA ReturnNothing ==
  ASSUME TypeOK, stack # <<>>, Return(<<>>)
  PROVE  stack' \in Seq(Frames)
  BY DEF TypeOK, Return

\* Dereference keeps the table well typed, deletion included.
LEMMA DereferencedType ==
  ASSUME NEW tbl \in [WP -> WorkerProcesses], NEW w \in WP
  PROVE  Dereferenced(tbl, w) \in [WP -> WorkerProcesses]
<1>1. [tbl[w] EXCEPT !.m_RefCount = @ - 1] \in WorkerProcesses
  BY DEF WorkerProcesses
<1> QED
  BY <1>1, NoObjectType DEF Dereferenced

\* Reference keeps the table well typed.
LEMMA ReferencedType ==
  ASSUME NEW tbl \in [WP -> WorkerProcesses], NEW w \in WP
  PROVE  Referenced(tbl, w) \in [WP -> WorkerProcesses]
  BY DEF Referenced, WorkerProcesses

\* A work item other than the demand start belongs to a worker process.
LEMMA TakeType ==
  ASSUME TypeOK, NEW op \in Handles \cup PipeOps, Take(op)
  PROVE  /\ Head(queue).w \in WP
         /\ queue' \in Seq(WorkItems)
<1>1. Head(queue) \in WorkItems /\ queue' \in Seq(WorkItems)
  BY DEF TypeOK, Take
<1> QED
  BY <1>1 DEF Take, WorkItems, Handles, PipeOps

\* A queued callback or message is a work item.
LEMMA EnqueueType ==
  ASSUME TypeOK, NEW op \in Handles \cup PipeOps, NEW w \in WP, Enqueue(Item(op, w))
  PROVE  queue' \in Seq(WorkItems)
<1>1. Item(op, w) \in WorkItems
  BY DEF Item, WorkItems
<1> QED
  BY <1>1 DEF TypeOK, Enqueue

\* Walking and unlinking stay within worker processes, NULL and the list head.
LEMMA ListType ==
  ASSUME TypeOK
  PROVE  /\ FirstEntry \in WP \cup {ListHead}
         /\ \A w \in WP : Flink(w) \in WP \cup {NoWP, ListHead}
         /\ \A w \in WP : Unlinked(w) \in Seq(WP)
<1>0. list \in Seq(WP)
  BY DEF TypeOK
<1>1. FirstEntry \in WP \cup {ListHead}
  BY <1>0 DEF FirstEntry
<1>2. ASSUME NEW w \in WP, InList(w)
      PROVE  Position(w) \in 1 .. Len(list)
  BY <1>0, <1>2 DEF InList, ToSet, Position
<1>3. ASSUME NEW w \in WP
      PROVE  Flink(w) \in WP \cup {NoWP, ListHead}
  BY <1>0, <1>2 DEF Flink
<1>4. ASSUME NEW w \in WP
      PROVE  Unlinked(w) \in Seq(WP)
  <2>1. CASE InList(w)
    BY <1>0, <1>2, <2>1 DEF Unlinked, RemoveAt
  <2> QED
    BY <1>0, <2>1 DEF Unlinked
<1> QED
  BY <1>1, <1>3, <1>4

\* The fields Initialize assigns, all at once.
LEMMA FieldsType ==
  ASSUME NEW r \in WorkerProcesses,
         NEW state \in WorkerProcessStates \cup {"Free"}, NEW regardless \in BOOLEAN,
         NEW handler \in HandlerStates, NEW count \in Int, NEW alive \in BOOLEAN,
         NEW h \in [Handles -> HandleStates], NEW p \in Processes
  PROVE  [r EXCEPT !.m_State = state, !.m_TerminallyIllShutdownRegardless = regardless,
                   !.m_pMessagingHandler = handler, !.m_RefCount = count,
                   !.m_ProcessAlive = alive, !.handle = h, !.process = p]
           \in WorkerProcesses
  BY DEF WorkerProcesses

\* Initialize, with each of its failures, preserves TypeOK.
LEMMA InitializeType ==
  ASSUME TypeOK, Initialize
  PROVE  TypeOK'
<1>1. This \in WP
  BY CallingWP DEF Initialize, WorkerProcessMethods
<1>2. PICK outcome \in InitializeOutcomes :
        /\ wp' = [wp EXCEPT ![This] = Initialized(wp[This], outcome)]
        /\ Return(InitializeDone(This, outcome))
  BY DEF Initialize
<1>3. Initialized(wp[This], outcome) \in WorkerProcesses
  <2> DEFINE r == wp[This]
             attached == outcome \notin {"WorkerProcessToken", "MessagingHandler"}
             started  == outcome \in {"ProcessWait", "StartupTimer", "ok"}
             waiting  == outcome \in {"StartupTimer", "ok"}
             state == IF outcome = "ok" THEN "RegistrationPending" ELSE r.m_State
             regardless == outcome = "WorkerProcessToken"
             handler == IF attached THEN "attached"
                        ELSE IF outcome = "MessagingHandler" THEN "detached" ELSE "NULL"
             count == IF attached THEN r.m_RefCount + 1 ELSE r.m_RefCount
             h == [NoHandles EXCEPT !["Process"] = IF waiting THEN "armed" ELSE "NULL",
                                    !["Startup"] = IF outcome = "ok" THEN "armed" ELSE "NULL"]
             p == [NoProcess EXCEPT !.phase = IF started THEN "created" ELSE "none",
                                    !.pipe = IF attached THEN "open" ELSE "none"]
  <2>1. r \in WorkerProcesses
    BY <1>1 DEF TypeOK
  <2>2. h \in [Handles -> HandleStates]
    BY DEF NoHandles, HandleStates
  <2>3. p \in Processes
    BY DEF NoProcess, Processes, ProcessPhases
  <2>4. /\ state \in WorkerProcessStates \cup {"Free"}
        /\ count \in Int
        /\ handler \in HandlerStates
    BY <2>1 DEF WorkerProcesses, WorkerProcessStates, HandlerStates
  <2>5. regardless \in BOOLEAN /\ started \in BOOLEAN
    OBVIOUS
  <2>6. Initialized(r, outcome) =
          [r EXCEPT !.m_State = state, !.m_TerminallyIllShutdownRegardless = regardless,
                    !.m_pMessagingHandler = handler, !.m_RefCount = count,
                    !.m_ProcessAlive = started, !.handle = h, !.process = p]
    BY DEF Initialized
  <2> HIDE DEF r, state, regardless, handler, count, started, h, p
  <2>7. [r EXCEPT !.m_State = state, !.m_TerminallyIllShutdownRegardless = regardless,
                    !.m_pMessagingHandler = handler, !.m_RefCount = count,
                    !.m_ProcessAlive = started, !.handle = h, !.process = p] \in WorkerProcesses
    BY <2>1, <2>2, <2>3, <2>4, <2>5, FieldsType
  <2>8. Initialized(r, outcome) \in WorkerProcesses
    BY <2>6, <2>7
  <2> QED
    BY <2>8 DEF r
<1>4. InitializeDone(This, outcome) \in Seq(Frames)
  BY <1>1, IllFrame DEF InitializeDone, IllnessReasons
<1> QED
  BY <1>2, <1>3, <1>4, ReturnType DEF TypeOK, Initialize, Calling

\* InitiateProcessShutdown leaves a well-typed object.
LEMMA ShutdownBegunType ==
  ASSUME NEW r \in WorkerProcesses, NEW outcome
  PROVE  ShutdownBegun(r, outcome) \in WorkerProcesses
<1>1. Sent("Shutdown", r.process) \in Processes
  BY DEF Sent, WorkerProcesses, Processes
<1>2. [r.handle EXCEPT !["Shutdown"] = "armed"] \in [Handles -> HandleStates]
  BY DEF WorkerProcesses, HandleStates
<1> QED
  BY <1>1, <1>2 DEF ShutdownBegun, WorkerProcesses, WorkerProcessStates

\* Shutdown preserves TypeOK.
LEMMA ShutdownType ==
  ASSUME TypeOK, Shutdown
  PROVE  TypeOK'
<1>1. This \in WP /\ stack # <<>>
  BY CallingWP DEF Shutdown, WorkerProcessMethods, Calling
<1>2. wp[This] \in WorkerProcesses
  BY <1>1 DEF TypeOK
<1>3. CASE wp[This].m_State = "RegistrationPending"
  <2>1. wp' = [wp EXCEPT ![This].m_State = "RegistrationPendingShutdownPending"]
        /\ Return(<<>>)
    BY <1>3 DEF Shutdown
  <2>2. wp' \in [WP -> WorkerProcesses]
    BY <1>1, <2>1, FieldType DEF TypeOK, WorkerProcessStates
  <2>3. stack' \in Seq(Frames)
    BY <1>1, <2>1, ReturnNothing
  <2> QED
    BY <2>2, <2>3 DEF TypeOK, Shutdown
<1>4. CASE wp[This].m_State = "Running"
  <2>1. PICK outcome \in ShutdownOutcomes :
          LET tbl == [wp EXCEPT ![This] = ShutdownBegun(wp[This], outcome)]
          IN IF outcome = "ok"
             THEN wp' = tbl /\ Return(<<>>)
             ELSE wp' = Referenced(tbl, This) /\ Return(ShutdownFailed(This))
    BY <1>4 DEF Shutdown
  <2>2. ShutdownBegun(wp[This], outcome) \in WorkerProcesses
    BY <1>2, ShutdownBegunType
  <2>3. [wp EXCEPT ![This] = ShutdownBegun(wp[This], outcome)] \in [WP -> WorkerProcesses]
    BY <1>1, <2>2 DEF TypeOK
  <2>4. wp' \in [WP -> WorkerProcesses]
    BY <1>1, <2>1, <2>3, ReferencedType
  <2>5. ShutdownFailed(This) \in Seq(Frames)
    BY <1>1, IllFrame, WorkerFrame DEF ShutdownFailed, WorkerProcessMethods, IllnessReasons
  <2>6. stack' \in Seq(Frames)
    BY <1>1, <2>1, <2>5, ReturnType, ReturnNothing
  <2> QED
    BY <2>4, <2>6 DEF TypeOK, Shutdown
<1>5. CASE wp[This].m_State \notin {"RegistrationPending", "Running"}
  <2>1. Return(<<>>) /\ UNCHANGED wp
    BY <1>5 DEF Shutdown
  <2>2. stack' \in Seq(Frames)
    BY <1>1, <2>1, ReturnNothing
  <2> QED
    BY <2>1, <2>2 DEF TypeOK, Shutdown
<1> QED
  BY <1>3, <1>4, <1>5

\* A pending Dereference preserves TypeOK.
LEMMA DereferenceType ==
  ASSUME TypeOK, Dereference
  PROVE  TypeOK'
<1>1. This \in WP /\ stack # <<>>
  BY CallingWP DEF Dereference, WorkerProcessMethods, Calling
<1>2. wp' \in [WP -> WorkerProcesses]
  BY <1>1, DereferencedType DEF TypeOK, Dereference
<1>3. stack' \in Seq(Frames)
  BY <1>1, ReturnNothing DEF Dereference
<1> QED
  BY <1>2, <1>3 DEF TypeOK, Dereference

\* MarkAsTerminallyIll preserves TypeOK.
LEMMA MarkAsTerminallyIllType ==
  ASSUME TypeOK, MarkAsTerminallyIll
  PROVE  TypeOK'
<1>1. This \in WP /\ stack # <<>>
  BY CallingWP DEF MarkAsTerminallyIll, WorkerProcessMethods, Calling
<1>2. Head(stack).why \in IllnessReasons
  BY <1>1 DEF TypeOK, Frames, IllnessReasons
<1>3. <<Call("ReportFailure", This), Call("Terminate", This)>> \in Seq(Frames)
  BY <1>1, WorkerFrame DEF WorkerProcessMethods
<1>4. stack' \in Seq(Frames)
  BY <1>1, <1>3, ReturnType, ReturnNothing DEF MarkAsTerminallyIll
<1>5. \/ wp' = wp
      \/ wp' = [wp EXCEPT ![This].m_IgnoredPingDueToDebugger =
                   wp[This].m_IgnoredPingDueToDebugger \/ Head(stack).why = "PingFailure"]
      \/ wp' = [wp EXCEPT ![This].m_TerminalIllReason = Head(stack).why]
  BY DEF MarkAsTerminallyIll
<1>6. wp' \in [WP -> WorkerProcesses]
  <2> DEFINE b == wp[This].m_IgnoredPingDueToDebugger \/ Head(stack).why = "PingFailure"
  <2>1. b \in BOOLEAN
    OBVIOUS
  <2> HIDE DEF b
  <2>2. [wp EXCEPT ![This].m_IgnoredPingDueToDebugger = b] \in [WP -> WorkerProcesses]
    BY <1>1, <2>1, FieldType DEF TypeOK
  <2>3. [wp EXCEPT ![This].m_TerminalIllReason = Head(stack).why] \in [WP -> WorkerProcesses]
    BY <1>1, <1>2, FieldType DEF TypeOK
  <2> QED
    BY <1>5, <2>2, <2>3 DEF TypeOK, b
<1> QED
  BY <1>4, <1>6 DEF TypeOK, MarkAsTerminallyIll

\* The calls on the process to replace are frames.
LEMMA ReleasePredecessorType ==
  ASSUME TypeOK, NEW w \in WP
  PROVE  ReleasePredecessor(w) \in Seq(Frames)
<1>1. wp[w].m_pWorkerProcessToReplace \in WP \cup {NoWP}
  BY DEF TypeOK, WorkerProcesses
<1> QED
  BY <1>1, WorkerFrame DEF ReleasePredecessor, WorkerProcessMethods

\* Terminate preserves TypeOK.
LEMMA TerminateType ==
  ASSUME TypeOK, Terminate
  PROVE  TypeOK'
<1>1. This \in WP /\ stack # <<>>
  BY CallingWP DEF Terminate, WorkerProcessMethods, Calling
<1>2. wp[This] \in WorkerProcesses
  BY <1>1 DEF TypeOK
<1>3. Terminated(wp[This]) \in WorkerProcesses
  <2> DEFINE r == wp[This]
             count == IF r.m_pMessagingHandler = "attached" THEN r.m_RefCount - 1
                      ELSE r.m_RefCount
             p == [phase |-> IF r.m_ProcessAlive THEN KillProcess(r) ELSE r.process.phase,
                   inbox |-> {}, pipe |-> "none"]
  <2>1. p \in Processes
    BY <1>2 DEF WorkerProcesses, Processes, ProcessPhases, KillProcess
  <2>2. count \in Int
    BY <1>2 DEF WorkerProcesses
  <2>3. NoHandles \in [Handles -> HandleStates]
    BY DEF NoHandles, HandleStates
  <2>4. Terminated(r) = [r EXCEPT !.m_State = "DeletePending", !.handle = NoHandles,
                           !.m_RefCount = count, !.m_pMessagingHandler = "NULL",
                           !.m_ProcessAlive = FALSE, !.process = p]
    BY DEF Terminated
  <2> HIDE DEF p, count
  <2> QED
    BY <1>2, <2>1, <2>2, <2>3, <2>4 DEF WorkerProcesses, WorkerProcessStates, HandlerStates
<1>4. ReleasePredecessor(This) \o <<Call("TerminateTail", This)>> \in Seq(Frames)
  BY <1>1, ReleasePredecessorType, WorkerFrame DEF WorkerProcessMethods
<1>5. stack' \in Seq(Frames)
  BY <1>1, <1>4, ReturnType, ReturnNothing DEF Terminate
<1>6. wp' \in [WP -> WorkerProcesses]
  BY <1>1, <1>3 DEF TypeOK, Terminate
<1> QED
  BY <1>5, <1>6 DEF TypeOK, Terminate

\* m_WaitingForDemandStart can be set to either value.
LEMMA PoolFieldsType ==
  ASSUME TypeOK
  PROVE  /\ pool \in AppPools
         /\ pool.m_WaitingForDemandStart \in BOOLEAN
         /\ \A waits \in BOOLEAN :
              [pool EXCEPT !.m_WaitingForDemandStart = waits] \in AppPools
  BY DEF TypeOK, AppPools

\* WaitForDemandStartIfNeeded yields a Boolean.
LEMMA WaitsType ==
  ASSUME NEW waiting \in BOOLEAN, NEW ok,
         NEW waits \in WaitForDemandStartIfNeeded(waiting, ok)
  PROVE  waits \in BOOLEAN
  BY DEF WaitForDemandStartIfNeeded

\* So does WorkerProcessStartupAttemptDone.
LEMMA StartupAttemptDoneType ==
  ASSUME TypeOK, NEW reason, NEW count, NEW waits \in StartupAttemptDone(reason, count)
  PROVE  waits \in BOOLEAN
  BY PoolFieldsType, WaitsType DEF StartupAttemptDone

\* Terminate's last calls preserve TypeOK.
LEMMA TerminateTailType ==
  ASSUME TypeOK, TerminateTail
  PROVE  TypeOK'
<1>1. This \in WP /\ stack # <<>>
  BY CallingWP DEF TerminateTail, WorkerProcessMethods, Calling
<1>2. pool' \in AppPools
  <2>1. PICK first \in IF wp[This].m_NotifiedAppPool THEN {pool.m_WaitingForDemandStart}
                       ELSE StartupAttemptDone(wp[This].m_StartReason, Len(list)) :
          \E waits \in WaitsAfterRemoval(first) :
            pool' = [pool EXCEPT !.m_WaitingForDemandStart = waits]
    BY DEF TerminateTail
  <2>2. first \in BOOLEAN
    BY PoolFieldsType, StartupAttemptDoneType
  <2>3. PICK waits \in WaitsAfterRemoval(first) :
          pool' = [pool EXCEPT !.m_WaitingForDemandStart = waits]
    BY <2>1
  <2>4. waits \in BOOLEAN
    BY <2>2, WaitsType DEF WaitsAfterRemoval
  <2> QED
    BY <2>3, <2>4, PoolFieldsType
<1>3. list' \in Seq(WP)
  BY <1>1, ListType DEF TerminateTail
<1>4. wp' \in [WP -> WorkerProcesses]
  <2>1. [wp EXCEPT ![This].m_NotifiedAppPool = TRUE] \in [WP -> WorkerProcesses]
    BY <1>1, FieldType DEF TypeOK
  <2> QED
    BY <1>1, <2>1, DereferencedType DEF TerminateTail
<1>5. stack' \in Seq(Frames)
  <2>1. ShutdownNowCompleted(Unlinked(This)) \in Seq(Frames)
    BY PoolFrame DEF ShutdownNowCompleted, AppPoolMethods
  <2> QED
    BY <1>1, <2>1, ReturnType DEF TerminateTail
<1> QED
  BY <1>2, <1>3, <1>4, <1>5 DEF TypeOK, TerminateTail

\* Letting go of the process to replace preserves TypeOK.
LEMMA DropPredecessorType ==
  ASSUME TypeOK, DropPredecessor
  PROVE  TypeOK'
<1>1. This \in WP /\ stack # <<>>
  BY CallingWP DEF DropPredecessor, WorkerProcessMethods, Calling
<1>2. wp' \in [WP -> WorkerProcesses]
  <2>1. [wp EXCEPT ![This].m_pWorkerProcessToReplace = NoWP] \in [WP -> WorkerProcesses]
    BY <1>1, FieldType DEF TypeOK
  <2>2. wp[This].m_pWorkerProcessToReplace \in WP \cup {NoWP}
    BY <1>1 DEF TypeOK, WorkerProcesses
  <2>3. CASE wp[This].m_pWorkerProcessToReplace = NoWP
    BY <2>3 DEF DropPredecessor, TypeOK
  <2>4. CASE wp[This].m_pWorkerProcessToReplace \in WP
    <3>1. wp' = Dereferenced([wp EXCEPT ![This].m_pWorkerProcessToReplace = NoWP],
                             wp[This].m_pWorkerProcessToReplace)
      BY <2>4, PointerAssumption DEF DropPredecessor
    <3> QED
      BY <2>1, <2>4, <3>1, DereferencedType
  <2> QED
    BY <2>2, <2>3, <2>4
<1>3. stack' \in Seq(Frames)
  BY <1>1, ReturnNothing DEF DropPredecessor
<1> QED
  BY <1>2, <1>3 DEF TypeOK, DropPredecessor

\* The end of WorkerProcessStartupSucceeded preserves TypeOK.
LEMMA StartupTailType ==
  ASSUME TypeOK, StartupTail
  PROVE  TypeOK'
<1>1. This \in WP /\ stack # <<>>
  BY CallingWP DEF StartupTail, WorkerProcessMethods, Calling
<1>2. wp' \in [WP -> WorkerProcesses]
  <2>1. [wp EXCEPT ![This].handle["SendPing"] = "armed"] \in [WP -> WorkerProcesses]
    BY <1>1, FieldType DEF TypeOK, Handles, HandleStates
  <2> QED
    BY <2>1 DEF StartupTail, TypeOK
<1>3. stack' \in Seq(Frames)
  <2>1. <<Ill(This, "InternalError")>> \in Seq(Frames)
    BY <1>1, IllFrame DEF IllnessReasons
  <2> QED
    BY <1>1, <2>1, ReturnType, ReturnNothing DEF StartupTail
<1> QED
  BY <1>2, <1>3 DEF TypeOK, StartupTail

\* InitiateReplacement's last assignment preserves TypeOK.
LEMMA MarkReplacedType ==
  ASSUME TypeOK, MarkReplaced
  PROVE  TypeOK'
<1>1. This \in WP /\ stack # <<>>
  BY CallingWP DEF MarkReplaced, WorkerProcessMethods, Calling
<1>2. wp' \in [WP -> WorkerProcesses]
  <2>1. [wp EXCEPT ![This].m_BeingReplaced = TRUE] \in [WP -> WorkerProcesses]
    BY <1>1, FieldType DEF TypeOK
  <2> QED
    BY <2>1 DEF MarkReplaced, TypeOK
<1>3. stack' \in Seq(Frames)
  BY <1>1, ReturnNothing DEF MarkReplaced
<1> QED
  BY <1>2, <1>3 DEF TypeOK, MarkReplaced

\* The staggering bookkeeping keeps the pool well typed.
LEMMA StaggeredType ==
  ASSUME TypeOK
  PROVE  /\ ResetStaggering(pool) \in AppPools
         /\ Staggered(pool) \in AppPools
<1>1. ResetStaggering(pool) \in AppPools
  BY SettingsAssumption DEF TypeOK, ResetStaggering, AppPools
<1> DEFINE q == IF list = <<>> THEN ResetStaggering(pool) ELSE pool
           n == IF q.m_MaxProcessesToLaunch <= 1 THEN q.m_MaxProcessesToLaunch
                ELSE IF q.m_NumWPStarted < q.m_MaxProcessesToLaunch THEN q.m_NumWPStarted + 1
                ELSE q.m_NumWPStarted
<1>2. q \in AppPools
  BY <1>1 DEF TypeOK
<1>3. n \in Nat
  BY <1>2 DEF AppPools
<1>4. [q EXCEPT !.m_NumWPStarted = n] \in AppPools
  BY <1>2, <1>3 DEF AppPools
<1> QED
  BY <1>1, <1>4 DEF Staggered

\* The constructor makes a well-typed object.
LEMMA NewWorkerProcessType ==
  ASSUME NEW reason \in {"DemandStart", "Replace"}, NEW old \in WP \cup {NoWP}
  PROVE  NewWorkerProcess(reason, old) \in WorkerProcesses
<1>1. ASSUME NEW r \in WorkerProcesses, NEW state \in WorkerProcessStates, NEW count \in Int
      PROVE  [r EXCEPT !.m_State = state, !.m_RefCount = count,
                       !.m_StartReason = reason, !.m_pWorkerProcessToReplace = old]
               \in WorkerProcesses
  BY DEF WorkerProcesses
<1>2. "Uninitialized" \in WorkerProcessStates /\ 1 \in Int
  BY DEF WorkerProcessStates
<1>3. [NoObject EXCEPT !.m_State = "Uninitialized", !.m_RefCount = 1,
                       !.m_StartReason = reason, !.m_pWorkerProcessToReplace = old]
        \in WorkerProcesses
  BY <1>1, <1>2, NoObjectType, Zenon
<1> QED
  BY <1>3 DEF NewWorkerProcess

\* CreateWorkerProcess keeps the table and the list well typed.
LEMMA ConstructedType ==
  ASSUME TypeOK, NEW new \in WP, NEW reason \in {"DemandStart", "Replace"},
         NEW old \in WP \cup {NoWP}
  PROVE  /\ Constructed(new, reason, old) \in [WP -> WorkerProcesses]
         /\ <<new>> \o list \in Seq(WP)
<1>1. NewWorkerProcess(reason, old) \in WorkerProcesses
  BY NewWorkerProcessType
<1> DEFINE tbl == [wp EXCEPT ![new] = NewWorkerProcess(reason, old)]
<1>2. tbl \in [WP -> WorkerProcesses]
  BY <1>1 DEF TypeOK
<1>3. Constructed(new, reason, old) = IF old = NoWP THEN tbl ELSE Referenced(tbl, old)
  BY DEF Constructed
<1>4. Constructed(new, reason, old) \in [WP -> WorkerProcesses]
  <2> HIDE DEF tbl
  <2> QED
    BY <1>2, <1>3, ReferencedType
<1>5. <<new>> \o list \in Seq(WP)
  BY DEF TypeOK
<1> QED
  BY <1>4, <1>5

\* InitiateReplacement preserves TypeOK.
LEMMA InitiateReplacementType ==
  ASSUME TypeOK, InitiateReplacement
  PROVE  TypeOK'
<1>1. This \in WP /\ stack # <<>>
  BY CallingWP DEF InitiateReplacement, WorkerProcessMethods, Calling
<1>2. ReplacementRefused(This) \in Seq(Frames)
  BY <1>1, WorkerFrame DEF ReplacementRefused, WorkerProcessMethods
<1>3. ASSUME NEW new \in WP
      PROVE  <<Call("Initialize", new), Call("MarkReplaced", This)>> \in Seq(Frames)
  BY <1>1, WorkerFrame DEF WorkerProcessMethods
<1>4. stack' \in Seq(Frames)
  BY <1>1, <1>2, <1>3, ReturnType, ReturnNothing DEF InitiateReplacement, FreeMemory
<1>5. pool' \in AppPools
  BY StaggeredType DEF InitiateReplacement, TypeOK
<1>6. wp' \in [WP -> WorkerProcesses] /\ list' \in Seq(WP)
  BY <1>1, ConstructedType DEF InitiateReplacement, FreeMemory, TypeOK
<1> QED
  BY <1>4, <1>5, <1>6 DEF TypeOK, InitiateReplacement

\* Every call on a worker process preserves TypeOK.
LEMMA WorkerProcessCallType ==
  ASSUME TypeOK, WorkerProcessCall
  PROVE  TypeOK'
  BY InitializeType, ShutdownType, DereferenceType, MarkAsTerminallyIllType, TerminateType,
     TerminateTailType, DropPredecessorType, StartupTailType, InitiateReplacementType,
     MarkReplacedType DEF WorkerProcessCall

\* The end of PipeDisconnectedMainThread preserves TypeOK.
LEMMA DetachHandlerType ==
  ASSUME TypeOK, DetachHandler
  PROVE  TypeOK'
<1>1. This \in WP /\ stack # <<>>
  BY CallingWP DEF DetachHandler, WorkerProcessMethods, Calling
<1>2. [wp EXCEPT ![This].m_pMessagingHandler = "detached"] \in [WP -> WorkerProcesses]
  BY <1>1, FieldType DEF TypeOK, HandlerStates
<1>3. wp' \in [WP -> WorkerProcesses]
  BY <1>1, <1>2, DereferencedType DEF DetachHandler, TypeOK
<1>4. stack' \in Seq(Frames)
  BY <1>1, ReturnNothing DEF DetachHandler
<1> QED
  BY <1>3, <1>4 DEF TypeOK, DetachHandler

\* Every call on the pool preserves TypeOK.
LEMMA AppPoolCallType ==
  ASSUME TypeOK, AppPoolCall
  PROVE  TypeOK'
<1> USE DEF AppPoolMethods
<1>0. /\ pool \in AppPools
      /\ stack # <<>>
      /\ pool.m_RecentWorkerProcessFailures \in 0 .. MaxCrashes
      /\ MaxCrashes \in Nat \ {0}
  BY SettingsAssumption
     DEF TypeOK, AppPools, AppPoolCall, Calling, ReportFailure, DisableAppPool, DisableTail,
         ShutdownAllWorkerProcesses, ReplaceAllWorkerProcesses, HandleConfigChange,
         CheckShutdown, PoolTerminate, TerminateAll
<1>1. CASE ReportFailure
  <2>1. \A recent \in 0 .. MaxCrashes :
          [pool EXCEPT !.m_RecentWorkerProcessFailures = recent] \in AppPools
    BY <1>0 DEF AppPools
  <2>2. pool' \in AppPools
    <3>1. \/ pool' = pool
          \/ \E before \in {0, pool.m_RecentWorkerProcessFailures} :
               pool' = [pool EXCEPT !.m_RecentWorkerProcessFailures =
                          IF before < MaxCrashes THEN before + 1 ELSE MaxCrashes]
      BY <1>1 DEF ReportFailure
    <3>2. \A before \in {0, pool.m_RecentWorkerProcessFailures} :
            (IF before < MaxCrashes THEN before + 1 ELSE MaxCrashes) \in 0 .. MaxCrashes
      BY <1>0
    <3> QED
      BY <1>0, <2>1, <3>1, <3>2
  <2>3. <<Call("DisableAppPool", NoWP)>> \in Seq(Frames)
    BY PoolFrame
  <2>4. stack' \in Seq(Frames)
    BY <1>0, <1>1, <2>3, ReturnType, ReturnNothing DEF ReportFailure, RapidFailStop
  <2> QED
    BY <1>1, <2>2, <2>4 DEF ReportFailure, TypeOK
<1>2. CASE DisableAppPool
  <2>1. WalkFrom("ShutdownAll", FirstEntry) \o <<Call("DisableTail", NoWP)>> \in Seq(Frames)
    BY ListType, WalkFrames, PoolFrame DEF Walks
  <2>2. stack' \in Seq(Frames)
    BY <1>0, <1>2, <2>1, ReturnType, ReturnNothing DEF DisableAppPool
  <2> QED
    BY <1>2, <2>2 DEF DisableAppPool, TypeOK
<1>3. CASE DisableTail
  <2>1. [pool EXCEPT !.m_State = "Disabled"] \in AppPools
    BY <1>0 DEF AppPools, AppPoolStates
  <2> QED
    BY <1>0, <1>3, <2>1, ReturnNothing DEF DisableTail, TypeOK
<1>4. CASE ShutdownAllWorkerProcesses
  <2>1. This \in WP =>
          <<Call("Shutdown", This)>> \o WalkFrom("ShutdownAll", Flink(This)) \in Seq(Frames)
    BY ListType, WalkFrames, WorkerFrame DEF Walks, WorkerProcessMethods
  <2>2. stack' \in Seq(Frames)
    BY <1>0, <1>4, <2>1, ReturnType, ReturnNothing DEF ShutdownAllWorkerProcesses
  <2> QED
    BY <1>4, <2>2 DEF ShutdownAllWorkerProcesses, TypeOK
<1>5. CASE ReplaceAllWorkerProcesses
  <2>1. This \in WP =>
          <<Call("InitiateReplacement", This)>> \o WalkFrom("ReplaceAll", Flink(This))
            \in Seq(Frames)
    BY ListType, WalkFrames, WorkerFrame DEF Walks, WorkerProcessMethods
  <2>2. stack' \in Seq(Frames)
    BY <1>0, <1>5, <2>1, ReturnType, ReturnNothing DEF ReplaceAllWorkerProcesses
  <2> QED
    BY <1>5, <2>2 DEF ReplaceAllWorkerProcesses, TypeOK
<1>6. CASE HandleConfigChange
  <2>1. WalkFrom("ReplaceAll", FirstEntry) \in Seq(Frames)
    BY ListType, WalkFrames DEF Walks
  <2>2. stack' \in Seq(Frames)
    BY <1>0, <1>6, <2>1, ReturnType, ReturnNothing DEF HandleConfigChange
  <2>3. pool' \in AppPools
    BY <1>0, <1>6, StaggeredType DEF HandleConfigChange
  <2> QED
    BY <1>6, <2>2, <2>3 DEF HandleConfigChange, TypeOK
<1>7. CASE CheckShutdown
  <2>1. ShutdownNowCompleted(list) \in Seq(Frames)
    BY PoolFrame DEF ShutdownNowCompleted
  <2> QED
    BY <1>0, <1>7, <2>1, ReturnType DEF CheckShutdown, TypeOK
<1>8. CASE PoolTerminate
  <2>1. [pool EXCEPT !.m_State = "DeletePending"] \in AppPools
    BY <1>0 DEF AppPools, AppPoolStates
  <2>2. <<Call("TerminateAll", NoWP)>> \in Seq(Frames)
    BY PoolFrame
  <2> QED
    BY <1>0, <1>8, <2>1, <2>2, ReturnType DEF PoolTerminate, TypeOK
<1>9. CASE TerminateAll
  <2>1. list # <<>> =>
          <<Call("Terminate", list[1]), Call("TerminateAll", NoWP)>> \in Seq(Frames)
    BY PoolFrame, WorkerFrame DEF WorkerProcessMethods, TypeOK
  <2>2. stack' \in Seq(Frames)
    BY <1>0, <1>9, <2>1, ReturnType, ReturnNothing DEF TerminateAll
  <2> QED
    BY <1>9, <2>2 DEF TerminateAll, TypeOK
<1> QED
  BY <1>1, <1>2, <1>3, <1>4, <1>5, <1>6, <1>7, <1>8, <1>9 DEF AppPoolCall

\* A START command leaves a well-typed pool.
LEMMA StartedType ==
  ASSUME NEW p \in AppPools, NEW q \in Started(p)
  PROVE  q \in AppPools
<1>1. CASE q = p
  BY <1>1
<1>2. CASE q \in Enable(p)
  <2> DEFINE r == [ResetStaggering(p) EXCEPT !.m_RecentWorkerProcessFailures = 0]
  <2>1. ResetStaggering(p) \in AppPools
    BY SettingsAssumption DEF ResetStaggering, AppPools
  <2>2. r \in AppPools
    BY <2>1, SettingsAssumption DEF AppPools
  <2>3. \/ q = r
        \/ \E waits \in WaitForDemandStartIfNeeded(p.m_WaitingForDemandStart,
                          Len(list) < r.m_MaxProcessesToLaunch) :
             q = [r EXCEPT !.m_State = "Running", !.m_WaitingForDemandStart = waits]
    BY <1>2 DEF Enable
  <2> HIDE DEF r
  <2>4. p.m_WaitingForDemandStart \in BOOLEAN
    BY DEF AppPools
  <2>5. \A waits \in BOOLEAN :
          [r EXCEPT !.m_State = "Running", !.m_WaitingForDemandStart = waits] \in AppPools
    BY <2>2 DEF AppPools, AppPoolStates
  <2> QED
    BY <2>2, <2>3, <2>4, <2>5, WaitsType
<1> QED
  BY <1>1, <1>2 DEF Started

\* The APP_POOL constructor makes a well-typed pool.
LEMMA ConstructedPoolsType == ConstructedPools \subseteq AppPools
<1>1. "Uninitialized" \in AppPoolStates /\ 0 \in Nat /\ 0 \in 0 .. MaxCrashes
  BY SettingsAssumption DEF AppPoolStates
<1> QED
  BY <1>1 DEF ConstructedPools, AppPools

\* So does APP_POOL::Initialize.
LEMMA InitializedPoolsType == InitializedPools \subseteq AppPools
  BY ConstructedPoolsType, StartedType DEF InitializedPools

\* Commands, configuration changes and pool creation preserve TypeOK.
LEMMA AppPoolEventType ==
  ASSUME TypeOK, AppPoolEvent
  PROVE  TypeOK'
<1> USE DEF AppPoolMethods
<1>0. /\ pool \in AppPools
      /\ <<>> \in Seq(Frames)
      /\ <<Call("DisableAppPool", NoWP)>> \in Seq(Frames)
      /\ <<Call("ConfigChange", NoWP)>> \in Seq(Frames)
      /\ <<Call("CheckShutdown", NoWP)>> \in Seq(Frames)
      /\ <<Call("PoolTerminate", NoWP)>> \in Seq(Frames)
  BY PoolFrame DEF TypeOK
<1>1. CASE FlowedStart
  <2>1. pool' \in AppPools
    BY <1>0, <1>1, StartedType DEF FlowedStart
  <2> QED
    BY <1>1, <2>1 DEF FlowedStart, TypeOK
<1>2. CASE FlowedStop
  BY <1>0, <1>2 DEF FlowedStop, TypeOK
<1>3. CASE SetConfiguration
  <2>1. PICK n \in MaxProcessesSettings, o \in OverlapSettings, r \in RotateSettings,
             cmd \in {"none", "START", "STOP"}, other \in BOOLEAN :
          LET p == [pool EXCEPT !.maxProcesses = n, !.overlap = o, !.rotate = r,
                      !.autoStart = IF cmd = "none" THEN pool.autoStart ELSE cmd = "START"]
              stop == IF cmd = "STOP" /\ pool.m_State = "Running"
                      THEN <<Call("DisableAppPool", NoWP)>> ELSE <<>>
              rotate == IF other \/ n # pool.maxProcesses
                        THEN <<Call("ConfigChange", NoWP)>> ELSE <<>>
          IN /\ pool' \in (IF cmd = "START" THEN Started(p) ELSE {p})
             /\ stack' = stop \o rotate
    BY <1>3 DEF SetConfiguration
  <2>2. stack' \in Seq(Frames)
    BY <1>0, <2>1
  <2> DEFINE auto == IF cmd = "none" THEN pool.autoStart ELSE cmd = "START"
             p == [pool EXCEPT !.maxProcesses = n, !.overlap = o, !.rotate = r,
                               !.autoStart = auto]
  <2>3. auto \in BOOLEAN
    BY <1>0 DEF AppPools
  <2>4. pool' = p \/ pool' \in Started(p)
    BY <2>1
  <2> HIDE DEF auto
  <2>5. p \in AppPools
    BY <1>0, <2>3 DEF AppPools
  <2> HIDE DEF p
  <2>6. pool' \in AppPools
    BY <2>4, <2>5, StartedType
  <2> QED
    BY <1>3, <2>2, <2>6 DEF SetConfiguration, TypeOK
<1>4. CASE RecycleWorkerProcesses
  <2>1. stack' \in Seq(Frames)
    BY <1>4, ListType, WalkFrames DEF RecycleWorkerProcesses, Walks
  <2> QED
    BY <1>4, <2>1, StaggeredType DEF RecycleWorkerProcesses, TypeOK
<1>5. CASE PoolShutdown
  <2>1. WalkFrom("ShutdownAll", FirstEntry) \in Seq(Frames)
    BY ListType, WalkFrames DEF Walks
  <2>2. [pool EXCEPT !.m_State = "ShutdownPending"] \in AppPools
    BY <1>0 DEF AppPools, AppPoolStates
  <2> QED
    BY <1>0, <1>5, <2>1, <2>2 DEF PoolShutdown, TypeOK
<1>6. CASE DeletePool
  BY <1>0, <1>6 DEF DeletePool, TypeOK
<1>7. CASE CreatePool
  BY <1>7, InitializedPoolsType DEF CreatePool, TypeOK
<1>8. CASE DemandArrives
  <2>1. Item("DemandStart", NoWP) \in WorkItems
    BY DEF Item, WorkItems
  <2>2. queue' \in Seq(WorkItems)
    BY <1>8, <2>1 DEF DemandArrives, Enqueue, TypeOK
  <2> QED
    BY <1>8, <2>2 DEF DemandArrives, TypeOK
<1> QED
  BY <1>1, <1>2, <1>3, <1>4, <1>5, <1>6, <1>7, <1>8 DEF AppPoolEvent

\* DemandStartWorkItem preserves TypeOK.
LEMMA DemandStartType ==
  ASSUME TypeOK, DemandStart
  PROVE  TypeOK'
<1>1. queue' \in Seq(WorkItems) /\ stack = <<>>
  BY DEF DemandStart, Take, Idle, TypeOK
<1>2. \A p \in AppPools, waits \in BOOLEAN :
        [p EXCEPT !.m_WaitingForDemandStart = waits] \in AppPools
  BY DEF AppPools
<1>3. pool \in AppPools /\ Staggered(pool) \in AppPools
  BY StaggeredType DEF TypeOK
<1>4. pool' \in AppPools
  BY <1>2, <1>3, WaitsType DEF DemandStart
<1>5. wp' \in [WP -> WorkerProcesses] /\ list' \in Seq(WP)
  BY ConstructedType DEF DemandStart, FreeMemory, TypeOK
<1>6. stack' \in Seq(Frames)
  <2>1. \A new \in WP : <<Call("Initialize", new)>> \in Seq(Frames)
    BY WorkerFrame DEF WorkerProcessMethods
  <2> QED
    BY <2>1 DEF DemandStart, FreeMemory, TypeOK
<1> QED
  BY <1>1, <1>4, <1>5, <1>6 DEF TypeOK

\* A work item of a worker process: the frames it leaves and its Dereference.
LEMMA DoneType ==
  ASSUME NEW w \in WP, NEW frames \in Seq(Frames), Done(w, frames)
  PROVE  stack' \in Seq(Frames)
<1>1. Call("Dereference", w) \in Frames
  BY WorkerFrame DEF WorkerProcessMethods
<1> QED
  BY <1>1 DEF Done

\* The work items of timers and waits preserve TypeOK.
LEMMA WorkerProcessWorkItemType ==
  ASSUME TypeOK, WorkerProcessWorkItem
  PROVE  TypeOK'
<1> DEFINE w == Head(queue).w
<1>0. /\ w \in WP
      /\ queue' \in Seq(WorkItems)
      /\ UNCHANGED <<pool, list>>
  BY TakeType DEF WorkerProcessWorkItem, StartupTimerExpired, ShutdownTimerExpired, SendPing,
       PingResponseTimerExpired, ProcessHandleSignaled, TakeOwn, Handles
<1>1. \A why \in IllnessReasons : <<Ill(w, why)>> \in Seq(Frames)
  BY <1>0, IllFrame
<1>2. <<>> \in Seq(Frames) /\ <<Call("Terminate", w)>> \in Seq(Frames)
  BY <1>0, WorkerFrame DEF WorkerProcessMethods
<1>3. wp[w] \in WorkerProcesses
  BY <1>0 DEF TypeOK
<1>4. CASE StartupTimerExpired
  <2>1. stack' \in Seq(Frames)
    BY <1>0, <1>1, <1>2, <1>4, DoneType DEF StartupTimerExpired, IllnessReasons
  <2> QED
    BY <1>0, <1>4, <2>1 DEF StartupTimerExpired, TypeOK
<1>5. CASE ShutdownTimerExpired
  <2>1. stack' \in Seq(Frames)
    BY <1>0, <1>1, <1>2, <1>5, DoneType DEF ShutdownTimerExpired, IllnessReasons
  <2> QED
    BY <1>0, <1>5, <2>1 DEF ShutdownTimerExpired, TypeOK
<1>6. CASE SendPing
  <2>1. stack' \in Seq(Frames)
    BY <1>0, <1>1, <1>2, <1>6, DoneType DEF SendPing, IllnessReasons
  <2>2. ASSUME NEW outcome \in SendPingOutcomes
        PROVE  PingSent(wp[w], outcome) \in WorkerProcesses
    <3> DEFINE r == wp[w]
               awaiting == r.m_AwaitingPingReply \/ outcome # "SendPing"
               cancelled == [r.handle EXCEPT !["SendPing"] = "NULL"]
               h == IF outcome = "ok" THEN [cancelled EXCEPT !["PingResponse"] = "armed"]
                    ELSE cancelled
               p == IF outcome = "SendPing" THEN r.process ELSE Sent("Ping", r.process)
    <3>1. awaiting \in BOOLEAN
      OBVIOUS
    <3>2. cancelled \in [Handles -> HandleStates]
      BY <1>3 DEF WorkerProcesses, HandleStates
    <3>3. h \in [Handles -> HandleStates]
      BY <3>2 DEF HandleStates
    <3>4. p \in Processes
      BY <1>3 DEF Sent, WorkerProcesses, Processes
    <3>5. PingSent(r, outcome) =
            [r EXCEPT !.m_AwaitingPingReply = awaiting, !.handle = h, !.process = p]
      BY DEF PingSent
    <3> HIDE DEF awaiting, h, p
    <3>6. [r EXCEPT !.m_AwaitingPingReply = awaiting, !.handle = h, !.process = p]
            \in WorkerProcesses
      BY <1>3, <3>1, <3>3, <3>4 DEF WorkerProcesses
    <3> QED
      BY <3>5, <3>6
  <2>3. [wp EXCEPT ![w].handle["SendPing"] = "NULL"] \in [WP -> WorkerProcesses]
    BY <1>0, FieldType DEF TypeOK, Handles, HandleStates
  <2>4. wp' \in [WP -> WorkerProcesses]
    BY <1>0, <1>6, <2>2, <2>3, TableType DEF SendPing, TypeOK
  <2> QED
    BY <1>0, <2>1, <2>4 DEF TypeOK
<1>7. CASE PingResponseTimerExpired
  <2>1. stack' \in Seq(Frames)
    BY <1>0, <1>1, <1>2, <1>7, DoneType DEF PingResponseTimerExpired, IllnessReasons
  <2>2. wp' \in [WP -> WorkerProcesses]
    BY <1>0, <1>7, FieldType DEF PingResponseTimerExpired, TypeOK, Handles, HandleStates
  <2> QED
    BY <1>0, <2>1, <2>2 DEF TypeOK
<1>8. CASE ProcessHandleSignaled
  <2>1. ProcessEnded(w) \in Seq(Frames)
    BY <1>1, <1>2 DEF ProcessEnded, IllnessReasons
  <2>2. stack' \in Seq(Frames)
    BY <1>0, <1>8, <2>1, DoneType DEF ProcessHandleSignaled
  <2>3. wp' \in [WP -> WorkerProcesses]
    BY <1>0, <1>8, FieldType DEF ProcessHandleSignaled, TypeOK
  <2> QED
    BY <1>0, <2>2, <2>3 DEF TypeOK
<1> QED
  BY <1>4, <1>5, <1>6, <1>7, <1>8 DEF WorkerProcessWorkItem

\* The messages of the pipe preserve TypeOK.
LEMMA MessageType ==
  ASSUME TypeOK, Message
  PROVE  TypeOK'
<1> DEFINE w == Sender
<1>0. queue' \in Seq(WorkItems) /\ list' = list
  <2>1. queue # <<>> /\ queue' = Tail(queue) /\ list' = list
    BY Zenon
       DEF Message, DropMessage, HandleInvalid, HandleGetPid, HandleHresultOk,
           HandleHresultBad, HandlePingReply, HandleRecycleRequest, HandleIdleRequest,
           HandleUnknownRequest, HandleShutdownRequest, HandleBrokenPipe, HandleIpmFault,
           HandleDisconnect, TakeMessage, Take
  <2> QED
    BY <2>1 DEF TypeOK
<1>1. CASE DropMessage
  BY <1>0, <1>1 DEF DropMessage, TypeOK
<1>2. CASE ~DropMessage
  <2>1. w \in WP
    BY <1>2, TakeType
       DEF Message, HandleInvalid, HandleGetPid, HandleHresultOk, HandleHresultBad,
           HandlePingReply, HandleRecycleRequest, HandleIdleRequest, HandleUnknownRequest,
           HandleShutdownRequest, HandleBrokenPipe, HandleIpmFault, HandleDisconnect,
           TakeMessage, Sender, PipeOps
  <2>2. wp[w] \in WorkerProcesses
    BY <2>1 DEF TypeOK
  <2>3. /\ \A why \in IllnessReasons : <<Ill(w, why)>> \in Seq(Frames)
        /\ \A fn \in WorkerProcessMethods : <<Call(fn, w)>> \in Seq(Frames)
        /\ <<>> \in Seq(Frames) /\ stack \in Seq(Frames)
    BY <2>1, IllFrame, WorkerFrame DEF TypeOK
  <2>4. CASE HandleInvalid
    BY <1>0, <2>3, <2>4 DEF HandleInvalid, TypeOK, IllnessReasons
  <2>5. CASE HandleGetPid
    <3>1. wp' \in [WP -> WorkerProcesses]
      <4>1. [wp EXCEPT ![w].m_Registered = TRUE] \in [WP -> WorkerProcesses]
        BY <2>1, FieldType DEF TypeOK
      <4> QED
        BY <2>5, <4>1 DEF HandleGetPid, TypeOK
    <3>2. stack' \in Seq(Frames)
      BY <2>3, <2>5 DEF HandleGetPid, IllnessReasons
    <3> QED
      BY <1>0, <2>5, <3>1, <3>2 DEF HandleGetPid, TypeOK
  <2>6. CASE HandleHresultOk
    <3> DEFINE h == [wp[w].handle EXCEPT !["Startup"] = "NULL"]
               running == [wp[w] EXCEPT !.m_State = "Running", !.handle = h]
    <3>1. h \in [Handles -> HandleStates]
      BY <2>2 DEF WorkerProcesses, HandleStates
    <3>2. running \in WorkerProcesses
      <4> HIDE DEF h
      <4> QED
        BY <2>2, <3>1 DEF WorkerProcesses, WorkerProcessStates
    <3>3. [running EXCEPT !.m_NotifiedAppPool = TRUE] \in WorkerProcesses
      <4> HIDE DEF running
      <4> QED
        BY <3>2, RecordType
    <3>4. \/ wp' = wp
          \/ wp' = [wp EXCEPT ![w] = running]
          \/ wp' = [wp EXCEPT ![w] = [running EXCEPT !.m_NotifiedAppPool = TRUE]]
      BY <2>6 DEF HandleHresultOk
    <3>5. wp' \in [WP -> WorkerProcesses]
      <4> HIDE DEF running
      <4> QED
        BY <2>1, <3>2, <3>3, <3>4, TableType DEF TypeOK
    <3>6. pool' \in AppPools
      <4>1. \/ pool' = pool
            \/ \E waits \in StartupAttemptDone(wp[w].m_StartReason, Len(list)) :
                 pool' = [pool EXCEPT !.m_WaitingForDemandStart = waits]
        BY <2>6 DEF HandleHresultOk
      <4> QED
        BY <4>1, PoolFieldsType, StartupAttemptDoneType
    <3>7. stack' \in Seq(Frames)
      <4>1. ReleasePredecessor(w) \o <<Call("StartupTail", w)>> \in Seq(Frames)
        BY <2>1, <2>3, ReleasePredecessorType DEF WorkerProcessMethods
      <4> QED
        BY <2>3, <2>6, <4>1 DEF HandleHresultOk, IllnessReasons, WorkerProcessMethods
    <3> QED
      BY <1>0, <3>5, <3>6, <3>7 DEF TypeOK
  <2>7. CASE HandleHresultBad
    BY <1>0, <2>3, <2>7 DEF HandleHresultBad, TypeOK, IllnessReasons
  <2>8. CASE HandlePingReply
    <3>1. ASSUME NEW failed \in BOOLEAN
          PROVE  PingReplied(wp[w], failed) \in WorkerProcesses
      <4> DEFINE r == wp[w]
                 h == [r.handle EXCEPT
                         !["PingResponse"] = "NULL",
                         !["SendPing"] = IF failed THEN r.handle["SendPing"] ELSE "armed"]
      <4>1. h \in [Handles -> HandleStates]
        BY <2>2 DEF WorkerProcesses, Handles, HandleStates
      <4>2. PingReplied(r, failed) =
              [r EXCEPT !.m_AwaitingPingReply = FALSE, !.m_IgnoredPingDueToDebugger = FALSE,
                        !.handle = h]
        BY DEF PingReplied
      <4> HIDE DEF h
      <4>3. [r EXCEPT !.m_AwaitingPingReply = FALSE, !.m_IgnoredPingDueToDebugger = FALSE,
                      !.handle = h] \in WorkerProcesses
        BY <2>2, <4>1 DEF WorkerProcesses
      <4> QED
        BY <4>2, <4>3
    <3>2. wp' \in [WP -> WorkerProcesses]
      BY <2>1, <2>8, <3>1, TableType DEF HandlePingReply, TypeOK, MayFail
    <3>3. stack' \in Seq(Frames)
      BY <2>3, <2>8 DEF HandlePingReply, IllnessReasons
    <3> QED
      BY <1>0, <2>8, <3>2, <3>3 DEF HandlePingReply, TypeOK
  <2>9. CASE HandleRecycleRequest \/ HandleIdleRequest \/ HandleUnknownRequest
    <3>1. stack' \in Seq(Frames)
      BY <2>3, <2>9 DEF HandleRecycleRequest, HandleIdleRequest, HandleUnknownRequest,
           HandleShutdownRequest, WorkerProcessMethods, IllnessReasons
    <3> QED
      BY <1>0, <2>9, <3>1 DEF HandleRecycleRequest, HandleIdleRequest, HandleUnknownRequest,
           HandleShutdownRequest, TypeOK
  <2>10. CASE HandleBrokenPipe \/ HandleIpmFault
    <3>1. stack' \in Seq(Frames)
      BY <2>3, <2>10 DEF HandleBrokenPipe, HandleIpmFault, HandleDisconnect,
           WorkerProcessMethods, IllnessReasons
    <3> QED
      BY <1>0, <2>10, <3>1 DEF HandleBrokenPipe, HandleIpmFault, HandleDisconnect, TypeOK
  <2> QED
    BY <1>2, <2>4, <2>5, <2>6, <2>7, <2>8, <2>9, <2>10 DEF Message
<1> QED
  BY <1>1, <1>2

\* What the process at the other end does preserves TypeOK.
LEMMA ProcessStepType ==
  ASSUME TypeOK, NEW w \in WP, ProcessStep(w)
  PROVE  TypeOK'
<1>1. wp' \in [WP -> WorkerProcesses]
  <2>1. wp[w].process.inbox \subseteq {"Ping", "Shutdown"}
    BY DEF TypeOK, WorkerProcesses, Processes
  <2>2. \/ wp' = wp
        \/ \E v \in ProcessPhases : wp' = [wp EXCEPT ![w].process.phase = v]
        \/ \E v \in SUBSET {"Ping", "Shutdown"} : wp' = [wp EXCEPT ![w].process.inbox = v]
        \/ wp' = [wp EXCEPT ![w].process.pipe = "broken"]
    BY <2>1 DEF ProcessStep, ProcessConnects, ProcessStarts, ProcessFailsToStart,
         ProcessAnswersPing, ProcessAsks, ProcessMisbehaves, ProcessExits, ProcessCrashes,
         PipeBreaks, PipeFaults, ProcessPhases
  <2>3. /\ \A v \in ProcessPhases : [wp EXCEPT ![w].process.phase = v] \in [WP -> WorkerProcesses]
        /\ \A v \in SUBSET {"Ping", "Shutdown"} :
             [wp EXCEPT ![w].process.inbox = v] \in [WP -> WorkerProcesses]
        /\ [wp EXCEPT ![w].process.pipe = "broken"] \in [WP -> WorkerProcesses]
    BY FieldType DEF TypeOK
  <2> QED
    BY <2>2, <2>3 DEF TypeOK
<1>2. /\ UNCHANGED <<pool, list, stack>>
      /\ queue' = queue \/ \E op \in PipeOps : Enqueue(Item(op, w))
  BY DEF ProcessStep, ProcessConnects, ProcessStarts, ProcessFailsToStart, ProcessAnswersPing,
       ProcessAsks, ProcessMisbehaves, ProcessExits, ProcessCrashes, PipeBreaks, PipeFaults,
       Says, PipeOps
<1>3. queue' \in Seq(WorkItems)
  BY <1>2, EnqueueType DEF TypeOK
<1> QED
  BY <1>1, <1>2, <1>3 DEF TypeOK

\* A timer or wait that fires preserves TypeOK.
LEMMA CallbackType ==
  ASSUME TypeOK, NEW w \in WP, NEW h \in Handles, Callback(w, h)
  PROVE  TypeOK'
<1>1. [wp EXCEPT ![w].handle[h] = "fired"] \in [WP -> WorkerProcesses]
  BY FieldType DEF TypeOK, HandleStates
<1>2. wp' \in [WP -> WorkerProcesses]
  BY <1>1, ReferencedType DEF Callback
<1>3. queue' \in Seq(WorkItems)
  BY EnqueueType DEF Callback
<1> QED
  BY <1>2, <1>3 DEF Callback, TypeOK

\* TypeOK holds initially...
LEMMA InitType == Init => TypeOK
  BY NoObjectType, InitializedPoolsType DEF Init, TypeOK

\* ... and every step preserves it.
LEMMA NextType == TypeOK /\ [Next]_vars => TypeOK'
<1> SUFFICES ASSUME TypeOK, [Next]_vars
             PROVE  TypeOK'
  OBVIOUS
<1>1. CASE MakeCall
  BY <1>1, AppPoolCallType, WorkerProcessCallType, DetachHandlerType DEF MakeCall
<1>2. CASE ExecuteWorkItem
  BY <1>2, WorkerProcessWorkItemType, MessageType, DemandStartType DEF ExecuteWorkItem
<1>3. CASE AppPoolEvent
  BY <1>3, AppPoolEventType
<1>4. CASE \E w \in WP : ProcessStep(w) \/ \E h \in Handles : Callback(w, h)
  BY <1>4, ProcessStepType, CallbackType
<1>5. CASE UNCHANGED vars
  BY <1>5 DEF vars, TypeOK
<1> QED
  BY <1>1, <1>2, <1>3, <1>4, <1>5 DEF Next

\* Every field of every object, work item and pending call keeps its type.
THEOREM TypeInvariant == Spec => []TypeOK
  BY InitType, NextType, PTL DEF Spec

-----------------------------------------------------------------------------
\* A sequence of calls none of which is Initialize.
Plain(s) == s \in Seq(Frames) /\ \A i \in 1 .. Len(s) : s[i].fn # "Initialize"

\* The empty sequence of calls is plain.
LEMMA PlainEmpty == Plain(<<>>)
  BY DEF Plain

\* So is a single call other than Initialize,
LEMMA PlainOne ==
  ASSUME NEW f \in Frames, f.fn # "Initialize"
  PROVE  Plain(<<f>>)
  BY DEF Plain

\* the calls of two plain sequences one after the other,
LEMMA PlainConcat ==
  ASSUME NEW s, NEW t, Plain(s), Plain(t)
  PROVE  Plain(s \o t)
<1>1. s \o t \in Seq(Frames) /\ Len(s \o t) = Len(s) + Len(t)
  BY DEF Plain
<1>2. \A i \in 1 .. Len(s \o t) : (s \o t)[i] = IF i <= Len(s) THEN s[i] ELSE t[i - Len(s)]
  BY DEF Plain
<1> QED
  BY <1>1, <1>2 DEF Plain

\* and two such calls.
LEMMA PlainPair ==
  ASSUME NEW f, NEW g, Plain(<<f>>), Plain(<<g>>)
  PROVE  Plain(<<f, g>>)
<1>1. ASSUME NEW s, Plain(s), Len(s) = 1
      PROVE  s[1] \in Frames /\ s[1].fn # "Initialize"
  BY <1>1 DEF Plain
<1>2. Len(<<f>>) = 1 /\ Len(<<g>>) = 1 /\ <<f>>[1] = f /\ <<g>>[1] = g
  OBVIOUS
<1>3. <<f>>[1] \in Frames /\ <<f>>[1].fn # "Initialize"
  BY <1>1, <1>2, Zenon
<1>4. <<g>>[1] \in Frames /\ <<g>>[1].fn # "Initialize"
  BY <1>1, <1>2, Zenon
<1>5. f \in Frames /\ g \in Frames /\ f.fn # "Initialize" /\ g.fn # "Initialize"
  BY <1>2, <1>3, <1>4
<1> QED
  BY <1>5 DEF Plain

\* Calls on a worker process other than Initialize are plain.
LEMMA PlainCall ==
  ASSUME NEW fn \in WorkerProcessMethods, fn # "Initialize", NEW w \in WP
  PROVE  Plain(<<Call(fn, w)>>)
<1>1. Call(fn, w) \in Frames /\ Call(fn, w).fn = fn
  BY WorkerFrame DEF Call
<1> QED
  BY <1>1, PlainOne

\* Calls on the pool are plain.
LEMMA PlainPoolCall ==
  ASSUME NEW fn \in AppPoolMethods
  PROVE  Plain(<<Call(fn, NoWP)>>)
<1>1. Call(fn, NoWP) \in Frames /\ Call(fn, NoWP).fn = fn
  BY PoolFrame DEF Call
<1> QED
  BY <1>1, PlainOne DEF AppPoolMethods

\* Calls of MarkAsTerminallyIll are plain.
LEMMA PlainIll ==
  ASSUME NEW w \in WP, NEW why \in IllnessReasons
  PROVE  Plain(<<Ill(w, why)>>)
<1>1. Ill(w, why) \in Frames /\ Ill(w, why).fn = "MarkAsTerminallyIll"
  BY IllFrame DEF Ill
<1> QED
  BY <1>1, PlainOne

\* The turns of the loops over the list are plain.
LEMMA PlainWalk ==
  ASSUME NEW fn \in Walks, NEW e \in WP \cup {NoWP, ListHead}
  PROVE  Plain(WalkFrom(fn, e))
<1>1. CASE e = ListHead
  BY <1>1, PlainEmpty DEF WalkFrom
<1>2. CASE e # ListHead
  <2>1. Call(fn, e) \in Frames /\ Call(fn, e).fn = fn
    BY <1>2 DEF Call, Frames
  <2> QED
    BY <1>2, <2>1, PlainOne DEF WalkFrom, Walks
<1> QED
  BY <1>1, <1>2

\* The calls on the process to replace are plain.
LEMMA PlainRelease ==
  ASSUME TypeOK, NEW w \in WP
  PROVE  Plain(ReleasePredecessor(w))
<1>1. CASE wp[w].m_pWorkerProcessToReplace = NoWP
  BY <1>1, PlainEmpty DEF ReleasePredecessor
<1>2. CASE wp[w].m_pWorkerProcessToReplace \in WP
  <2> DEFINE old == wp[w].m_pWorkerProcessToReplace
  <2>1. Plain(<<Call("Shutdown", old)>>) /\ Plain(<<Call("DropPredecessor", w)>>)
    BY <1>2, PlainCall DEF WorkerProcessMethods
  <2>2. Plain(<<Call("Shutdown", old), Call("DropPredecessor", w)>>)
    BY <2>1, PlainPair
  <2>3. ReleasePredecessor(w) = <<Call("Shutdown", old), Call("DropPredecessor", w)>>
    BY <1>2, PointerAssumption DEF ReleasePredecessor
  <2> QED
    BY <2>2, <2>3
<1> QED
  BY <1>1, <1>2 DEF TypeOK, WorkerProcesses

\* CheckIfShutdownUnderwayAndNowCompleted calls at most Terminate.
LEMMA PlainShutdownNowCompleted ==
  ASSUME NEW s
  PROVE  Plain(ShutdownNowCompleted(s))
  BY PlainEmpty, PlainPoolCall DEF ShutdownNowCompleted, AppPoolMethods

\* Every call of a worker process but InitiateReplacement returns after making
\* calls other than Initialize.
LEMMA WorkerProcessCallReturns ==
  ASSUME TypeOK, WorkerProcessCall \/ DetachHandler, ~InitiateReplacement
  PROVE  stack # <<>> /\ \E frames : Plain(frames) /\ Return(frames)
<1> USE DEF WorkerProcessMethods
<1>1. CASE Initialize
  <2>1. This \in WP
    BY <1>1, CallingWP DEF Initialize
  <2>2. \A outcome : Plain(InitializeDone(This, outcome))
    BY <2>1, PlainEmpty, PlainIll DEF InitializeDone, IllnessReasons
  <2> QED
    BY <1>1, <2>2 DEF Initialize, Calling
<1>2. CASE Shutdown
  <2>1. This \in WP
    BY <1>2, CallingWP DEF Shutdown
  <2>2. Plain(<<Ill(This, "InternalError")>>) /\ Plain(<<Call("Dereference", This)>>)
    BY <2>1, PlainIll, PlainCall DEF IllnessReasons
  <2>3. Plain(<<Ill(This, "InternalError"), Call("Dereference", This)>>)
    BY <2>2, PlainPair
  <2>4. Plain(ShutdownFailed(This))
    BY <2>3 DEF ShutdownFailed
  <2>5. Return(<<>>) \/ Return(ShutdownFailed(This))
    BY <1>2 DEF Shutdown
  <2> QED
    BY <1>2, <2>4, <2>5, PlainEmpty DEF Shutdown, Calling
<1>3. CASE Dereference
  BY <1>3, PlainEmpty DEF Dereference, Calling
<1>4. CASE MarkAsTerminallyIll
  <2>1. This \in WP
    BY <1>4, CallingWP DEF MarkAsTerminallyIll
  <2>2. Plain(<<Call("ReportFailure", This)>>) /\ Plain(<<Call("Terminate", This)>>)
    BY <2>1, PlainCall
  <2>4. Plain(<<Call("ReportFailure", This), Call("Terminate", This)>>)
    BY <2>2, PlainPair
  <2>5. \/ Return(<<>>)
        \/ Return(<<Call("ReportFailure", This), Call("Terminate", This)>>)
    BY <1>4 DEF MarkAsTerminallyIll
  <2> QED
    BY <1>4, <2>4, <2>5, PlainEmpty DEF MarkAsTerminallyIll, Calling
<1>5. CASE Terminate
  <2>1. This \in WP
    BY <1>5, CallingWP DEF Terminate
  <2>2. Plain(ReleasePredecessor(This) \o <<Call("TerminateTail", This)>>)
    BY <2>1, PlainRelease, PlainCall, PlainConcat
  <2> QED
    BY <1>5, <2>2, PlainEmpty DEF Terminate, Calling
<1>6. CASE TerminateTail
  BY <1>6, PlainShutdownNowCompleted DEF TerminateTail, Calling
<1>7. CASE DropPredecessor
  BY <1>7, PlainEmpty DEF DropPredecessor, Calling
<1>8. CASE StartupTail
  <2>1. This \in WP
    BY <1>8, CallingWP DEF StartupTail
  <2>2. Plain(<<Ill(This, "InternalError")>>)
    BY <2>1, PlainIll DEF IllnessReasons
  <2>3. Return(<<>>) \/ Return(<<Ill(This, "InternalError")>>)
    BY <1>8 DEF StartupTail
  <2> QED
    BY <1>8, <2>2, <2>3, PlainEmpty DEF StartupTail, Calling
<1>9. CASE MarkReplaced
  BY <1>9, PlainEmpty DEF MarkReplaced, Calling
<1>10. CASE DetachHandler
  BY <1>10, PlainEmpty DEF DetachHandler, Calling
<1> QED
  BY <1>1, <1>2, <1>3, <1>4, <1>5, <1>6, <1>7, <1>8, <1>9, <1>10 DEF WorkerProcessCall

\* InitiateReplacement makes Initialize its next call on a fresh object, or
\* makes no such call.
LEMMA InitiateReplacementReturns ==
  ASSUME TypeOK, InitiateReplacement
  PROVE  /\ stack # <<>>
         /\ \E frames \in Seq(Frames) :
              /\ Return(frames)
              /\ \/ Plain(frames) /\ wp' = wp
                 \/ \E new \in FreeMemory :
                      /\ frames = <<Call("Initialize", new), Call("MarkReplaced", This)>>
                      /\ wp' = Constructed(new, "Replace", This)
<1> USE DEF WorkerProcessMethods
<1>1. This \in WP /\ stack # <<>>
  BY CallingWP DEF InitiateReplacement, Calling
<1>2. Plain(ReplacementRefused(This))
  BY <1>1, PlainCall DEF ReplacementRefused
<1>3. \A new \in FreeMemory :
        <<Call("Initialize", new), Call("MarkReplaced", This)>> \in Seq(Frames)
  BY <1>1, WorkerFrame DEF FreeMemory
<1>4. \/ Return(<<>>) /\ wp' = wp
      \/ Return(ReplacementRefused(This)) /\ wp' = wp
      \/ \E new \in FreeMemory :
           /\ Return(<<Call("Initialize", new), Call("MarkReplaced", This)>>)
           /\ wp' = Constructed(new, "Replace", This)
  BY DEF InitiateReplacement
<1> QED
  BY <1>1, <1>2, <1>3, <1>4, PlainEmpty DEF Plain

\* So does every call on the pool.
LEMMA AppPoolCallReturns ==
  ASSUME TypeOK, AppPoolCall
  PROVE  stack # <<>> /\ \E frames : Plain(frames) /\ Return(frames)
<1> USE DEF AppPoolMethods
<1>1. CASE ReportFailure
  <2>1. Plain(<<Call("DisableAppPool", NoWP)>>)
    BY PlainPoolCall
  <2>2. Return(<<>>) \/ Return(<<Call("DisableAppPool", NoWP)>>)
    BY <1>1 DEF ReportFailure, RapidFailStop
  <2> QED
    BY <1>1, <2>1, <2>2, PlainEmpty DEF ReportFailure, Calling
<1>2. CASE DisableAppPool
  <2>1. Plain(WalkFrom("ShutdownAll", FirstEntry) \o <<Call("DisableTail", NoWP)>>)
    BY ListType, PlainWalk, PlainPoolCall, PlainConcat DEF Walks
  <2> QED
    BY <1>2, <2>1, PlainEmpty DEF DisableAppPool, Calling
<1>3. CASE DisableTail
  BY <1>3, PlainEmpty DEF DisableTail, Calling
<1>4. CASE ShutdownAllWorkerProcesses
  <2>1. ASSUME This \in WP
        PROVE  Plain(<<Call("Shutdown", This)>> \o WalkFrom("ShutdownAll", Flink(This)))
    <3>1. Plain(<<Call("Shutdown", This)>>) /\ Plain(WalkFrom("ShutdownAll", Flink(This)))
      BY <2>1, ListType, PlainWalk, PlainCall DEF Walks, WorkerProcessMethods
    <3> QED
      BY <3>1, PlainConcat
  <2> QED
    BY <1>4, <2>1, PlainEmpty DEF ShutdownAllWorkerProcesses, Calling
<1>5. CASE ReplaceAllWorkerProcesses
  <2>1. ASSUME This \in WP
        PROVE  Plain(<<Call("InitiateReplacement", This)>> \o WalkFrom("ReplaceAll", Flink(This)))
    <3>1. Plain(<<Call("InitiateReplacement", This)>>) /\ Plain(WalkFrom("ReplaceAll", Flink(This)))
      BY <2>1, ListType, PlainWalk, PlainCall DEF Walks, WorkerProcessMethods
    <3> QED
      BY <3>1, PlainConcat
  <2> QED
    BY <1>5, <2>1, PlainEmpty DEF ReplaceAllWorkerProcesses, Calling
<1>6. CASE HandleConfigChange
  <2>1. Plain(WalkFrom("ReplaceAll", FirstEntry))
    BY ListType, PlainWalk DEF Walks
  <2> QED
    BY <1>6, <2>1, PlainEmpty DEF HandleConfigChange, Calling
<1>7. CASE CheckShutdown
  BY <1>7, PlainShutdownNowCompleted DEF CheckShutdown, Calling
<1>8. CASE PoolTerminate
  BY <1>8, PlainPoolCall DEF PoolTerminate, Calling
<1>9. CASE TerminateAll
  <2>1. ASSUME list # <<>>
        PROVE  Plain(<<Call("Terminate", list[1]), Call("TerminateAll", NoWP)>>)
    <3>1. list[1] \in WP
      BY <2>1 DEF TypeOK
    <3>2. Plain(<<Call("Terminate", list[1])>>) /\ Plain(<<Call("TerminateAll", NoWP)>>)
      BY <3>1, PlainCall, PlainPoolCall DEF WorkerProcessMethods
    <3> QED
      BY <3>2, PlainPair
  <2> QED
    BY <1>9, <2>1, PlainEmpty DEF TerminateAll, Calling
<1> QED
  BY <1>1, <1>2, <1>3, <1>4, <1>5, <1>6, <1>7, <1>8, <1>9 DEF AppPoolCall

-----------------------------------------------------------------------------
(***************************************************************************)
(* Rapid fail protection.  RapidFailEngaged speaks of the moments between  *)
(* two work items only.  While a work item is executed the pool may well be *)
(* running with too many failures, but then the call that will disable it  *)
(* is still to be made.                                                    *)
(***************************************************************************)
Disabling(s) == \E i \in 1 .. Len(s) : s[i].fn \in {"DisableAppPool", "DisableTail"}

TooManyFailures(p) ==
  RapidFailProtection /\ p.m_RecentWorkerProcessFailures >= MaxCrashes /\ p.m_State = "Running"

DisablePending == TooManyFailures(pool) => Disabling(stack)

\* A call other than DisableAppPool leaves a pending one pending.
LEMMA DisablingStays ==
  ASSUME TypeOK, stack # <<>>, Head(stack).fn \notin {"DisableAppPool", "DisableTail"},
         Disabling(stack), NEW frames \in Seq(Frames), Return(frames)
  PROVE  Disabling(stack')
<1>1. PICK i \in 1 .. Len(stack) : stack[i].fn \in {"DisableAppPool", "DisableTail"}
  BY DEF Disabling
<1>2. i # 1
  BY <1>1
<1>3. stack \in Seq(Frames)
  BY DEF TypeOK
<1>4. i - 1 \in 1 .. Len(Tail(stack)) /\ Tail(stack)[i - 1] = stack[i]
  BY <1>1, <1>2, <1>3
<1>5. (frames \o Tail(stack))[Len(frames) + (i - 1)] = Tail(stack)[i - 1]
  BY <1>3, <1>4
<1>6. Len(frames) + (i - 1) \in 1 .. Len(frames \o Tail(stack))
  BY <1>3, <1>4
<1> QED
  BY <1>1, <1>4, <1>5, <1>6 DEF Disabling, Return

\* Staggering touches neither the state of the pool nor its failures.
LEMMA StaggeredKeeps ==
  ASSUME TypeOK
  PROVE  /\ ResetStaggering(pool).m_State = pool.m_State
         /\ ResetStaggering(pool).m_RecentWorkerProcessFailures
              = pool.m_RecentWorkerProcessFailures
         /\ Staggered(pool).m_State = pool.m_State
         /\ Staggered(pool).m_RecentWorkerProcessFailures = pool.m_RecentWorkerProcessFailures
<1>1. pool \in AppPools
  BY DEF TypeOK
<1>2. \A p \in AppPools : /\ ResetStaggering(p).m_State = p.m_State
                          /\ ResetStaggering(p).m_RecentWorkerProcessFailures
                               = p.m_RecentWorkerProcessFailures
  BY DEF AppPools, ResetStaggering
<1>3. \A p \in AppPools : \A n :
        /\ [p EXCEPT !.m_NumWPStarted = n].m_State = p.m_State
        /\ [p EXCEPT !.m_NumWPStarted = n].m_RecentWorkerProcessFailures
             = p.m_RecentWorkerProcessFailures
  BY DEF AppPools
<1> DEFINE q == IF list = <<>> THEN ResetStaggering(pool) ELSE pool
<1>4. q \in AppPools
  BY <1>1, StaggeredType
<1>5. \E n : Staggered(pool) = [q EXCEPT !.m_NumWPStarted = n]
  BY DEF Staggered
<1>6. q.m_State = pool.m_State
      /\ q.m_RecentWorkerProcessFailures = pool.m_RecentWorkerProcessFailures
  BY <1>1, <1>2
<1> HIDE DEF q
<1> QED
  BY <1>1, <1>2, <1>3, <1>4, <1>5, <1>6

\* Every call preserves DisablePending.
LEMMA CallsDisablePending ==
  ASSUME TypeOK, DisablePending, MakeCall
  PROVE  DisablePending'
<1>0. pool \in AppPools
  BY DEF TypeOK
<1>1. CASE ReportFailure
  <2>1. CASE UNCHANGED pool
    <3>1. Head(stack).fn = "ReportFailure" /\ stack # <<>>
      BY <1>1 DEF ReportFailure, Calling
    <3>2. \E frames : Plain(frames) /\ Return(frames)
      BY <1>1, AppPoolCallReturns DEF AppPoolCall
    <3> QED
      BY <2>1, <3>1, <3>2, DisablingStays DEF DisablePending, TooManyFailures, Plain
  <2>2. CASE ~UNCHANGED pool
    <3>1. PICK recent : /\ pool' = [pool EXCEPT !.m_RecentWorkerProcessFailures = recent]
                        /\ Return(RapidFailStop(recent))
      BY <1>1, <2>2 DEF ReportFailure
    <3>2. pool'.m_RecentWorkerProcessFailures = recent
      BY <1>0, <3>1 DEF AppPools
    <3>3. ASSUME recent >= MaxCrashes
          PROVE  Disabling(stack')
      <4>1. stack' = <<Call("DisableAppPool", NoWP)>> \o Tail(stack)
        BY <3>1, <3>3 DEF RapidFailStop, Return
      <4>2. Tail(stack) \in Seq(Frames) /\ Call("DisableAppPool", NoWP) \in Frames
        BY <1>1, PoolFrame DEF TypeOK, ReportFailure, Calling, AppPoolMethods
      <4>3. stack'[1] = Call("DisableAppPool", NoWP) /\ 1 \in 1 .. Len(stack')
        BY <4>1, <4>2
      <4> QED
        BY <4>3 DEF Disabling, Call
    <3> QED
      BY <3>2, <3>3 DEF DisablePending, TooManyFailures
  <2> QED
    BY <2>1, <2>2
<1>2. CASE DisableAppPool
  <2>1. CASE pool.m_State = "Running"
    <3> DEFINE walk == WalkFrom("ShutdownAll", FirstEntry)
               tail == Call("DisableTail", NoWP)
    <3>1. stack' = (walk \o <<tail>>) \o Tail(stack)
      BY <1>2, <2>1 DEF DisableAppPool, Return
    <3>2. walk \in Seq(Frames) /\ tail \in Frames /\ Tail(stack) \in Seq(Frames)
      BY <1>2, ListType, WalkFrames, PoolFrame
         DEF TypeOK, DisableAppPool, Calling, Walks, AppPoolMethods
    <3>3. tail.fn = "DisableTail"
      BY DEF Call
    <3> HIDE DEF walk, tail
    <3>4. stack'[Len(walk) + 1] = tail /\ Len(walk) + 1 \in 1 .. Len(stack')
      BY <3>1, <3>2
    <3> QED
      BY <3>3, <3>4 DEF Disabling, DisablePending
  <2>2. CASE pool.m_State # "Running"
    BY <1>2, <2>2 DEF DisableAppPool, DisablePending, TooManyFailures
  <2> QED
    BY <2>1, <2>2
<1>3. CASE DisableTail
  <2>1. pool'.m_State = "Disabled"
    BY <1>0, <1>3 DEF DisableTail, AppPools
  <2> QED
    BY <2>1 DEF DisablePending, TooManyFailures
<1>4. CASE PoolTerminate
  <2>1. pool'.m_State = "DeletePending"
    BY <1>0, <1>4 DEF PoolTerminate, AppPools
  <2> QED
    BY <2>1 DEF DisablePending, TooManyFailures
<1>5. CASE InitiateReplacement
  <2>1. Head(stack).fn = "InitiateReplacement" /\ stack # <<>>
    BY <1>5 DEF InitiateReplacement, Calling
  <2>2. pool'.m_State = pool.m_State
        /\ pool'.m_RecentWorkerProcessFailures = pool.m_RecentWorkerProcessFailures
    BY <1>5, StaggeredKeeps DEF InitiateReplacement
  <2> QED
    BY <1>5, <2>1, <2>2, InitiateReplacementReturns, DisablingStays
       DEF DisablePending, TooManyFailures
<1>6. CASE \/ HandleConfigChange \/ TerminateTail
           \/ /\ UNCHANGED pool
              /\ \/ ShutdownAllWorkerProcesses \/ ReplaceAllWorkerProcesses \/ CheckShutdown
                 \/ TerminateAll \/ Initialize \/ Shutdown \/ Dereference
                 \/ MarkAsTerminallyIll \/ Terminate \/ DropPredecessor \/ StartupTail
                 \/ MarkReplaced \/ DetachHandler
  <2>1. Head(stack).fn \notin {"DisableAppPool", "DisableTail", "InitiateReplacement"}
    BY <1>6 DEF HandleConfigChange, TerminateTail, ShutdownAllWorkerProcesses,
         ReplaceAllWorkerProcesses, CheckShutdown, TerminateAll, Initialize, Shutdown,
         Dereference, MarkAsTerminallyIll, Terminate, DropPredecessor, StartupTail,
         MarkReplaced, DetachHandler, Calling
  <2>2. stack # <<>> /\ \E frames \in Seq(Frames) : Return(frames)
    <3>1. ~InitiateReplacement
      BY <2>1 DEF InitiateReplacement, Calling
    <3> QED
      BY <1>6, <3>1, AppPoolCallReturns, WorkerProcessCallReturns
         DEF AppPoolCall, WorkerProcessCall, Plain
  <2>3. pool'.m_State = pool.m_State
        /\ pool'.m_RecentWorkerProcessFailures = pool.m_RecentWorkerProcessFailures
    <3>1. CASE HandleConfigChange
      BY <3>1, StaggeredKeeps DEF HandleConfigChange
    <3>2. CASE TerminateTail
      <4>1. \E waits : pool' = [pool EXCEPT !.m_WaitingForDemandStart = waits]
        BY <3>2 DEF TerminateTail
      <4> QED
        BY <1>0, <4>1 DEF AppPools
    <3> QED
      BY <1>6, <3>1, <3>2
  <2> QED
    BY <2>1, <2>2, <2>3, DisablingStays DEF DisablePending, TooManyFailures
<1>7. \/ ReportFailure \/ DisableAppPool \/ DisableTail \/ PoolTerminate
      \/ HandleConfigChange \/ TerminateTail \/ InitiateReplacement \/ UNCHANGED pool
  BY DEF MakeCall, AppPoolCall, WorkerProcessCall, ShutdownAllWorkerProcesses,
       ReplaceAllWorkerProcesses, CheckShutdown, TerminateAll, Initialize, Shutdown,
       Dereference, MarkAsTerminallyIll, Terminate, DropPredecessor, StartupTail,
       MarkReplaced, DetachHandler
<1> QED
  BY <1>1, <1>2, <1>3, <1>4, <1>5, <1>6, <1>7 DEF MakeCall, AppPoolCall, WorkerProcessCall

\* Starting a pool forgets its failures, or leaves it stopped.
LEMMA StartedKeeps ==
  ASSUME NEW p \in AppPools, ~TooManyFailures(p), NEW q \in Started(p)
  PROVE  ~TooManyFailures(q)
<1>1. CASE q = p
  BY <1>1
<1>2. CASE q \in Enable(p)
  <2> DEFINE r == [ResetStaggering(p) EXCEPT !.m_RecentWorkerProcessFailures = 0]
  <2>1. r \in AppPools /\ r.m_RecentWorkerProcessFailures = 0
    <3>1. ResetStaggering(p) \in AppPools
      BY SettingsAssumption DEF ResetStaggering, AppPools
    <3> QED
      BY <3>1, SettingsAssumption DEF AppPools
  <2>2. \/ q = r
        \/ \E waits : q = [r EXCEPT !.m_State = "Running", !.m_WaitingForDemandStart = waits]
    BY <1>2 DEF Enable
  <2> HIDE DEF r
  <2>3. q.m_RecentWorkerProcessFailures = 0
    BY <2>1, <2>2 DEF AppPools
  <2> QED
    BY <2>3, SettingsAssumption DEF TooManyFailures
<1> QED
  BY <1>1, <1>2 DEF Started

\* A pool that has just been initialized has no failures.
LEMMA InitializedKeeps ==
  ASSUME NEW q \in InitializedPools
  PROVE  ~TooManyFailures(q)
<1>1. PICK p \in ConstructedPools : q \in Started(p)
  BY DEF InitializedPools
<1>2. p \in AppPools
  BY ConstructedPoolsType
<1>3. p.m_State = "Uninitialized"
  BY DEF ConstructedPools
<1> QED
  BY <1>1, <1>2, <1>3, StartedKeeps DEF TooManyFailures

\* So does everything that happens between two work items.
LEMMA EventsDisablePending ==
  ASSUME TypeOK, DisablePending, stack = <<>>,
         \/ ExecuteWorkItem \/ AppPoolEvent
         \/ \E w \in WP : ProcessStep(w) \/ \E h \in Handles : Callback(w, h)
  PROVE  DisablePending'
<1>0. pool \in AppPools /\ ~TooManyFailures(pool)
  BY DEF TypeOK, DisablePending, Disabling
<1> SUFFICES ~TooManyFailures(pool')
  BY DEF DisablePending
<1>1. CASE UNCHANGED pool
  BY <1>0, <1>1 DEF TooManyFailures
<1>2. CASE FlowedStart
  BY <1>0, <1>2, StartedKeeps DEF FlowedStart
<1>3. CASE SetConfiguration
  <2>1. PICK n \in MaxProcessesSettings, o \in OverlapSettings, r \in RotateSettings,
             auto \in BOOLEAN :
          LET p == [pool EXCEPT !.maxProcesses = n, !.overlap = o, !.rotate = r,
                                !.autoStart = auto]
          IN pool' = p \/ pool' \in Started(p)
    <3>1. pool.autoStart \in BOOLEAN
      BY <1>0 DEF AppPools
    <3> QED
      BY <1>3, <3>1 DEF SetConfiguration
  <2> DEFINE p == [pool EXCEPT !.maxProcesses = n, !.overlap = o, !.rotate = r,
                               !.autoStart = auto]
  <2>2. p \in AppPools /\ ~TooManyFailures(p)
    BY <1>0 DEF AppPools, TooManyFailures
  <2> HIDE DEF p
  <2> QED
    BY <2>1, <2>2, StartedKeeps DEF p
<1>4. CASE RecycleWorkerProcesses
  BY <1>0, <1>4, StaggeredKeeps DEF RecycleWorkerProcesses, TooManyFailures
<1>5. CASE PoolShutdown
  <2>1. pool'.m_State = "ShutdownPending"
    BY <1>0, <1>5 DEF PoolShutdown, AppPools
  <2> QED
    BY <2>1 DEF TooManyFailures
<1>6. CASE CreatePool
  BY <1>6, InitializedKeeps DEF CreatePool
<1>7. CASE DemandStart
  <2>1. \E p \in {pool, Staggered(pool)} : \E waits :
          pool' = [p EXCEPT !.m_WaitingForDemandStart = waits]
    BY <1>7 DEF DemandStart
  <2>2. /\ pool'.m_State = pool.m_State
        /\ pool'.m_RecentWorkerProcessFailures = pool.m_RecentWorkerProcessFailures
    <3>1. Staggered(pool) \in AppPools
      BY StaggeredType
    <3>2. \A p \in AppPools : \A waits :
            /\ [p EXCEPT !.m_WaitingForDemandStart = waits].m_State = p.m_State
            /\ [p EXCEPT !.m_WaitingForDemandStart = waits].m_RecentWorkerProcessFailures
                 = p.m_RecentWorkerProcessFailures
      BY DEF AppPools
    <3> QED
      BY <1>0, <2>1, <3>1, <3>2, StaggeredKeeps
  <2> QED
    BY <1>0, <2>2 DEF TooManyFailures
<1>8. CASE HandleHresultOk
  <2>1. \/ pool' = pool
        \/ \E waits : pool' = [pool EXCEPT !.m_WaitingForDemandStart = waits]
    BY <1>8 DEF HandleHresultOk
  <2> QED
    BY <1>0, <2>1 DEF TooManyFailures, AppPools
<1>9. \/ UNCHANGED pool \/ FlowedStart \/ SetConfiguration \/ RecycleWorkerProcesses
      \/ PoolShutdown \/ CreatePool \/ DemandStart \/ HandleHresultOk
  <2>1. CASE ExecuteWorkItem
    BY <2>1, Zenon
       DEF ExecuteWorkItem, WorkerProcessWorkItem, StartupTimerExpired,
           ShutdownTimerExpired, SendPing, PingResponseTimerExpired, ProcessHandleSignaled,
           TakeOwn, Message, DropMessage, HandleInvalid, HandleGetPid, HandleHresultBad,
           HandlePingReply, HandleRecycleRequest, HandleIdleRequest, HandleUnknownRequest,
           HandleShutdownRequest, HandleBrokenPipe, HandleIpmFault, HandleDisconnect
  <2>2. CASE AppPoolEvent
    BY <2>2 DEF AppPoolEvent, FlowedStop, DeletePool, DemandArrives
  <2>3. CASE \E w \in WP : ProcessStep(w) \/ \E h \in Handles : Callback(w, h)
    BY <2>3, Zenon
       DEF ProcessStep, ProcessConnects, ProcessStarts, ProcessFailsToStart,
           ProcessAnswersPing, ProcessAsks, ProcessMisbehaves, ProcessExits, ProcessCrashes,
           PipeBreaks, PipeFaults, Says, Callback
  <2> QED
    BY <2>1, <2>2, <2>3
<1> QED
  BY <1>1, <1>2, <1>3, <1>4, <1>5, <1>6, <1>7, <1>8, <1>9

\* Work items, events, process steps and callbacks come between work items.
LEMMA OthersWhenIdle ==
  ASSUME \/ ExecuteWorkItem \/ AppPoolEvent
         \/ \E w \in WP : ProcessStep(w) \/ \E h \in Handles : Callback(w, h)
  PROVE  stack = <<>>
<1>1. CASE ExecuteWorkItem
  BY <1>1, Zenon
     DEF ExecuteWorkItem, WorkerProcessWorkItem, StartupTimerExpired, ShutdownTimerExpired,
         SendPing, PingResponseTimerExpired, ProcessHandleSignaled, TakeOwn, Message,
         DropMessage, HandleInvalid, HandleGetPid, HandleHresultOk, HandleHresultBad,
         HandlePingReply, HandleRecycleRequest, HandleIdleRequest, HandleUnknownRequest,
         HandleShutdownRequest, HandleBrokenPipe, HandleIpmFault, HandleDisconnect,
         TakeMessage, Take, Idle, DemandStart
<1>2. CASE AppPoolEvent
  BY <1>2, Zenon
     DEF AppPoolEvent, FlowedStart, FlowedStop, SetConfiguration, RecycleWorkerProcesses,
         PoolShutdown, DeletePool, CreatePool, DemandArrives, Idle
<1>3. CASE \E w \in WP : ProcessStep(w) \/ \E h \in Handles : Callback(w, h)
  BY <1>3, Zenon
     DEF ProcessStep, ProcessConnects, ProcessStarts, ProcessFailsToStart,
         ProcessAnswersPing, ProcessAsks, ProcessMisbehaves, ProcessExits, ProcessCrashes,
         PipeBreaks, PipeFaults, Says, Callback, Idle
<1> QED
  BY <1>1, <1>2, <1>3

\* DisablePending holds initially...
LEMMA InitDisablePending == Init => DisablePending
<1> SUFFICES ASSUME Init
             PROVE  ~TooManyFailures(pool)
  BY DEF DisablePending
<1> QED
  BY InitializedKeeps DEF Init

\* ... and every step preserves it.
LEMMA NextDisablePending == TypeOK /\ DisablePending /\ [Next]_vars => DisablePending'
<1> SUFFICES ASSUME TypeOK, DisablePending, [Next]_vars
             PROVE  DisablePending'
  OBVIOUS
<1>1. CASE MakeCall
  BY <1>1, CallsDisablePending
<1>2. CASE \/ ExecuteWorkItem \/ AppPoolEvent
           \/ \E w \in WP : ProcessStep(w) \/ \E h \in Handles : Callback(w, h)
  BY <1>2, OthersWhenIdle, EventsDisablePending
<1>3. CASE UNCHANGED vars
  BY <1>3 DEF vars, DisablePending, TooManyFailures, Disabling
<1> QED
  BY <1>1, <1>2, <1>3 DEF Next

\* Between two work items, a pool with as many recent failures as rapid fail
\* protection allows is not running (ReportWorkerProcessFailure, DisableAppPool).
THEOREM RapidFailSafety == Spec => []RapidFailEngaged
<1>1. DisablePending => RapidFailEngaged
  BY DEF DisablePending, TooManyFailures, Disabling, RapidFailEngaged, Idle
<1> QED
  BY <1>1, InitType, NextType, InitDisablePending, NextDisablePending, PTL DEF Spec

-----------------------------------------------------------------------------
(***************************************************************************)
(* Terminated processes.  TerminatedIsQuiet is preserved by every step but  *)
(* one as it stands: Initialize starts timers, and must therefore never be *)
(* called on an object that has been terminated.  InitializeFirst says so: *)
(* Initialize is only ever the very next call, on an object that has just  *)
(* been constructed.                                                       *)
(***************************************************************************)
Quiet(r) ==
  r.m_State \in {"DeletePending", "Free"} =>
    r.handle = NoHandles /\ r.m_pMessagingHandler = "NULL" /\ ~r.m_ProcessAlive
AllQuiet(tbl) == \A w \in WP : Quiet(tbl[w])

InitializeFirst ==
  \A i \in 1 .. Len(stack) :
    stack[i].fn = "Initialize" => i = 1 /\ wp[stack[i].w].m_State = "Uninitialized"

\* CreateWorkerProcess leaves the new object uninitialized.
LEMMA ConstructedState ==
  ASSUME NEW new \in WP, NEW reason, NEW old \in WP \cup {NoWP}, wp \in [WP -> WorkerProcesses]
  PROVE  Constructed(new, reason, old)[new].m_State = "Uninitialized"
<1> DEFINE tbl == [wp EXCEPT ![new] = NewWorkerProcess(reason, old)]
<1>1. tbl[new].m_State = "Uninitialized"
  <2>1. NewWorkerProcess(reason, old).m_State = "Uninitialized"
    BY DEF NewWorkerProcess, NoObject
  <2> QED
    BY <2>1
<1>2. Constructed(new, reason, old) = IF old = NoWP THEN tbl ELSE Referenced(tbl, old)
  BY DEF Constructed
<1>3. new \in DOMAIN tbl
  OBVIOUS
<1> HIDE DEF tbl
<1>4. \A x \in WP : [tbl EXCEPT ![x].m_RefCount = tbl[x].m_RefCount + 1][new].m_State = tbl[new].m_State
  BY <1>3
<1> QED
  BY <1>1, <1>2, <1>4 DEF Referenced

\* Where no Initialize is pending, InitializeFirst holds.
LEMMA PlainInitializeFirst ==
  ASSUME Plain(stack')
  PROVE  InitializeFirst'
  BY DEF Plain, InitializeFirst

\* Below the next call, no Initialize is pending.
LEMMA InitializeFirstTail ==
  ASSUME TypeOK, InitializeFirst, stack # <<>>
  PROVE  Plain(Tail(stack))
<1>1. stack \in Seq(Frames)
  BY DEF TypeOK
<1>2. /\ Tail(stack) \in Seq(Frames)
      /\ \A i \in 1 .. Len(Tail(stack)) :
           Tail(stack)[i] = stack[i + 1] /\ i + 1 \in 1 .. Len(stack) /\ i + 1 # 1
  BY <1>1
<1> QED
  BY <1>2 DEF Plain, InitializeFirst

\* Every call preserves InitializeFirst.
LEMMA CallsInitializeFirst ==
  ASSUME TypeOK, InitializeFirst, MakeCall
  PROVE  InitializeFirst'
<1>1. ASSUME stack # <<>>, NEW frames, Plain(frames), Return(frames)
      PROVE  InitializeFirst'
  <2>1. Plain(frames \o Tail(stack))
    BY <1>1, InitializeFirstTail, PlainConcat
  <2> QED
    BY <1>1, <2>1, PlainInitializeFirst DEF Return
<1>2. CASE ~InitiateReplacement
  BY <1>1, <1>2, WorkerProcessCallReturns, AppPoolCallReturns DEF MakeCall
<1>3. CASE InitiateReplacement
  <2>1. PICK frames \in Seq(Frames) :
          /\ Return(frames)
          /\ \/ Plain(frames) /\ wp' = wp
             \/ \E new \in FreeMemory :
                  /\ frames = <<Call("Initialize", new), Call("MarkReplaced", This)>>
                  /\ wp' = Constructed(new, "Replace", This)
    BY <1>3, InitiateReplacementReturns
  <2>2. stack # <<>>
    BY <1>3, InitiateReplacementReturns
  <2>3. CASE Plain(frames)
    BY <1>1, <2>1, <2>2, <2>3
  <2>4. ASSUME NEW new \in FreeMemory,
               frames = <<Call("Initialize", new), Call("MarkReplaced", This)>>,
               wp' = Constructed(new, "Replace", This)
        PROVE  InitializeFirst'
    <3>1. new \in WP /\ This \in WP
      BY <1>3, CallingWP DEF FreeMemory, InitiateReplacement, WorkerProcessMethods
    <3>2. wp'[new].m_State = "Uninitialized"
      BY <2>4, <3>1, ConstructedState DEF TypeOK
    <3>3. Plain(<<Call("MarkReplaced", This)>> \o Tail(stack))
      BY <2>2, <3>1, PlainCall, PlainConcat, InitializeFirstTail DEF WorkerProcessMethods
    <3>4. stack' = <<Call("Initialize", new)>> \o (<<Call("MarkReplaced", This)>> \o Tail(stack))
      <4>1. Tail(stack) \in Seq(Frames)
        BY <2>2 DEF TypeOK
      <4> QED
        BY <2>1, <2>4, <4>1 DEF Return
    <3> DEFINE f == Call("Initialize", new)
               rest == <<Call("MarkReplaced", This)>> \o Tail(stack)
    <3>5. f.w = new /\ f \in Frames
      BY <3>1, WorkerFrame DEF Call, WorkerProcessMethods
    <3> HIDE DEF f, rest
    <3>6. \A i \in 1 .. Len(stack') : stack'[i] = IF i = 1 THEN f ELSE rest[i - 1]
      BY <3>3, <3>4, <3>5 DEF Plain, f, rest
    <3>7. Len(stack') = Len(rest) + 1 /\ Len(rest) \in Nat
      BY <3>3, <3>4, <3>5 DEF Plain, f, rest
    <3>8. \A i \in 1 .. Len(rest) : rest[i].fn # "Initialize"
      BY <3>3 DEF Plain, rest
    <3> QED
      BY <3>2, <3>5, <3>6, <3>7, <3>8 DEF InitializeFirst
  <2> QED
    BY <2>1, <2>3, <2>4
<1> QED
  BY <1>2, <1>3

\* So does everything that happens between two work items.
LEMMA EventsInitializeFirst ==
  ASSUME TypeOK, InitializeFirst, stack = <<>>,
         \/ ExecuteWorkItem \/ AppPoolEvent
         \/ \E w \in WP : ProcessStep(w) \/ \E h \in Handles : Callback(w, h)
  PROVE  InitializeFirst'
<1>0. Plain(stack)
  BY PlainEmpty
<1> USE DEF WorkerProcessMethods, AppPoolMethods
<1>1. CASE UNCHANGED stack
  BY <1>0, <1>1, PlainInitializeFirst
<1>2. CASE WorkerProcessWorkItem
  <2> DEFINE w == Head(queue).w
  <2>1. w \in WP
    BY <1>2, TakeType DEF WorkerProcessWorkItem, StartupTimerExpired, ShutdownTimerExpired,
         SendPing, PingResponseTimerExpired, ProcessHandleSignaled, TakeOwn, Handles
  <2>2. /\ \A why \in IllnessReasons : Plain(<<Ill(w, why)>>)
        /\ Plain(<<Call("Terminate", w)>>) /\ Plain(<<Call("Dereference", w)>>)
    BY <2>1, PlainIll, PlainCall
  <2>3. \E frames : Plain(frames) /\ Done(w, frames)
    BY <1>2, <2>2, PlainEmpty
       DEF WorkerProcessWorkItem, StartupTimerExpired, ShutdownTimerExpired, SendPing,
           PingResponseTimerExpired, ProcessHandleSignaled, ProcessEnded, IllnessReasons
  <2>4. Plain(stack')
    BY <2>2, <2>3, PlainConcat DEF Done
  <2> QED
    BY <2>4, PlainInitializeFirst
<1>3. CASE Message /\ ~UNCHANGED stack
  <2> DEFINE w == Sender
  <2>1. w \in WP
    BY <1>3, TakeType
       DEF Message, DropMessage, HandleInvalid, HandleGetPid, HandleHresultOk,
           HandleHresultBad, HandlePingReply, HandleRecycleRequest, HandleIdleRequest,
           HandleUnknownRequest, HandleShutdownRequest, HandleBrokenPipe, HandleIpmFault,
           HandleDisconnect, TakeMessage, Sender, PipeOps
  <2>2. /\ \A why \in IllnessReasons : Plain(<<Ill(w, why)>>)
        /\ Plain(<<Call("Shutdown", w)>>) /\ Plain(<<Call("InitiateReplacement", w)>>)
    BY <2>1, PlainIll, PlainCall
  <2>3. CASE HandleHresultOk
    <3>1. Plain(ReleasePredecessor(w) \o <<Call("StartupTail", w)>>)
      BY <2>1, PlainRelease, PlainCall, PlainConcat
    <3>2. Plain(stack')
      BY <2>2, <2>3, <3>1 DEF HandleHresultOk, IllnessReasons
    <3> QED
      BY <3>2, PlainInitializeFirst
  <2>4. CASE HandleBrokenPipe \/ HandleIpmFault
    <3>1. Plain(<<Call("DetachHandler", w)>>)
      BY <2>1, PlainCall
    <3>2. \E frames : Plain(frames) /\ stack' = frames \o <<Call("DetachHandler", w)>>
      BY <2>2, <2>4, PlainEmpty DEF HandleBrokenPipe, HandleIpmFault, HandleDisconnect,
           IllnessReasons
    <3>3. Plain(stack')
      BY <3>1, <3>2, PlainConcat
    <3> QED
      BY <3>3, PlainInitializeFirst
  <2>5. CASE ~HandleHresultOk /\ ~HandleBrokenPipe /\ ~HandleIpmFault
    <3>1. Plain(stack')
      BY <1>3, <2>2, <2>5, PlainEmpty
         DEF Message, DropMessage, HandleInvalid, HandleGetPid, HandleHresultBad,
             HandlePingReply, HandleRecycleRequest, HandleIdleRequest, HandleUnknownRequest,
             HandleShutdownRequest, IllnessReasons
    <3> QED
      BY <3>1, PlainInitializeFirst
  <2> QED
    BY <2>3, <2>4, <2>5
<1>4. CASE DemandStart /\ ~UNCHANGED stack
  <2>1. PICK new \in FreeMemory : /\ wp' = Constructed(new, "DemandStart", NoWP)
                                  /\ stack' = <<Call("Initialize", new)>>
    BY <1>4 DEF DemandStart
  <2>2. wp'[new].m_State = "Uninitialized"
    BY <2>1, ConstructedState DEF TypeOK, FreeMemory
  <2>3. Len(stack') = 1 /\ stack'[1].w = new
    BY <2>1 DEF Call
  <2> QED
    BY <2>2, <2>3 DEF InitializeFirst
<1>5. CASE AppPoolEvent
  <2>1. /\ Plain(<<Call("DisableAppPool", NoWP)>>) /\ Plain(<<Call("ConfigChange", NoWP)>>)
        /\ Plain(<<Call("CheckShutdown", NoWP)>>) /\ Plain(<<Call("PoolTerminate", NoWP)>>)
        /\ Plain(WalkFrom("ReplaceAll", FirstEntry)) /\ Plain(WalkFrom("ShutdownAll", FirstEntry))
    BY PlainPoolCall, PlainWalk, ListType DEF Walks
  <2>2. CASE SetConfiguration
    <3>1. \E s, t : Plain(s) /\ Plain(t) /\ stack' = s \o t
      BY <2>1, <2>2, PlainEmpty DEF SetConfiguration
    <3> QED
      BY <3>1, PlainConcat, PlainInitializeFirst
  <2>3. CASE PoolShutdown
    <3>1. \E s, t : Plain(s) /\ Plain(t) /\ stack' = s \o t
      BY <2>1, <2>3 DEF PoolShutdown
    <3> QED
      BY <3>1, PlainConcat, PlainInitializeFirst
  <2>4. CASE FlowedStop \/ RecycleWorkerProcesses \/ DeletePool
    <3>1. Plain(stack')
      BY <2>1, <2>4 DEF FlowedStop, RecycleWorkerProcesses, DeletePool
    <3> QED
      BY <3>1, PlainInitializeFirst
  <2>5. CASE FlowedStart \/ CreatePool \/ DemandArrives
    BY <1>1, <2>5 DEF FlowedStart, CreatePool, DemandArrives
  <2> QED
    BY <1>5, <2>2, <2>3, <2>4, <2>5 DEF AppPoolEvent
<1>6. CASE \E w \in WP : ProcessStep(w) \/ \E h \in Handles : Callback(w, h)
  <2>1. UNCHANGED stack
    BY <1>6, Zenon
       DEF ProcessStep, ProcessConnects, ProcessStarts, ProcessFailsToStart,
           ProcessAnswersPing, ProcessAsks, ProcessMisbehaves, ProcessExits, ProcessCrashes,
           PipeBreaks, PipeFaults, Says, Callback
  <2> QED
    BY <1>1, <2>1
<1> QED
  BY <1>1, <1>2, <1>3, <1>4, <1>5, <1>6 DEF ExecuteWorkItem

\* Tables that differ only in a quiet record, or in fields Quiet does not mention.
LEMMA QuietStore ==
  ASSUME NEW tbl \in [WP -> WorkerProcesses], AllQuiet(tbl), NEW w \in WP, NEW r, Quiet(r)
  PROVE  AllQuiet([tbl EXCEPT ![w] = r])
  BY DEF AllQuiet

\* Fields that Quiet does not mention, and resets, keep a record quiet.
LEMMA QuietRecord ==
  ASSUME NEW r \in WorkerProcesses, Quiet(r)
  PROVE  /\ \A v : Quiet([r EXCEPT !.m_RefCount = v])
         /\ \A v : Quiet([r EXCEPT !.m_TerminalIllReason = v])
         /\ \A v : Quiet([r EXCEPT !.m_pWorkerProcessToReplace = v])
         /\ \A v : Quiet([r EXCEPT !.m_BeingReplaced = v])
         /\ \A v : Quiet([r EXCEPT !.m_NotifiedAppPool = v])
         /\ \A v : Quiet([r EXCEPT !.m_Registered = v])
         /\ \A v : Quiet([r EXCEPT !.m_IgnoredPingDueToDebugger = v])
         /\ \A v : Quiet([r EXCEPT !.process = v])
         /\ Quiet([r EXCEPT !.m_ProcessAlive = FALSE])
         /\ \A h : Quiet([r EXCEPT !.handle = [r.handle EXCEPT ![h] = "NULL"]])
<1>1. \A h : [NoHandles EXCEPT ![h] = "NULL"] = NoHandles
  BY DEF NoHandles
<1> QED
  BY <1>1 DEF WorkerProcesses, Quiet

\* The same for an assignment to one field of one object in the table.
LEMMA QuietField ==
  ASSUME NEW tbl \in [WP -> WorkerProcesses], AllQuiet(tbl), NEW w \in WP
  PROVE  /\ \A v : AllQuiet([tbl EXCEPT ![w].m_RefCount = v])
         /\ \A v : AllQuiet([tbl EXCEPT ![w].m_TerminalIllReason = v])
         /\ \A v : AllQuiet([tbl EXCEPT ![w].m_pWorkerProcessToReplace = v])
         /\ \A v : AllQuiet([tbl EXCEPT ![w].m_BeingReplaced = v])
         /\ \A v : AllQuiet([tbl EXCEPT ![w].m_NotifiedAppPool = v])
         /\ \A v : AllQuiet([tbl EXCEPT ![w].m_Registered = v])
         /\ \A v : AllQuiet([tbl EXCEPT ![w].m_IgnoredPingDueToDebugger = v])
         /\ \A v : AllQuiet([tbl EXCEPT ![w].process.phase = v])
         /\ \A v : AllQuiet([tbl EXCEPT ![w].process.inbox = v])
         /\ \A v : AllQuiet([tbl EXCEPT ![w].process.pipe = v])
         /\ AllQuiet([tbl EXCEPT ![w].m_ProcessAlive = FALSE])
         /\ \A h : AllQuiet([tbl EXCEPT ![w].handle[h] = "NULL"])
<1>1. tbl[w] \in WorkerProcesses /\ Quiet(tbl[w])
  BY DEF AllQuiet
<1>2. \A r : Quiet(r) => AllQuiet([tbl EXCEPT ![w] = r])
  BY DEF AllQuiet
<1> QED
  BY <1>1, <1>2, QuietRecord

\* Dereference keeps the table quiet: a deleted object is.
LEMMA QuietDereferenced ==
  ASSUME NEW tbl \in [WP -> WorkerProcesses], AllQuiet(tbl), NEW w \in WP
  PROVE  AllQuiet(Dereferenced(tbl, w))
<1>1. Quiet(NoObject)
  BY DEF Quiet, NoObject
<1>2. tbl[w] \in WorkerProcesses /\ Quiet(tbl[w])
  BY DEF AllQuiet
<1>3. Quiet([tbl[w] EXCEPT !.m_RefCount = tbl[w].m_RefCount - 1])
  BY <1>2, QuietRecord
<1>4. \A r : Quiet(r) => AllQuiet([tbl EXCEPT ![w] = r])
  BY DEF AllQuiet
<1> QED
  BY <1>1, <1>3, <1>4 DEF Dereferenced

\* Reference keeps the table quiet.
LEMMA QuietReferenced ==
  ASSUME NEW tbl \in [WP -> WorkerProcesses], AllQuiet(tbl), NEW w \in WP
  PROVE  AllQuiet(Referenced(tbl, w))
  BY QuietField DEF Referenced

\* CreateWorkerProcess keeps the table quiet.
LEMMA QuietConstructed ==
  ASSUME TypeOK, AllQuiet(wp), NEW new \in WP, NEW reason \in {"DemandStart", "Replace"},
         NEW old \in WP \cup {NoWP}
  PROVE  AllQuiet(Constructed(new, reason, old))
<1> DEFINE tbl == [wp EXCEPT ![new] = NewWorkerProcess(reason, old)]
<1>1. tbl \in [WP -> WorkerProcesses]
  BY NewWorkerProcessType, TableType DEF TypeOK
<1>2. Quiet(NewWorkerProcess(reason, old))
  BY DEF Quiet, NewWorkerProcess, NoObject
<1>3. AllQuiet(tbl)
  BY <1>2, QuietStore DEF TypeOK
<1>4. Constructed(new, reason, old) = IF old = NoWP THEN tbl ELSE Referenced(tbl, old)
  BY DEF Constructed
<1> HIDE DEF tbl
<1> QED
  BY <1>1, <1>3, <1>4, QuietReferenced

\* Every call keeps the table quiet.
LEMMA CallsAllQuiet ==
  ASSUME TypeOK, InitializeFirst, AllQuiet(wp), MakeCall
  PROVE  AllQuiet(wp')
<1> USE DEF WorkerProcessMethods
<1>0. wp \in [WP -> WorkerProcesses]
  BY DEF TypeOK
<1>1. CASE Initialize
  <2>1. This \in WP /\ stack # <<>> /\ Head(stack).fn = "Initialize"
    BY <1>1, CallingWP DEF Initialize, Calling
  <2>2. stack[1].fn = "Initialize" /\ stack[1].w = This /\ 1 \in 1 .. Len(stack)
    BY <2>1 DEF TypeOK, This
  <2>3. wp[This].m_State = "Uninitialized" /\ wp[This] \in WorkerProcesses
    BY <1>0, <2>1, <2>2 DEF InitializeFirst
  <2>4. PICK outcome : wp' = [wp EXCEPT ![This] = Initialized(wp[This], outcome)]
    BY <1>1 DEF Initialize
  <2>5. Initialized(wp[This], outcome).m_State \in {"Uninitialized", "RegistrationPending"}
    BY <2>3 DEF Initialized, WorkerProcesses
  <2>6. Quiet(Initialized(wp[This], outcome))
    BY <2>5 DEF Quiet
  <2> QED
    BY <1>0, <2>1, <2>4, <2>6, QuietStore
<1>2. CASE Shutdown
  <2>1. This \in WP
    BY <1>2, CallingWP DEF Shutdown
  <2>2. wp[This] \in WorkerProcesses
    BY <1>0, <2>1
  <2>3. \A outcome : ShutdownBegun(wp[This], outcome).m_State = "ShutdownPending"
    BY <2>2 DEF ShutdownBegun, WorkerProcesses
  <2>4. [wp[This] EXCEPT !.m_State = "RegistrationPendingShutdownPending"].m_State
          = "RegistrationPendingShutdownPending"
    BY <2>2 DEF WorkerProcesses
  <2>5. \A outcome : ShutdownBegun(wp[This], outcome) \in WorkerProcesses
    BY <2>2, ShutdownBegunType
  <2>6. /\ AllQuiet([wp EXCEPT ![This] =
                       [wp[This] EXCEPT !.m_State = "RegistrationPendingShutdownPending"]])
        /\ \A outcome : AllQuiet([wp EXCEPT ![This] = ShutdownBegun(wp[This], outcome)])
    BY <1>0, <2>1, <2>3, <2>4, QuietStore DEF Quiet
  <2>7. \A outcome :
          AllQuiet(Referenced([wp EXCEPT ![This] = ShutdownBegun(wp[This], outcome)], This))
    BY <1>0, <2>1, <2>5, <2>6, TableType, QuietReferenced
  <2>8. \/ wp' = wp
        \/ wp' = [wp EXCEPT ![This] =
                    [wp[This] EXCEPT !.m_State = "RegistrationPendingShutdownPending"]]
        \/ \E outcome :
             \/ wp' = [wp EXCEPT ![This] = ShutdownBegun(wp[This], outcome)]
             \/ wp' = Referenced([wp EXCEPT ![This] = ShutdownBegun(wp[This], outcome)], This)
    BY <1>2 DEF Shutdown
  <2> QED
    BY <2>6, <2>7, <2>8
<1>3. CASE Dereference
  <2>1. This \in WP
    BY <1>3, CallingWP DEF Dereference
  <2> QED
    BY <1>0, <1>3, <2>1, QuietDereferenced DEF Dereference
<1>4. CASE MarkAsTerminallyIll
  <2>1. This \in WP
    BY <1>4, CallingWP DEF MarkAsTerminallyIll
  <2>2. \/ wp' = wp
        \/ \E v : wp' = [wp EXCEPT ![This].m_IgnoredPingDueToDebugger = v]
        \/ \E v : wp' = [wp EXCEPT ![This].m_TerminalIllReason = v]
    BY <1>4 DEF MarkAsTerminallyIll
  <2>3. /\ \A v : AllQuiet([wp EXCEPT ![This].m_IgnoredPingDueToDebugger = v])
        /\ \A v : AllQuiet([wp EXCEPT ![This].m_TerminalIllReason = v])
    BY <1>0, <2>1, QuietField
  <2> QED
    BY <2>2, <2>3
<1>5. CASE Terminate
  <2>1. This \in WP
    BY <1>5, CallingWP DEF Terminate
  <2>2. wp[This] \in WorkerProcesses
    BY <1>0, <2>1
  <2>3. Quiet(Terminated(wp[This]))
    BY <2>2 DEF Quiet, Terminated, WorkerProcesses
  <2> QED
    BY <1>0, <1>5, <2>1, <2>3, QuietStore DEF Terminate
<1>6. CASE TerminateTail
  <2>1. This \in WP
    BY <1>6, CallingWP DEF TerminateTail
  <2>2. /\ [wp EXCEPT ![This].m_NotifiedAppPool = TRUE] \in [WP -> WorkerProcesses]
        /\ AllQuiet([wp EXCEPT ![This].m_NotifiedAppPool = TRUE])
    BY <1>0, <2>1, FieldType, QuietField
  <2> QED
    BY <1>6, <2>1, <2>2, QuietDereferenced DEF TerminateTail
<1>7. CASE DropPredecessor
  <2> DEFINE old == wp[This].m_pWorkerProcessToReplace
  <2>1. This \in WP
    BY <1>7, CallingWP DEF DropPredecessor
  <2>2. /\ [wp EXCEPT ![This].m_pWorkerProcessToReplace = NoWP] \in [WP -> WorkerProcesses]
        /\ AllQuiet([wp EXCEPT ![This].m_pWorkerProcessToReplace = NoWP])
    BY <1>0, <2>1, FieldType, QuietField
  <2>3. old \in WP \cup {NoWP}
    BY <1>0, <2>1 DEF WorkerProcesses
  <2>4. \/ wp' = wp
        \/ old \in WP /\ wp' = Dereferenced([wp EXCEPT ![This].m_pWorkerProcessToReplace = NoWP], old)
    BY <1>7, <2>3 DEF DropPredecessor
  <2> QED
    BY <2>2, <2>4, QuietDereferenced
<1>8. CASE StartupTail
  <2>1. This \in WP
    BY <1>8, CallingWP DEF StartupTail
  <2>2. CASE wp[This].m_pMessagingHandler = "NULL"
    BY <1>8, <2>2 DEF StartupTail
  <2>3. CASE wp[This].m_pMessagingHandler # "NULL"
    <3>1. wp[This] \in WorkerProcesses /\ wp[This].m_State \notin {"DeletePending", "Free"}
      BY <1>0, <2>1, <2>3 DEF AllQuiet, Quiet
    <3>2. \A v : [wp[This] EXCEPT !.handle = v].m_State = wp[This].m_State
      BY <3>1 DEF WorkerProcesses
    <3>3. \A v : AllQuiet([wp EXCEPT ![This] = [wp[This] EXCEPT !.handle = v]])
      BY <1>0, <2>1, <3>1, <3>2, QuietStore DEF Quiet
    <3>4. wp' = wp \/ \E v : wp' = [wp EXCEPT ![This] = [wp[This] EXCEPT !.handle = v]]
      BY <1>8, <2>3 DEF StartupTail
    <3> QED
      BY <3>3, <3>4
  <2> QED
    BY <2>2, <2>3
<1>9. CASE InitiateReplacement
  <2>1. This \in WP
    BY <1>9, CallingWP DEF InitiateReplacement
  <2>2. \/ wp' = wp
        \/ \E new \in WP : wp' = Constructed(new, "Replace", This)
    BY <1>9 DEF InitiateReplacement, FreeMemory
  <2> QED
    BY <2>1, <2>2, QuietConstructed
<1>10. CASE MarkReplaced
  <2>1. This \in WP
    BY <1>10, CallingWP DEF MarkReplaced
  <2>2. AllQuiet([wp EXCEPT ![This].m_BeingReplaced = TRUE])
    BY <1>0, <2>1, QuietField
  <2> QED
    BY <1>10, <2>2 DEF MarkReplaced
<1>11. CASE DetachHandler
  <2>1. This \in WP
    BY <1>11, CallingWP DEF DetachHandler
  <2>2. CASE wp[This].m_pMessagingHandler = "attached"
    <3>1. wp[This] \in WorkerProcesses /\ wp[This].m_State \notin {"DeletePending", "Free"}
      BY <1>0, <2>1, <2>2 DEF AllQuiet, Quiet
    <3>2. [wp[This] EXCEPT !.m_pMessagingHandler = "detached"].m_State = wp[This].m_State
      BY <3>1 DEF WorkerProcesses
    <3>3. AllQuiet([wp EXCEPT ![This] = [wp[This] EXCEPT !.m_pMessagingHandler = "detached"]])
      BY <1>0, <2>1, <3>1, <3>2, QuietStore DEF Quiet
    <3>4. [wp EXCEPT ![This].m_pMessagingHandler = "detached"] \in [WP -> WorkerProcesses]
      BY <1>0, <2>1, FieldType DEF HandlerStates
    <3>5. wp' = Dereferenced([wp EXCEPT ![This].m_pMessagingHandler = "detached"], This)
      BY <1>11, <2>2 DEF DetachHandler
    <3> QED
      BY <2>1, <3>3, <3>4, <3>5, QuietDereferenced
  <2>3. CASE wp[This].m_pMessagingHandler # "attached"
    BY <1>11, <2>3 DEF DetachHandler
  <2> QED
    BY <2>2, <2>3
<1>12. CASE AppPoolCall
  <2>1. UNCHANGED wp
    BY <1>12, Zenon
       DEF AppPoolCall, ReportFailure, DisableAppPool, DisableTail,
           ShutdownAllWorkerProcesses, ReplaceAllWorkerProcesses, HandleConfigChange,
           CheckShutdown, PoolTerminate, TerminateAll
  <2> QED
    BY <2>1
<1> QED
  BY <1>1, <1>2, <1>3, <1>4, <1>5, <1>6, <1>7, <1>8, <1>9, <1>10, <1>11, <1>12
     DEF MakeCall, WorkerProcessCall

\* So does everything that happens between two work items.
LEMMA EventsAllQuiet ==
  ASSUME TypeOK, AllQuiet(wp),
         \/ ExecuteWorkItem \/ AppPoolEvent
         \/ \E w \in WP : ProcessStep(w) \/ \E h \in Handles : Callback(w, h)
  PROVE  AllQuiet(wp')
<1>0. wp \in [WP -> WorkerProcesses]
  BY DEF TypeOK
<1>1. CASE UNCHANGED wp
  BY <1>1
<1>2. CASE SendPing
  <2> DEFINE w == Head(queue).w
  <2>1. w \in WP
    BY <1>2, TakeType DEF SendPing, TakeOwn, Handles
  <2>2. AllQuiet([wp EXCEPT ![w].handle["SendPing"] = "NULL"])
    BY <1>0, <2>1, QuietField
  <2>3. ASSUME wp[w].m_State = "Running"
        PROVE  \A outcome : AllQuiet([wp EXCEPT ![w] = PingSent(wp[w], outcome)])
    <3>1. \A outcome : PingSent(wp[w], outcome).m_State = "Running"
      BY <1>0, <2>1, <2>3 DEF PingSent, WorkerProcesses
    <3> QED
      BY <1>0, <2>1, <3>1, QuietStore DEF Quiet
  <2> QED
    BY <1>2, <2>2, <2>3 DEF SendPing
<1>3. CASE PingResponseTimerExpired
  <2> DEFINE w == Head(queue).w
  <2>1. w \in WP
    BY <1>3, TakeType DEF PingResponseTimerExpired, TakeOwn, Handles
  <2>2. AllQuiet([wp EXCEPT ![w].handle["PingResponse"] = "NULL"])
    BY <1>0, <2>1, QuietField
  <2> QED
    BY <1>3, <2>2 DEF PingResponseTimerExpired
<1>4. CASE ProcessHandleSignaled
  <2> DEFINE w == Head(queue).w
  <2>1. w \in WP
    BY <1>4, TakeType DEF ProcessHandleSignaled, TakeOwn, Handles
  <2>2. AllQuiet([wp EXCEPT ![w].m_ProcessAlive = FALSE])
    BY <1>0, <2>1, QuietField
  <2> QED
    BY <1>4, <2>2 DEF ProcessHandleSignaled
<1>5. CASE HandleGetPid
  <2>1. Sender \in WP
    BY <1>5, TakeType DEF HandleGetPid, TakeMessage, Sender, PipeOps
  <2>2. AllQuiet([wp EXCEPT ![Sender].m_Registered = TRUE])
    BY <1>0, <2>1, QuietField
  <2> QED
    BY <1>5, <2>2 DEF HandleGetPid
<1>6. CASE HandleHresultOk
  <2>1. Sender \in WP
    BY <1>6, TakeType DEF HandleHresultOk, TakeMessage, Sender, PipeOps
  <2> DEFINE running == [wp[Sender] EXCEPT !.m_State = "Running",
                           !.handle = [wp[Sender].handle EXCEPT !["Startup"] = "NULL"]]
  <2>2. /\ running.m_State = "Running"
        /\ [running EXCEPT !.m_NotifiedAppPool = TRUE].m_State = "Running"
    BY <1>0, <2>1 DEF WorkerProcesses
  <2>3. \/ wp' = wp
        \/ wp' = [wp EXCEPT ![Sender] = running]
        \/ wp' = [wp EXCEPT ![Sender] = [running EXCEPT !.m_NotifiedAppPool = TRUE]]
    BY <1>6 DEF HandleHresultOk
  <2> HIDE DEF running
  <2>4. Quiet(running) /\ Quiet([running EXCEPT !.m_NotifiedAppPool = TRUE])
    BY <2>2 DEF Quiet
  <2>5. /\ AllQuiet([wp EXCEPT ![Sender] = running])
        /\ AllQuiet([wp EXCEPT ![Sender] = [running EXCEPT !.m_NotifiedAppPool = TRUE]])
    BY <1>0, <2>1, <2>4, QuietStore
  <2> QED
    BY <2>3, <2>5
<1>7. CASE HandlePingReply
  <2>1. Sender \in WP
    BY <1>7, TakeType DEF HandlePingReply, TakeMessage, Sender, PipeOps
  <2>2. wp[Sender].m_pMessagingHandler = "attached" /\ wp[Sender] \in WorkerProcesses
    BY <1>0, <1>7, <2>1 DEF HandlePingReply, TakeMessage, Sender
  <2>3. wp[Sender].m_State \notin {"DeletePending", "Free"}
    BY <2>1, <2>2 DEF AllQuiet, Quiet
  <2>4. \A failed : PingReplied(wp[Sender], failed).m_State = wp[Sender].m_State
    BY <2>2 DEF PingReplied, WorkerProcesses
  <2>5. \A failed : AllQuiet([wp EXCEPT ![Sender] = PingReplied(wp[Sender], failed)])
    BY <1>0, <2>1, <2>3, <2>4, QuietStore DEF Quiet
  <2> QED
    BY <1>7, <2>5 DEF HandlePingReply
<1>8. CASE DemandStart
  <2>1. wp' = wp \/ \E new \in WP : wp' = Constructed(new, "DemandStart", NoWP)
    BY <1>8 DEF DemandStart, FreeMemory
  <2> QED
    BY <2>1, QuietConstructed
<1>9. ASSUME NEW w \in WP, ProcessStep(w)
      PROVE  AllQuiet(wp')
  <2>1. \/ wp' = wp
        \/ \E v : \/ wp' = [wp EXCEPT ![w].process.phase = v]
                  \/ wp' = [wp EXCEPT ![w].process.inbox = v]
                  \/ wp' = [wp EXCEPT ![w].process.pipe = v]
    BY <1>9 DEF ProcessStep, ProcessConnects, ProcessStarts, ProcessFailsToStart,
         ProcessAnswersPing, ProcessAsks, ProcessMisbehaves, ProcessExits, ProcessCrashes,
         PipeBreaks, PipeFaults
  <2>2. \A v : /\ AllQuiet([wp EXCEPT ![w].process.phase = v])
              /\ AllQuiet([wp EXCEPT ![w].process.inbox = v])
              /\ AllQuiet([wp EXCEPT ![w].process.pipe = v])
    BY <1>0, QuietField
  <2> QED
    BY <2>1, <2>2
<1>10. ASSUME NEW w \in WP, NEW h \in Handles, Callback(w, h)
       PROVE  AllQuiet(wp')
  <2>1. wp[w].handle # NoHandles
    BY <1>10 DEF Callback, NoHandles
  <2>2. wp[w] \in WorkerProcesses /\ wp[w].m_State \notin {"DeletePending", "Free"}
    BY <1>0, <2>1 DEF AllQuiet, Quiet
  <2> DEFINE tbl == [wp EXCEPT ![w].handle[h] = "fired"]
  <2>3. tbl \in [WP -> WorkerProcesses]
    BY <1>0, FieldType DEF HandleStates
  <2>4. \A v : [wp[w] EXCEPT !.handle = v].m_State = wp[w].m_State
    BY <2>2 DEF WorkerProcesses
  <2>5. \A v : AllQuiet([wp EXCEPT ![w] = [wp[w] EXCEPT !.handle = v]])
    BY <1>0, <2>2, <2>4, QuietStore DEF Quiet
  <2>6. AllQuiet(tbl)
    BY <2>5
  <2>7. wp' = Referenced(tbl, w)
    BY <1>10 DEF Callback
  <2> HIDE DEF tbl
  <2> QED
    BY <2>3, <2>6, <2>7, QuietReferenced
<1>11. CASE ExecuteWorkItem
  <2>1. \/ UNCHANGED wp \/ SendPing \/ PingResponseTimerExpired \/ ProcessHandleSignaled
        \/ HandleGetPid \/ HandleHresultOk \/ HandlePingReply \/ DemandStart
    BY <1>11, Zenon
       DEF ExecuteWorkItem, WorkerProcessWorkItem, StartupTimerExpired,
           ShutdownTimerExpired, Message, DropMessage, HandleInvalid, HandleHresultBad,
           HandleRecycleRequest, HandleIdleRequest, HandleUnknownRequest,
           HandleShutdownRequest, HandleBrokenPipe, HandleIpmFault, HandleDisconnect
  <2> QED
    BY <1>1, <1>2, <1>3, <1>4, <1>5, <1>6, <1>7, <1>8, <2>1
<1>12. CASE AppPoolEvent
  <2>1. UNCHANGED wp
    BY <1>12, Zenon
       DEF AppPoolEvent, FlowedStart, FlowedStop, SetConfiguration, RecycleWorkerProcesses,
           PoolShutdown, DeletePool, CreatePool, DemandArrives
  <2> QED
    BY <2>1
<1> QED
  BY <1>9, <1>10, <1>11, <1>12

QuietInvariant == TypeOK /\ InitializeFirst /\ AllQuiet(wp)

\* The inductive invariant holds initially...
LEMMA InitQuiet == Init => QuietInvariant
<1>1. Quiet(NoObject)
  BY DEF Quiet, NoObject
<1> QED
  BY <1>1, InitType DEF Init, QuietInvariant, AllQuiet, InitializeFirst

\* ... and every step preserves it.
LEMMA NextQuiet == QuietInvariant /\ [Next]_vars => QuietInvariant'
<1> SUFFICES ASSUME QuietInvariant, [Next]_vars
             PROVE  InitializeFirst' /\ AllQuiet(wp')
  BY NextType DEF QuietInvariant, AllQuiet
<1>0. TypeOK /\ InitializeFirst /\ AllQuiet(wp)
  BY DEF QuietInvariant
<1>1. CASE MakeCall
  BY <1>0, <1>1, CallsInitializeFirst, CallsAllQuiet
<1>2. CASE \/ ExecuteWorkItem \/ AppPoolEvent
           \/ \E w \in WP : ProcessStep(w) \/ \E h \in Handles : Callback(w, h)
  <2>1. stack = <<>>
    BY <1>2, OthersWhenIdle
  <2> QED
    BY <1>0, <1>2, <2>1, EventsInitializeFirst, EventsAllQuiet
<1>3. CASE UNCHANGED vars
  BY <1>0, <1>3 DEF vars, InitializeFirst
<1> QED
  BY <1>1, <1>2, <1>3 DEF Next

\* At every step of every call, a terminated (or deleted) worker process has no
\* timer, no wait on its process handle, no messaging handler and no process
\* left to kill (Terminate, and the assertions of ~WORKER_PROCESS).
THEOREM TerminatedSafety == Spec => []TerminatedIsQuiet
<1>1. QuietInvariant => TerminatedIsQuiet
  BY DEF QuietInvariant, AllQuiet, Quiet, TerminatedIsQuiet
<1> QED
  BY <1>1, InitQuiet, NextQuiet, PTL DEF Spec
=============================================================================
