--------------------------- MODULE WebAdminService ---------------------------
(***************************************************************************)
(* The service itself: its state as the service controller sees it, the    *)
(* main worker thread that starts, pauses, continues and stops it, and the *)
(* other threads that ask for it: the controller's, the monitor of         *)
(* inetinfo, and the timer that reports progress while a change of state   *)
(* is pending.  Locked sections are single steps, except the one that      *)
(* cancels the timer.                                                      *)
(***************************************************************************)
EXTENDS UlAndWorkerManager, Sequences

CONSTANTS Controls,       \* what the service controller asks for
          Faults,         \* what may go wrong
          MaxCheckPoint   \* bound on dwCheckPoint

ASSUME ServiceAssumption ==
  /\ Controls \subseteq {"Stop", "Pause", "Continue"}
  /\ Faults \subseteq {"Initialize", "WorkItem", "WorkerProcess", "Inetinfo", "Report"}
  /\ MaxCheckPoint \in Nat \ {0}

VARIABLES
  status,     \* m_ServiceStatus: every change is reported within the same lock
  timer,      \* m_PendingServiceStatusTimerHandle and m_SharedTimerQueueHandle
  callback,   \* a run of UpdatePendingServiceStatusCallback
  locked,     \* the main thread is inside FinishStateTransition
  was,        \* the flags of WEB_ADMIN_SERVICE
  workQueue,  \* m_WorkQueue
  main,       \* where the main worker thread is
  call,       \* where each thread is in RequestStopService, or the controller's
              \* thread in another request
  control,    \* the request the controller's thread is serving
  monitor     \* the monitor of inetinfo

serviceVars ==
  <<status, timer, callback, locked, was, workQueue, main, call, control, monitor>>
vars == <<ulVars, serviceVars>>

Threads == {"scm", "monitor", "main"}
PendingStates == {"START_PENDING", "PAUSE_PENDING", "CONTINUE_PENDING", "STOP_PENDING"}
ServiceStates == {"STOPPED", "RUNNING", "PAUSED"} \cup PendingStates
Items == {"Start", "Stop", "Pause", "Continue"}
Finishes == {"FinishStart", "FinishPause", "FinishContinue"}
MainSteps ==
  {"Loop", "CheckSecondary", "BeginStart", "InitializeOther", "RequestStop",
   "Walk", "TerminateUl", "TerminateConfig", "Drain", "CancelTimer",
   "DeleteTimerQueue", "ReportStopped", "Done"} \cup Finishes

\* The state a FinishStateTransition makes, and the one it expects.
NewState ==
  [FinishStart |-> "RUNNING", FinishPause |-> "PAUSED", FinishContinue |-> "RUNNING"]
ExpectedPreviousState ==
  [FinishStart |-> "START_PENDING", FinishPause |-> "PAUSE_PENDING",
   FinishContinue |-> "CONTINUE_PENDING"]

IsServiceStateChangePending == status.state \in PendingStates

Init ==
  /\ m_BackwardCompatibilityEnabled \in BackwardCompatibilitySettings
  /\ ulState = "Uninitialized"
  /\ appPool = [p \in Pools |-> NoAppPool]
  /\ application = [a \in Applications |-> NoPool]
  /\ walk = NoWalk
  /\ status = [state |-> "STOPPED", controls |-> FALSE, checkPoint |-> 0, exitCode |-> FALSE]
  /\ timer = [handle |-> FALSE, queue |-> FALSE]
  /\ callback = FALSE
  /\ locked = FALSE
  /\ was = [m_StoppingInProgress |-> FALSE, m_ExitWorkLoop |-> FALSE, hr |-> FALSE,
            m_SecondaryThreadError |-> FALSE, m_hrToReportToSCM |-> FALSE]
  /\ workQueue = [items |-> <<"Start">>, m_DeletePending |-> FALSE]
  /\ main = "Loop"
  /\ call = [t \in Threads |-> "None"]
  /\ control = "None"
  /\ monitor = [running |-> FALSE, crashed |-> FALSE]

-----------------------------------------------------------------------------
(***************************************************************************)
(* Changes of state.                                                       *)
(***************************************************************************)
\* Mutant of BeginStateTransition: the progress timer is only made for a stop.
BeginWithoutTimer(new) ==
  /\ status' = [status EXCEPT !.state = new, !.controls = FALSE, !.checkPoint = 1]
  /\ timer' = [timer EXCEPT !.handle = @ \/ (new = "STOP_PENDING" /\ timer.queue)]

\* BeginStateTransition, once it is not refused: no controls are accepted, and
\* the timer that keeps the controller informed runs, except during startup.
BeginStateTransition(new) ==
  /\ status' = [status EXCEPT !.state = new, !.controls = FALSE, !.checkPoint = 1]
  /\ timer' = [timer EXCEPT !.handle = @ \/ (new # "START_PENDING" /\ timer.queue)]

\* An item ends well: in the loop the main thread sees how the other threads are
\* doing; while the queue is drained it does not.
ItemDone == IF workQueue.m_DeletePending THEN "Drain" ELSE "CheckSecondary"

\* Mutant of FinishStateTransition: it does not look at the state it finds.
FinishUnchecked(f) ==
  /\ main = f /\ ~locked
  /\ locked' = TRUE /\ UNCHANGED main
  /\ UNCHANGED <<ulVars, status, timer, callback, was, workQueue, call, control, monitor>>

\* FinishStateTransition takes the lock, and does nothing if another change of
\* state has happened in the meantime.
FinishStateTransition(f) ==
  /\ main = f /\ ~locked
  /\ IF status.state = ExpectedPreviousState[f]
     THEN locked' = TRUE /\ UNCHANGED main
     ELSE main' = ItemDone /\ UNCHANGED locked
  /\ UNCHANGED <<ulVars, status, timer, callback, was, workQueue, call, control, monitor>>

\* Mutant of FinishStateTransitionLocked: the timer is cancelled as Terminate
\* does it, waiting for a callback that may be waiting for the lock.
FinishBlocksOnCallbacks(f) ==
  /\ main = f /\ locked /\ ~callback
  /\ timer' = [timer EXCEPT !.handle = FALSE]
  /\ status' = [status EXCEPT !.state = NewState[f], !.controls = TRUE, !.checkPoint = 0]
  /\ locked' = FALSE /\ main' = ItemDone
  /\ UNCHANGED <<ulVars, callback, was, workQueue, call, control, monitor>>

\* It cancels the timer, without waiting for a callback, and reports.
FinishStateTransitionLocked(f) ==
  /\ main = f /\ locked
  /\ timer' = [timer EXCEPT !.handle = FALSE]
  /\ status' = [status EXCEPT !.state = NewState[f], !.controls = TRUE, !.checkPoint = 0]
  /\ locked' = FALSE /\ main' = ItemDone
  /\ UNCHANGED <<ulVars, callback, was, workQueue, call, control, monitor>>

\* The timer fires on a thread of its own, which may be slow.  Deleting the timer,
\* or its queue, first sees to it that it does not fire again.
TimerFires ==
  /\ timer.handle /\ timer.queue /\ ~callback
  /\ main \notin {"CancelTimer", "DeleteTimerQueue"}
  /\ callback' = TRUE
  /\ UNCHANGED <<ulVars, status, timer, locked, was, workQueue, main, call, control, monitor>>

\* UpdatePendingServiceStatus: the callback tells the controller of progress if
\* the change is still pending; a report that fails is a fatal error.
UpdatePendingServiceStatus ==
  /\ callback /\ ~locked
  /\ callback' = FALSE
  /\ status' = [status EXCEPT !.checkPoint =
                  IF IsServiceStateChangePending /\ @ < MaxCheckPoint THEN @ + 1 ELSE @]
  /\ \E fails \in {FALSE} \cup {TRUE : f \in Faults \cap {"Report"}} :
       was' = [was EXCEPT !.m_SecondaryThreadError =
                 @ \/ (fails /\ IsServiceStateChangePending)]
  /\ UNCHANGED <<ulVars, timer, locked, workQueue, main, call, control, monitor>>

-----------------------------------------------------------------------------
(***************************************************************************)
(* The requests of other threads.                                          *)
(***************************************************************************)
\* The controller sends a control the service has said it accepts, one at a time.
ScmSends(c) ==
  /\ call["scm"] = "None" /\ control = "None"
  /\ status.controls /\ status.state # "STOPPED"
  /\ control' = c
  /\ call' = [call EXCEPT !["scm"] = IF c = "Stop" THEN "Check" ELSE "Begin"]
  /\ UNCHANGED <<ulVars, status, timer, callback, locked, was, workQueue, main, monitor>>

\* ServiceControlHandler returns.
ScmReturns ==
  /\ control # "None" /\ call["scm"] \in {"None", "Refused"}
  /\ control' = "None" /\ call' = [call EXCEPT !["scm"] = "None"]
  /\ UNCHANGED <<ulVars, status, timer, callback, locked, was, workQueue, main, monitor>>

\* MonitorProcess and NotifyOfInetinfoFailure: inetinfo crashes and will not be
\* restarted, so the service is to stop.
InetinfoCrashes ==
  /\ "Inetinfo" \in Faults
  /\ monitor.running /\ ~monitor.crashed
  /\ monitor' = [monitor EXCEPT !.crashed = TRUE]
  /\ call' = [call EXCEPT !["monitor"] = "Check"]
  /\ UNCHANGED <<ulVars, status, timer, callback, locked, was, workQueue, main, control>>

\* RequestStopService looks, without the lock, whether a stop is under way.
RequestStopService(t) ==
  /\ call[t] = "Check"
  /\ call' = [call EXCEPT ![t] =
                IF status.state = "STOP_PENDING" \/ was.m_StoppingInProgress
                THEN "None" ELSE "Begin"]
  /\ UNCHANGED <<ulVars, status, timer, callback, locked, was, workQueue, main, control, monitor>>

\* What a thread asks for: the monitor and the main thread only ask for a stop.
Requested(t) == IF t = "scm" THEN control ELSE "Stop"
PendingFor == [Stop |-> "STOP_PENDING", Pause |-> "PAUSE_PENDING",
               Continue |-> "CONTINUE_PENDING"]

\* EnableStateCheck: only the controller's requests are refused while pending.
RequestRefused(t) == t = "scm" /\ IsServiceStateChangePending

\* InitiatePauseService, InitiateContinueService and RequestStopService begin
\* the change of state...
BeginRequest(t) ==
  /\ call[t] = "Begin" /\ ~locked
  /\ IF RequestRefused(t)
     THEN /\ call' = [call EXCEPT ![t] = "Refused"]
          /\ UNCHANGED <<status, timer>>
     ELSE /\ call' = [call EXCEPT ![t] = "Queue"]
          /\ BeginStateTransition(PendingFor[Requested(t)])
  /\ UNCHANGED <<ulVars, callback, locked, was, workQueue, main, control, monitor>>

\* ... and queue the work item, which fails once the queue is terminated: a fatal
\* error on the controller's thread, ignored by the others.
QueueRequest(t) ==
  /\ call[t] = "Queue"
  /\ call' = [call EXCEPT ![t] = "None"]
  /\ IF workQueue.m_DeletePending
     THEN /\ was' = [was EXCEPT !.m_SecondaryThreadError = @ \/ t = "scm"]
          /\ UNCHANGED workQueue
     ELSE /\ workQueue' = [workQueue EXCEPT !.items = Append(@, Requested(t))]
          /\ UNCHANGED was
  /\ UNCHANGED <<ulVars, status, timer, callback, locked, main, control, monitor>>

Request(t) == RequestStopService(t) \/ BeginRequest(t) \/ QueueRequest(t)

-----------------------------------------------------------------------------
(***************************************************************************)
(* The main worker thread.                                                 *)
(***************************************************************************)
\* What a work item leaves alone.
elsewhere == <<m_BackwardCompatibilityEnabled, status, timer, callback, locked, call, control, monitor>>

\* The work item at hand fails: fatal in the loop, ignored in the drain.
ItemFails ==
  IF workQueue.m_DeletePending
  THEN main' = "Drain" /\ UNCHANGED was
  ELSE main' = "Loop" /\ was' = [was EXCEPT !.hr = TRUE, !.m_ExitWorkLoop = TRUE]

Taken == workQueue' = [workQueue EXCEPT !.items = Tail(@)]
Dispatch(item) ==
  /\ \/ main = "Loop" /\ ~was.m_ExitWorkLoop
     \/ main = "Drain"
  /\ workQueue.items # <<>> /\ Head(workQueue.items) = item
  /\ Taken

\* StartServiceWorkItem: InitializeInternalComponents makes the timer queue.
StartServiceWorkItem ==
  /\ Dispatch("Start")
  /\ \/ main' = "BeginStart" /\ timer' = [timer EXCEPT !.queue = TRUE] /\ UNCHANGED was
     \/ "Initialize" \in Faults /\ ItemFails /\ UNCHANGED timer
  /\ UNCHANGED <<ulVars, status, callback, locked, call, control, monitor>>

BeginStart ==
  /\ main = "BeginStart" /\ ~locked
  /\ BeginStateTransition("START_PENDING")
  /\ main' = "InitializeOther"
  /\ UNCHANGED <<ulVars, callback, locked, was, workQueue, call, control, monitor>>

\* InitializeOtherComponents: pools and applications as they are configured, and
\* the monitor of inetinfo.  In backward compatibility mode there is one pool, and
\* startup is over when the worker process in inetinfo has registered.
InitializeOther ==
  /\ main = "InitializeOther"
  /\ monitor' = [monitor EXCEPT !.running = TRUE]
  /\ ulState' = "Running"
  /\ \E configured \in SUBSET Pools :
       /\ DefaultAppPool \in configured
       /\ m_BackwardCompatibilityEnabled => configured = {DefaultAppPool}
       /\ application' = [a \in Applications |-> DefaultAppPool]
       /\ appPool' = [p \in Pools |->
            IF p \notin configured THEN NoAppPool
            ELSE IF p # DefaultAppPool THEN Created(NoAppPool)
            ELSE LET q == Created(NoAppPool)
                     n == IF m_BackwardCompatibilityEnabled THEN 1 ELSE 0
                 IN [q EXCEPT !.m_RefCount = @ + Cardinality(Applications) + n,
                              !.m_WorkerProcessCount = n]]
  /\ main' = IF m_BackwardCompatibilityEnabled THEN "CheckSecondary" ELSE "FinishStart"
  /\ UNCHANGED <<m_BackwardCompatibilityEnabled, walk, status, timer, callback, locked,
                 was, workQueue, call, control>>

InitializeOtherFails ==
  /\ main = "InitializeOther" /\ "Initialize" \in Faults
  /\ ItemFails
  /\ UNCHANGED <<ulVars, workQueue, elsewhere>>

\* PauseServiceWorkItem and ContinueServiceWorkItem, after ControlAllSites.
PauseServiceWorkItem ==
  /\ Dispatch("Pause") /\ main' = "FinishPause"
  /\ UNCHANGED <<ulVars, was, elsewhere>>
ContinueServiceWorkItem ==
  /\ Dispatch("Continue") /\ main' = "FinishContinue"
  /\ UNCHANGED <<ulVars, was, elsewhere>>

\* Mutant of StopServiceWorkItem: a second request shuts down once more.
StopServiceTwice ==
  /\ Dispatch("Stop")
  /\ was' = [was EXCEPT !.m_StoppingInProgress = TRUE]
  /\ ulState' = "ShutdownPending"
  /\ walk' = [walk EXCEPT !.todo = InTable]
  /\ main' = "Walk"
  /\ UNCHANGED <<appPool, application, elsewhere>>

\* StopServiceWorkItem: stop processing changes, and shut every pool down.
StopServiceWorkItem ==
  /\ Dispatch("Stop")
  /\ IF was.m_StoppingInProgress
     THEN main' = ItemDone /\ UNCHANGED <<was, ulState, walk>>
     ELSE /\ was' = [was EXCEPT !.m_StoppingInProgress = TRUE]
          /\ ulState' = "ShutdownPending"
          /\ walk' = [walk EXCEPT !.todo = InTable]
          /\ main' = "Walk"
  /\ UNCHANGED <<appPool, application, elsewhere>>

\* Mutant of PoolChanges: only the walk over the pools looks for an empty table.
PoolChangesOnly(p, q) ==
  /\ appPool' = [appPool EXCEPT ![p] = q]
  /\ UNCHANGED was

\* A pool changes, and with the last one the loop is to end
\* (UlAndWorkerManagerShutdownDone, FinishStopService).
PoolChanges(p, q) ==
  /\ appPool' = [appPool EXCEPT ![p] = q]
  /\ was' = [was EXCEPT !.m_ExitWorkLoop = @ \/ ShutdownDone(appPool')]

\* APP_POOL::Shutdown begins for the next pool of the table...
ShutdownAppPool(p) ==
  /\ main = "Walk" /\ walk.pool = NoPool /\ p \in walk.todo
  /\ appPool' = [appPool EXCEPT ![p].m_State = "ShutdownPending"]
  /\ walk' = [pool |-> p, left |-> appPool[p].m_WorkerProcessCount,
              todo |-> walk.todo \ {p}]
  /\ UNCHANGED <<ulState, application, was, workQueue, main, elsewhere>>

\* ... asks each worker process to leave, which may be over at once...
ShutdownWorkerProcess ==
  /\ main = "Walk" /\ walk.pool # NoPool /\ walk.left > 0
  /\ walk' = [walk EXCEPT !.left = @ - 1]
  /\ \/ UNCHANGED <<appPool, was>>
     \/ /\ ShutdownMayFail
        /\ \E deleted \in BOOLEAN :
             PoolChanges(walk.pool, RemoveWorkerProcessFromList(appPool[walk.pool], deleted))
  /\ UNCHANGED <<ulState, application, workQueue, main, elsewhere>>

\* ... and looks whether that was all.
ShutdownAppPoolDone ==
  /\ main = "Walk" /\ walk.pool # NoPool /\ walk.left = 0
  /\ PoolChanges(walk.pool, PoolShutdownDone(appPool[walk.pool]))
  /\ walk' = [walk EXCEPT !.pool = NoPool]
  /\ UNCHANGED <<ulState, application, workQueue, main, elsewhere>>

\* UL_AND_WORKER_MANAGER::Shutdown looks once more, for an empty table.
ShutdownWalkDone ==
  /\ main = "Walk" /\ walk.pool = NoPool /\ walk.todo = {}
  /\ was' = [was EXCEPT !.m_ExitWorkLoop = @ \/ ShutdownDone(appPool)]
  /\ main' = ItemDone
  /\ UNCHANGED <<ulVars, workQueue, elsewhere>>

\* MainWorkerThread: the error of another thread ends the loop, but is only seen
\* after a work item.
CheckSecondary ==
  /\ main = "CheckSecondary"
  /\ main' = "Loop"
  /\ was' = IF was.m_SecondaryThreadError
            THEN [was EXCEPT !.hr = TRUE, !.m_ExitWorkLoop = TRUE] ELSE was
  /\ UNCHANGED <<ulVars, workQueue, elsewhere>>

-----------------------------------------------------------------------------
(***************************************************************************)
(* The work items of pools, worker processes and configuration changes.    *)
(***************************************************************************)
OtherItem ==
  /\ main = "Loop" /\ ~was.m_ExitWorkLoop /\ ulState # "Uninitialized"
  /\ main' = "CheckSecondary"
  /\ UNCHANGED <<ulState, walk, workQueue, elsewhere>>
ConfigChange == OtherItem /\ ~was.m_StoppingInProgress

CreateAppPool(p) ==
  /\ ConfigChange
  /\ ~m_BackwardCompatibilityEnabled /\ appPool[p].m_State = "None"
  /\ PoolChanges(p, Created(NoAppPool))
  /\ UNCHANGED application

\* DeleteAppPool: a pool that no application is in.
DeleteAppPool(p) ==
  /\ ConfigChange
  /\ p # DefaultAppPool /\ appPool[p].inTable
  /\ \A a \in Applications : application[a] # p
  /\ \E survive \in 0..appPool[p].m_WorkerProcessCount :
       PoolChanges(p, Terminated(appPool[p], survive))
  /\ UNCHANGED application

\* ModifyApplication: SetAppPool drops the reference to the old pool.
ModifyApplication(a, p) ==
  /\ ConfigChange
  /\ appPool[p].inTable /\ application[a] # p
  /\ application' = [application EXCEPT ![a] = p]
  /\ appPool' = [appPool EXCEPT ![p].m_RefCount = @ + 1,
                                ![application[a]] = Dereference(@)]
  /\ UNCHANGED was

\* DemandStartWorkItem: a pool that runs gets a worker process; the work item's
\* reference goes in any case.
DemandStartWorkItem(p) ==
  LET q == Dereference([appPool[p] EXCEPT !.m_WaitingForDemandStart = FALSE]) IN
  /\ OtherItem
  /\ appPool[p].m_WaitingForDemandStart
  /\ IF q.m_State = "Running" /\ q.m_WorkerProcessCount < MaxWorkers
     THEN /\ q.m_WorkerProcessCount + q.leaving < MaxObjects
          /\ PoolChanges(p, [q EXCEPT !.m_WorkerProcessCount = @ + 1, !.m_RefCount = @ + 1])
     ELSE PoolChanges(p, q)
  /\ UNCHANGED application

\* StartupAttemptDone: the wait is issued again.
WorkerProcessRegistered(p) ==
  /\ OtherItem /\ ~m_BackwardCompatibilityEnabled
  /\ appPool[p].m_WorkerProcessCount > 0
  /\ PoolChanges(p, WaitForDemandStartIfNeeded(appPool[p]))
  /\ UNCHANGED application

\* A worker process terminates; its object may survive for a while.  The one in
\* inetinfo only goes when it is told to, or with inetinfo.
WorkerProcessGone(p) ==
  /\ OtherItem
  /\ appPool[p].m_WorkerProcessCount > 0
  /\ \/ ~m_BackwardCompatibilityEnabled
     \/ appPool[p].m_State = "ShutdownPending" \/ monitor.crashed
  /\ \E deleted \in BOOLEAN :
       PoolChanges(p, RemoveWorkerProcessFromList(appPool[p], deleted))
  /\ UNCHANGED application
WorkerProcessDeleted(p) ==
  /\ OtherItem
  /\ appPool[p].leaving > 0
  /\ PoolChanges(p, Dereference([appPool[p] EXCEPT !.leaving = @ - 1]))
  /\ UNCHANGED application

\* InetinfoRegistered: the worker process in inetinfo ends the startup.
InetinfoRegistered ==
  /\ main = "Loop" /\ ~was.m_ExitWorkLoop
  /\ m_BackwardCompatibilityEnabled /\ appPool[DefaultAppPool].m_WorkerProcessCount > 0
  /\ status.state = "START_PENDING"
  /\ main' = "FinishStart"
  /\ UNCHANGED <<ulVars, was, workQueue, elsewhere>>

\* MarkAsTerminallyIll, of the worker process in inetinfo: the service is to stop...
InetinfoWorkerFails ==
  /\ "WorkerProcess" \in Faults /\ m_BackwardCompatibilityEnabled
  /\ main = "Loop" /\ ~was.m_ExitWorkLoop
  /\ appPool[DefaultAppPool].m_WorkerProcessCount > 0
  /\ main' = "RequestStop" /\ call' = [call EXCEPT !["main"] = "Check"]
  /\ UNCHANGED <<ulVars, status, timer, callback, locked, was, workQueue, control, monitor>>

\* ... and to report the failure; then the process goes.
InetinfoWorkerGone ==
  /\ main = "RequestStop" /\ call["main"] = "None"
  /\ main' = "CheckSecondary"
  /\ \E deleted \in BOOLEAN :
       LET ap == [appPool EXCEPT ![DefaultAppPool] =
                    RemoveWorkerProcessFromList(@, deleted)]
       IN /\ appPool' = ap
          /\ was' = [was EXCEPT !.m_hrToReportToSCM = TRUE,
                                !.m_ExitWorkLoop = @ \/ ShutdownDone(ap)]
  /\ UNCHANGED <<ulState, application, walk, workQueue, elsewhere>>

\* Any work item may fail.
WorkItemFails ==
  /\ "WorkItem" \in Faults
  /\ main = "Loop" /\ ~was.m_ExitWorkLoop /\ ulState # "Uninitialized"
  /\ ItemFails
  /\ UNCHANGED <<ulVars, workQueue, elsewhere>>

-----------------------------------------------------------------------------
(***************************************************************************)
(* The end of the service.                                                 *)
(***************************************************************************)
\* ExecuteService, after the loop; TerminateServiceAndReportFinalStatus decides
\* on the exit code before it cleans up.
ExitWorkLoop ==
  /\ main = "Loop" /\ was.m_ExitWorkLoop
  /\ was' = [was EXCEPT !.m_StoppingInProgress = TRUE,
                        !.hr = @ \/ was.m_hrToReportToSCM
                                 \/ (monitor.running /\ monitor.crashed)]
  /\ main' = "TerminateUl"
  /\ UNCHANGED <<ulVars, workQueue, elsewhere>>

DereferenceTimes(q, n) ==
  IF n = 0 THEN q
  ELSE [q EXCEPT !.m_RefCount = @ - n,
                 !.m_State = IF q.m_RefCount = n THEN "Free" ELSE @]

\* UL_AND_WORKER_MANAGER::Terminate: the applications let go of their pools, then
\* the pools still in the table are terminated.
TerminateUl ==
  LET Users(p) == Cardinality({a \in Applications : application[a] = p})
      Left(p) == DereferenceTimes(appPool[p], Users(p))
  IN
  /\ main = "TerminateUl" /\ main' = "TerminateConfig"
  /\ ulState' = "Terminating"
  /\ application' = [a \in Applications |-> NoPool]
  /\ \E survive \in [Pools -> 0..MaxWorkers] :
       /\ \A p \in Pools : survive[p] <= appPool[p].m_WorkerProcessCount
       /\ appPool' = [p \in Pools |->
            IF appPool[p].inTable THEN Terminated(Left(p), survive[p]) ELSE Left(p)]
  /\ UNCHANGED <<walk, was, workQueue, elsewhere>>

\* Mutant of TerminateConfig: the monitor is told to stop, not waited for.
TerminateConfigAtOnce ==
  /\ main = "TerminateConfig" /\ main' = "Drain"
  /\ monitor' = [monitor EXCEPT !.running = FALSE]
  /\ workQueue' = [workQueue EXCEPT !.m_DeletePending = TRUE]
  /\ UNCHANGED <<ulVars, status, timer, callback, locked, was, call, control>>

\* CONFIG_MANAGER::Terminate waits for the monitor's thread; then the queue gives
\* out no more work items.
TerminateConfig ==
  /\ main = "TerminateConfig" /\ main' = "Drain"
  /\ call["monitor"] = "None"
  /\ monitor' = [monitor EXCEPT !.running = FALSE]
  /\ workQueue' = [workQueue EXCEPT !.m_DeletePending = TRUE]
  /\ UNCHANGED <<ulVars, status, timer, callback, locked, was, call, control>>

\* WORK_QUEUE::Terminate executes what is left in the queue.
DrainDone ==
  /\ main = "Drain" /\ workQueue.items = <<>>
  /\ main' = "CancelTimer"
  /\ UNCHANGED <<ulVars, was, workQueue, elsewhere>>

\* CancelPendingServiceStatusTimer( TRUE ) waits for the callback.
CancelTimer ==
  /\ main = "CancelTimer" /\ main' = "DeleteTimerQueue"
  /\ timer.handle => ~callback
  /\ timer' = [timer EXCEPT !.handle = FALSE]
  /\ UNCHANGED <<ulVars, status, callback, locked, was, workQueue, call, control, monitor>>

\* DeleteTimerQueue waits for every callback.
DeleteTimerQueue ==
  /\ main = "DeleteTimerQueue" /\ main' = "ReportStopped"
  /\ ~callback
  /\ timer' = [timer EXCEPT !.queue = FALSE]
  /\ UNCHANGED <<ulVars, status, callback, locked, was, workQueue, call, control, monitor>>

ReportStopped ==
  /\ main = "ReportStopped" /\ main' = "Done" /\ ~locked
  /\ status' = [status EXCEPT !.state = "STOPPED", !.checkPoint = 0, !.exitCode = was.hr]
  /\ UNCHANGED <<ulVars, timer, callback, locked, was, workQueue, call, control, monitor>>

-----------------------------------------------------------------------------
MainStep ==
  \/ StartServiceWorkItem \/ BeginStart \/ InitializeOther \/ InitializeOtherFails
  \/ PauseServiceWorkItem \/ ContinueServiceWorkItem \/ StopServiceWorkItem
  \/ \E f \in Finishes : FinishStateTransition(f) \/ FinishStateTransitionLocked(f)
  \/ \E p \in Pools : ShutdownAppPool(p)
  \/ ShutdownWorkerProcess \/ ShutdownAppPoolDone \/ ShutdownWalkDone
  \/ CheckSecondary \/ InetinfoWorkerGone
  \/ ExitWorkLoop \/ TerminateUl \/ TerminateConfig \/ DrainDone
  \/ CancelTimer \/ DeleteTimerQueue \/ ReportStopped

WorkerEvent ==
  \/ \E p \in Pools :
       \/ CreateAppPool(p) \/ DeleteAppPool(p)
       \/ \E a \in Applications : ModifyApplication(a, p)
       \/ DemandStartWorkItem(p) \/ WorkerProcessRegistered(p)
       \/ WorkerProcessGone(p) \/ WorkerProcessDeleted(p)
  \/ InetinfoRegistered \/ InetinfoWorkerFails \/ WorkItemFails

Next ==
  \/ MainStep \/ WorkerEvent
  \/ \E c \in Controls : ScmSends(c)
  \/ ScmReturns \/ InetinfoCrashes
  \/ \E t \in Threads : Request(t)
  \/ TimerFires \/ UpdatePendingServiceStatus

Spec == Init /\ [][Next]_vars

\* The main thread serves its queue in order, so an item is reached however many
\* others come; the other threads run; a worker process that is asked to leave
\* does, in time (its shutdown timer sees to it), and the one in inetinfo
\* registers or fails, in time (its startup timer does).
Fairness ==
  /\ WF_vars(MainStep)
  /\ SF_vars(StopServiceWorkItem) /\ SF_vars(PauseServiceWorkItem)
  /\ SF_vars(ContinueServiceWorkItem)
  /\ \A p \in Pools : SF_vars(ulState = "ShutdownPending" /\ WorkerProcessGone(p))
  /\ SF_vars(InetinfoRegistered \/ InetinfoWorkerFails)
  /\ \A t \in Threads : WF_vars(Request(t))
  /\ WF_vars(ScmReturns)
  /\ WF_vars(UpdatePendingServiceStatus)

FairSpec == Spec /\ Fairness

-----------------------------------------------------------------------------
TypeOK ==
  /\ m_BackwardCompatibilityEnabled \in BOOLEAN
  /\ ulState \in {"Uninitialized", "Running", "ShutdownPending", "Terminating"}
  /\ appPool \in [Pools -> AppPools]
  /\ application \in [Applications -> Pools \cup {NoPool}]
  /\ walk \in [pool: Pools \cup {NoPool}, left: Nat, todo: SUBSET Pools]
  /\ status \in [state: ServiceStates, controls: BOOLEAN, checkPoint: Nat,
                 exitCode: BOOLEAN]
  /\ timer \in [handle: BOOLEAN, queue: BOOLEAN]
  /\ callback \in BOOLEAN /\ locked \in BOOLEAN
  /\ was \in [m_StoppingInProgress: BOOLEAN, m_ExitWorkLoop: BOOLEAN, hr: BOOLEAN,
              m_SecondaryThreadError: BOOLEAN, m_hrToReportToSCM: BOOLEAN]
  /\ workQueue \in [items: Seq(Items), m_DeletePending: BOOLEAN]
  /\ main \in MainSteps
  /\ call \in [Threads -> {"None", "Check", "Begin", "Queue", "Refused"}]
  /\ control \in Controls \cup {"None"}
  /\ monitor \in [running: BOOLEAN, crashed: BOOLEAN]

(***************************************************************************)
(* What the service controller sees.                                       *)
(***************************************************************************)
\* Before it has started the service is not known to the controller.
scmState ==
  IF status.state = "STOPPED" /\ main # "Done" THEN "NOT_STARTED" ELSE status.state

Scm == INSTANCE ScmService WITH state <- scmState

\* The states the service reports are those of a service: a pending state ends as
\* announced or in a stop, and STOPPED is the last (BeginStateTransition,
\* FinishStateTransition, TerminateServiceAndReportFinalStatus).
ImplementsScmService == Scm!Spec

\* In addition nothing stays pending: every stop ends, however slowly the timer's
\* callback, the controller's thread and the worker processes react.
ImplementsFairScmService == Scm!FairSpec

\* No change of state stays pending, whichever thread began it, and whatever fails
\* on the way, until the service has ended: in particular every stop ends.
PendingEnds ==
  \A s \in PendingStates : status.state = s ~> status.state # s \/ main = "Done"

\* While a change of state is pending, except during startup, the timer tells the
\* controller of it, and at no other time (BeginStateTransition,
\* FinishStateTransition, also when a stop overtakes a pause or a continue); and
\* there is progress to report, dwCheckPoint, exactly while a change is pending,
\* however late the timer's callback comes (UpdatePendingServiceStatus).
ProgressReported ==
  /\ main \notin {"DeleteTimerQueue", "ReportStopped", "Done"} =>
       (timer.handle <=> status.state \in PendingStates \ {"START_PENDING"})
  /\ status.checkPoint > 0 <=> IsServiceStateChangePending

(***************************************************************************)
(* The end of the service.                                                 *)
(***************************************************************************)
\* However many threads ask for a stop, the pools are shut down once, and never
\* once the service is terminating (StopServiceWorkItem).
ShutdownOnce == [][main # "Walk" /\ main' = "Walk" => ulState = "Running"]_vars

\* When the service has reported its end nothing of it is left: no pool, no work
\* item, no monitor that could ask for a stop, no callback (Terminate).
NothingOutlivesService ==
  main = "Done" =>
    /\ NoPoolLeft(appPool) /\ workQueue.items = <<>>
    /\ call["monitor"] = "None" /\ ~monitor.running
    /\ ~callback

(***************************************************************************)
(* The lifetime of a pool.                                                 *)
(***************************************************************************)
\* m_RefCount counts the references of the table, of the applications, of the
\* worker process objects and of the wait for a demand start.
PoolReferences(p) ==
    (IF appPool[p].inTable THEN 1 ELSE 0)
  + Cardinality({a \in Applications : application[a] = p})
  + appPool[p].m_WorkerProcessCount + appPool[p].leaving
  + (IF appPool[p].m_WaitingForDemandStart THEN 1 ELSE 0)

\* An APP_POOL is deleted with its last reference, and not before
\* (APP_POOL::Reference, Dereference).
PoolRefCountExact ==
  \A p \in Pools :
    /\ appPool[p].m_RefCount = PoolReferences(p)
    /\ Live(appPool[p]) <=> appPool[p].m_RefCount > 0

=============================================================================
