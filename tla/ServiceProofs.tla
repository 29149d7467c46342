---------------------------- MODULE ServiceProofs ----------------------------
(***************************************************************************)
(* The service towards its controller: progress while a change of state is *)
(* pending, one shutdown, an end that leaves nothing behind, and states    *)
(* that are those of a service.  The arguments rest on who can be at work  *)
(* before the service has started and after it has terminated.             *)
(***************************************************************************)
EXTENDS ServicePoolProofs, SequenceTheorems

Terminal == {"Drain", "CancelTimer", "DeleteTimerQueue", "ReportStopped", "Done"}
Requests == {"Stop", "Pause", "Continue"}
NotStarted == status.state = "STOPPED" /\ main # "Done"

-----------------------------------------------------------------------------
(***************************************************************************)
(* The inductive invariant.                                                *)
(***************************************************************************)
\* The work item that starts the service is the first and only one.
FreshQueue ==
  /\ workQueue.items = <<"Start">>
  /\ main = "Loop" /\ ~was.m_ExitWorkLoop /\ ~timer.queue
  /\ NotStarted /\ ulState = "Uninitialized"

\* Nobody can ask for anything, and there is no worker process yet.
Idle ==
  /\ ulState \in {"Uninitialized", "Terminating"}
  /\ \A t \in Threads : call[t] = "None"
  /\ control = "None" /\ ~status.controls /\ ~monitor.running
  /\ main \notin Finishes \cup {"Walk", "RequestStop"}
  /\ workQueue.items = <<>> \/ FreshQueue
  /\ \A p \in Pools : appPool[p].m_WorkerProcessCount = 0

\* Before the service has started, and if it never starts, it is idle; the timer
\* queue is there from then on until it is deleted.
StartInv ==
  /\ ulState = "Uninitialized" \/ NotStarted => Idle
  /\ ~timer.queue => NotStarted \/ main \in {"ReportStopped", "Done"}
  /\ main = "BeginStart" => NotStarted /\ ulState = "Uninitialized" /\ timer.queue
  /\ main = "InitializeOther" => status.state = "START_PENDING" /\ ulState = "Uninitialized"
  /\ workQueue.items \in Seq(Requests) \/ FreshQueue

\* Termination begins with m_StoppingInProgress, and takes away the pools, then the
\* monitor, then the work items, then the timer.
EndInv ==
  /\ main \in {"TerminateUl", "TerminateConfig"} \cup Terminal => was.m_StoppingInProgress
  /\ ~was.m_StoppingInProgress => ulState \in {"Uninitialized", "Running"}
  /\ ulState = "Terminating" =>
       workQueue.m_DeletePending \/ main \in {"TerminateConfig"} \cup Terminal
  /\ main \in Terminal => workQueue.m_DeletePending
  /\ workQueue.m_DeletePending =>
       /\ main \in Terminal \cup Finishes
       /\ was.m_StoppingInProgress
       /\ ~monitor.running /\ call["monitor"] = "None"
  /\ workQueue.m_DeletePending \/ main = "TerminateConfig" => NoPoolLeft(appPool)
  /\ main \in Terminal \ {"Drain"} => workQueue.items = <<>>
  /\ main \in {"ReportStopped", "Done"} => ~callback /\ ~timer.queue

\* The lock keeps the change of state that is to be finished, and the main thread
\* asks for a stop only from where it waits for the request.
LockInv ==
  /\ locked => main \in Finishes /\ status.state = ExpectedPreviousState[main]
  /\ call["main"] # "None" => main = "RequestStop"

ControlInv == StartInv /\ EndInv /\ LockInv /\ ProgressReported

-----------------------------------------------------------------------------
(***************************************************************************)
(* What the steps do to the fields.                                        *)
(***************************************************************************)
LEMMA BeginEffect ==
  ASSUME StatusType, NEW new, BeginStateTransition(new)
  PROVE  /\ status'.state = new /\ status'.controls = FALSE /\ status'.checkPoint = 1
         /\ timer'.queue = timer.queue
         /\ timer'.handle = (timer.handle \/ (new # "START_PENDING" /\ timer.queue))
  BY Zenon DEF StatusType, Statuses, Timers, BeginStateTransition

LEMMA FinishEffect ==
  ASSUME StatusType, NEW f, FinishStateTransitionLocked(f)
  PROVE  /\ status'.state = NewState[f] /\ status'.controls = TRUE /\ status'.checkPoint = 0
         /\ timer'.queue = timer.queue /\ timer'.handle = FALSE
  BY Zenon DEF StatusType, Statuses, Timers, FinishStateTransitionLocked

LEMMA PoolChangesEffect ==
  ASSUME was \in Flags, NEW p, NEW q, PoolChanges(p, q)
  PROVE  /\ was'.m_StoppingInProgress = was.m_StoppingInProgress
         /\ was'.m_SecondaryThreadError = was.m_SecondaryThreadError
         /\ was'.m_ExitWorkLoop = (was.m_ExitWorkLoop \/ ShutdownDone(appPool'))
  BY Zenon DEF Flags, PoolChanges

LEMMA ItemFailsEffect ==
  ASSUME was \in Flags, ItemFails
  PROVE  /\ was'.m_StoppingInProgress = was.m_StoppingInProgress
         /\ was'.m_SecondaryThreadError = was.m_SecondaryThreadError
         /\ IF workQueue.m_DeletePending
            THEN main' = "Drain" /\ was'.m_ExitWorkLoop = was.m_ExitWorkLoop
            ELSE main' = "Loop" /\ was'.m_ExitWorkLoop = TRUE
<1>1. CASE workQueue.m_DeletePending
  BY <1>1 DEF ItemFails
<1>2. CASE ~workQueue.m_DeletePending
  <2>1. main' = "Loop" /\ was' = [was EXCEPT !.hr = TRUE, !.m_ExitWorkLoop = TRUE]
    BY <1>2 DEF ItemFails
  <2> QED
    BY <1>2, <2>1, Zenon DEF Flags
<1> QED
  BY <1>1, <1>2

LEMMA TakenEffect ==
  ASSUME workQueue \in Queues, Taken
  PROVE  /\ workQueue'.items = Tail(workQueue.items)
         /\ workQueue'.m_DeletePending = workQueue.m_DeletePending
  BY Zenon DEF Queues, Taken

\* A work item that is taken from the queue.
LEMMA DispatchEffect ==
  ASSUME ServiceInv, ControlInv, NEW item, Dispatch(item)
  PROVE  /\ workQueue'.items = Tail(workQueue.items)
         /\ workQueue'.m_DeletePending = workQueue.m_DeletePending
         /\ \/ /\ item \in Requests /\ workQueue.items \in Seq(Requests)
               /\ workQueue'.items \in Seq(Requests)
               /\ ulState # "Uninitialized" /\ ~NotStarted /\ timer.queue
            \/ item = "Start" /\ FreshQueue /\ workQueue'.items = <<>>
<1>1. workQueue \in Queues /\ Taken /\ workQueue.items # <<>> /\ Head(workQueue.items) = item
  BY DEF ServiceInv, ThreadType, Dispatch
<1>2. /\ workQueue'.items = Tail(workQueue.items)
      /\ workQueue'.m_DeletePending = workQueue.m_DeletePending
  BY <1>1, TakenEffect
<1>3. CASE FreshQueue
  <2>1. Head(<<"Start">>) = "Start" /\ Tail(<<"Start">>) = <<>>
    OBVIOUS
  <2> QED
    BY <1>1, <1>2, <1>3, <2>1 DEF FreshQueue
<1>4. CASE ~FreshQueue
  <2>1. workQueue.items \in Seq(Requests)
    BY <1>4 DEF ControlInv, StartInv
  <2>2. Head(workQueue.items) \in Requests /\ Tail(workQueue.items) \in Seq(Requests)
    BY <1>1, <2>1, HeadTailProperties
  <2>3. main \notin {"ReportStopped", "Done"}
    BY DEF Dispatch
  <2> QED
    BY <1>1, <1>2, <1>4, <2>1, <2>2, <2>3 DEF ControlInv, StartInv, Idle
<1> QED
  BY <1>3, <1>4

-----------------------------------------------------------------------------
(***************************************************************************)
(* Every step keeps the invariant: first the steps about the status.       *)
(***************************************************************************)
LEMMA FinishControl ==
  ASSUME ServiceInv, ControlInv, NEW f \in Finishes,
         FinishStateTransition(f) \/ FinishStateTransitionLocked(f)
  PROVE  ControlInv'
<1> USE DEF ControlInv, NotStarted, Terminal, Finishes
<1>1. /\ UNCHANGED <<ulVars, callback, was, workQueue, call, control, monitor>> /\ main = f
      /\ main' = f \/ main' = ItemDone
  BY DEF FinishStateTransition, FinishStateTransitionLocked
<1>2. /\ ulState # "Uninitialized" /\ ~NotStarted /\ timer.queue /\ ~FreshQueue
      /\ workQueue.items \in Seq(Requests)
  BY <1>1 DEF StartInv, Idle, FreshQueue
<1>3. main' = ItemDone => main' = (IF workQueue.m_DeletePending THEN "Drain" ELSE "CheckSecondary")
  BY DEF ItemDone
<1>4. EndInv' /\ main' \notin {"BeginStart", "InitializeOther", "RequestStop", "Done"}
  BY <1>1, <1>3 DEF EndInv, NoPoolLeft, ulVars
<1>5. CASE FinishStateTransition(f)
  <2>1. /\ UNCHANGED <<status, timer>>
        /\ \/ locked' = TRUE /\ status.state = ExpectedPreviousState[f] /\ main' = main
           \/ locked' = FALSE /\ main' = ItemDone
    BY <1>5 DEF FinishStateTransition, ServiceInv, StatusType
  <2>2. StartInv'
    BY <1>1, <1>2, <1>4, <2>1 DEF StartInv, ulVars
  <2>3. LockInv'
    BY <1>1, <2>1 DEF LockInv
  <2>4. ProgressReported'
    BY <1>1, <2>1 DEF ProgressReported, IsServiceStateChangePending
  <2> QED
    BY <1>4, <2>2, <2>3, <2>4
<1>6. CASE FinishStateTransitionLocked(f)
  <2>1. /\ status'.state = NewState[f] /\ status'.checkPoint = 0
        /\ timer'.queue = timer.queue /\ timer'.handle = FALSE
        /\ locked' = FALSE /\ main' = ItemDone
    BY <1>6, FinishEffect DEF FinishStateTransitionLocked, ServiceInv
  <2>2. NewState[f] \in {"RUNNING", "PAUSED"}
    BY DEF NewState
  <2>3. StartInv'
    BY <1>1, <1>2, <1>4, <2>1, <2>2 DEF StartInv, ulVars
  <2>4. LockInv'
    BY <1>1, <2>1 DEF LockInv
  <2>5. ProgressReported'
    BY <2>1, <2>2 DEF ProgressReported, IsServiceStateChangePending, PendingStates
  <2> QED
    BY <1>4, <2>3, <2>4, <2>5
<1> QED
  BY <1>5, <1>6

LEMMA TimerControl ==
  ASSUME ServiceInv, ControlInv, TimerFires \/ UpdatePendingServiceStatus
  PROVE  ControlInv'
<1> USE DEF ControlInv
<1>1. CASE TimerFires
  BY <1>1 DEF TimerFires, StartInv, EndInv, LockInv, ProgressReported, Idle, NotStarted, FreshQueue,
     IsServiceStateChangePending, ulVars, NoPoolLeft
<1>2. CASE UpdatePendingServiceStatus
  <2>1. /\ UNCHANGED <<ulVars, timer, locked, workQueue, main, call, control, monitor>>
        /\ callback' = FALSE
    BY <1>2 DEF UpdatePendingServiceStatus
  <2> DEFINE n == IF IsServiceStateChangePending /\ status.checkPoint < MaxCheckPoint
                  THEN status.checkPoint + 1 ELSE status.checkPoint
  <2>2. status' = [status EXCEPT !.checkPoint = n] /\ status \in Statuses
    BY <1>2 DEF UpdatePendingServiceStatus, ServiceInv, StatusType
  <2>3. status'.state = status.state /\ status'.controls = status.controls /\ status'.checkPoint = n
    <3> HIDE DEF n
    <3> QED
      BY <2>2, Zenon DEF Statuses
  <2>4. /\ was'.m_StoppingInProgress = was.m_StoppingInProgress
        /\ was'.m_ExitWorkLoop = was.m_ExitWorkLoop
    BY <1>2, Zenon DEF UpdatePendingServiceStatus, ServiceInv, ThreadType, Flags
  <2>5. n > 0 <=> status.checkPoint > 0
    BY <2>2 DEF Statuses, ProgressReported
  <2> HIDE DEF n
  <2>6. ProgressReported'
    BY <2>1, <2>3, <2>5 DEF ProgressReported, IsServiceStateChangePending
  <2>7. StartInv'
    BY <2>1, <2>3, <2>4 DEF StartInv, Idle, NotStarted, FreshQueue, ulVars
  <2>8. EndInv'
    BY <2>1, <2>3, <2>4 DEF EndInv, ulVars, NoPoolLeft
  <2>9. LockInv'
    BY <2>1, <2>3 DEF LockInv
  <2> QED
    BY <2>6, <2>7, <2>8, <2>9
<1> QED
  BY <1>1, <1>2

LEMMA BeginRequestControl ==
  ASSUME ServiceInv, ControlInv, NEW t \in Threads, BeginRequest(t)
  PROVE  ControlInv'
<1> USE DEF ControlInv
<1>1. /\ UNCHANGED <<ulVars, callback, locked, was, workQueue, main, control, monitor>>
      /\ call[t] = "Begin" /\ ~locked /\ call \in [Threads -> Places]
      /\ call' \in {[call EXCEPT ![t] = "Refused"], [call EXCEPT ![t] = "Queue"]}
  BY DEF BeginRequest, ServiceInv, ThreadType
<1>2. /\ call' \in [Threads -> Places] /\ \A r \in Threads : call'[r] = "None" <=> call[r] = "None"
  BY <1>1 DEF Places
<1>3. ulState # "Uninitialized" /\ ~NotStarted /\ ~FreshQueue /\ main # "BeginStart"
  BY <1>1 DEF StartInv, Idle, FreshQueue
<1>4. workQueue.items \in Seq(Requests)
  BY <1>3 DEF StartInv
<1>5. EndInv'
  <2>1. call'["monitor"] = "None" <=> call["monitor"] = "None"
    BY <1>2 DEF Threads
  <2>2. /\ appPool' = appPool /\ ulState' = ulState /\ callback' = callback /\ was' = was
        /\ workQueue' = workQueue /\ main' = main /\ monitor' = monitor
    BY <1>1 DEF ulVars
  <2>3. timer'.queue = timer.queue
    BY BeginEffect DEF BeginRequest, ServiceInv
  <2> QED
    BY <2>1, <2>2, <2>3 DEF EndInv, NoPoolLeft
<1>6. CASE RequestRefused(t)
  <2>1. UNCHANGED <<status, timer>>
    BY <1>6 DEF BeginRequest
  <2> QED
    BY <1>1, <1>2, <1>3, <1>4, <1>5, <2>1 DEF StartInv, LockInv, ProgressReported, NotStarted, ulVars,
       IsServiceStateChangePending, Threads
<1>7. CASE ~RequestRefused(t)
  <2> DEFINE new == PendingFor[Requested(t)]
  <2>1. new \in {"STOP_PENDING", "PAUSE_PENDING", "CONTINUE_PENDING"}
    BY <1>1, RequestedType DEF ServiceInv, PendingFor
  <2>2. /\ status'.state = new /\ status'.checkPoint = 1 /\ timer'.queue = timer.queue
        /\ timer'.handle = (timer.handle \/ (new # "START_PENDING" /\ timer.queue))
    BY <1>7, BeginEffect DEF BeginRequest, ServiceInv
  <2> HIDE DEF new
  <2>3. StartInv'
    BY <1>1, <1>3, <1>4, <2>1, <2>2 DEF StartInv, NotStarted, ulVars
  <2>4. LockInv'
    BY <1>1, <1>2 DEF LockInv, Threads
  <2>5. ProgressReported'
    <3>1. main \notin {"DeleteTimerQueue", "ReportStopped", "Done"} => timer.queue
      BY <1>3 DEF StartInv
    <3>2. timer.queue => timer'.handle
      BY <2>1, <2>2
    <3>3. status'.state \in PendingStates \ {"START_PENDING"} /\ status'.checkPoint > 0 /\ main' = main
      BY <1>1, <2>1, <2>2 DEF PendingStates
    <3> QED
      BY <3>1, <3>2, <3>3 DEF ProgressReported, IsServiceStateChangePending
  <2> QED
    BY <1>5, <2>3, <2>4, <2>5
<1> QED
  BY <1>6, <1>7

LEMMA StartItemControl ==
  ASSUME ServiceInv, ControlInv, StartServiceWorkItem
  PROVE  ControlInv'
<1> USE DEF ControlInv
<1>1. /\ UNCHANGED <<ulVars, status, callback, locked, call, control, monitor>> /\ FreshQueue
      /\ workQueue'.items = <<>> /\ workQueue'.m_DeletePending = workQueue.m_DeletePending
  BY DispatchEffect DEF StartServiceWorkItem, Requests
<1>2. Idle /\ ~workQueue.m_DeletePending /\ <<>> \in Seq(Requests)
  BY <1>1 DEF FreshQueue, StartInv, EndInv, Terminal, Finishes
<1>3. \/ main' = "BeginStart" /\ timer'.queue = TRUE /\ timer'.handle = timer.handle /\ was' = was
      \/ /\ main' = "Loop" /\ timer' = timer
         /\ was'.m_StoppingInProgress = was.m_StoppingInProgress
  <2>1. CASE main' = "BeginStart" /\ timer' = [timer EXCEPT !.queue = TRUE] /\ was' = was
    BY <2>1, Zenon DEF ServiceInv, StatusType, Timers
  <2>2. CASE ItemFails /\ timer' = timer
    BY <1>2, <2>2, ItemFailsEffect DEF ServiceInv, ThreadType
  <2> QED
    BY <2>1, <2>2 DEF StartServiceWorkItem
<1>4. Idle'
  BY <1>1, <1>2, <1>3 DEF Idle, Finishes, ulVars
<1>5. StartInv'
  BY <1>1, <1>2, <1>3, <1>4 DEF StartInv, FreshQueue, NotStarted, ulVars
<1>6. EndInv'
  BY <1>1, <1>2, <1>3 DEF EndInv, FreshQueue, Terminal, ulVars
<1>7. LockInv'
  BY <1>1, <1>2, <1>3 DEF LockInv, FreshQueue, Finishes, Idle, Threads
<1>8. ProgressReported'
  BY <1>1, <1>3 DEF ProgressReported, FreshQueue, IsServiceStateChangePending
<1> QED
  BY <1>5, <1>6, <1>7, <1>8

LEMMA BeginStartControl ==
  ASSUME ServiceInv, ControlInv, BeginStart
  PROVE  ControlInv'
<1> USE DEF ControlInv
<1>1. /\ UNCHANGED <<ulVars, callback, locked, was, workQueue, call, control, monitor>>
      /\ main = "BeginStart" /\ ~locked /\ main' = "InitializeOther"
  BY DEF BeginStart
<1>2. /\ status'.state = "START_PENDING" /\ status'.checkPoint = 1 /\ timer'.queue = timer.queue
      /\ timer'.handle = (timer.handle \/ ("START_PENDING" # "START_PENDING" /\ timer.queue))
      /\ status'.controls = FALSE
  BY BeginEffect DEF BeginStart, ServiceInv
<1>3. NotStarted /\ Idle /\ timer.queue /\ ulState = "Uninitialized" /\ ~FreshQueue
      /\ workQueue.items = <<>>
  BY <1>1 DEF StartInv, FreshQueue, Idle
<1>4. Idle'
  BY <1>1, <1>2, <1>3 DEF Idle, Finishes, ulVars
<1>5. StartInv'
  BY <1>1, <1>2, <1>3, <1>4 DEF StartInv, NotStarted, ulVars
<1>6. EndInv'
  BY <1>1 DEF EndInv, Terminal, Finishes, ulVars, NoPoolLeft
<1>7. LockInv'
  BY <1>1, <1>3 DEF LockInv, Idle, Threads
<1>8. ProgressReported'
  <2>1. ~timer.handle
    BY <1>1, <1>3 DEF ProgressReported, NotStarted, PendingStates
  <2>2. ~timer'.handle
    BY <1>2, <2>1
  <2>3. status'.state \in PendingStates /\ status'.checkPoint > 0
    BY <1>2 DEF PendingStates
  <2> QED
    BY <1>2, <2>2, <2>3 DEF ProgressReported, IsServiceStateChangePending
<1> QED
  BY <1>5, <1>6, <1>7, <1>8

LEMMA TimerEndControl ==
  ASSUME ServiceInv, ControlInv, CancelTimer \/ DeleteTimerQueue \/ ReportStopped
  PROVE  ControlInv'
<1> USE DEF ControlInv
<1>1. UNCHANGED <<ulVars, callback, locked, was, workQueue, call, control, monitor>>
  BY DEF CancelTimer, DeleteTimerQueue, ReportStopped
<1>2. ~FreshQueue /\ ~locked /\ workQueue.items \in Seq(Requests)
  BY DEF CancelTimer, DeleteTimerQueue, ReportStopped, FreshQueue, LockInv, StartInv, Finishes
<1>3. LockInv'
  BY <1>1, <1>2 DEF LockInv, CancelTimer, DeleteTimerQueue, ReportStopped
<1>4. CASE CancelTimer
  <2>1. /\ timer'.queue = timer.queue /\ status' = status
        /\ main = "CancelTimer" /\ main' = "DeleteTimerQueue"
    BY <1>4, Zenon DEF CancelTimer, ServiceInv, StatusType, Timers
  <2>2. StartInv'
    BY <1>1, <1>2, <2>1 DEF StartInv, Idle, NotStarted, FreshQueue, Finishes, ulVars
  <2>3. EndInv'
    BY <1>1, <2>1 DEF EndInv, Terminal, ulVars, NoPoolLeft
  <2>4. ProgressReported'
    BY <2>1 DEF ProgressReported, IsServiceStateChangePending
  <2> QED
    BY <1>3, <2>2, <2>3, <2>4
<1>5. CASE DeleteTimerQueue
  <2>1. /\ timer'.queue = FALSE /\ status' = status /\ ~callback
        /\ main = "DeleteTimerQueue" /\ main' = "ReportStopped"
    BY <1>5, Zenon DEF DeleteTimerQueue, ServiceInv, StatusType, Timers
  <2>2. StartInv'
    BY <1>1, <1>2, <2>1 DEF StartInv, Idle, NotStarted, FreshQueue, Finishes, ulVars
  <2>3. EndInv'
    BY <1>1, <2>1 DEF EndInv, Terminal, ulVars, NoPoolLeft
  <2>4. ProgressReported'
    BY <2>1 DEF ProgressReported, IsServiceStateChangePending
  <2> QED
    BY <1>3, <2>2, <2>3, <2>4
<1>6. CASE ReportStopped
  <2>1. /\ status'.state = "STOPPED" /\ status'.checkPoint = 0 /\ status'.controls = status.controls
        /\ timer' = timer /\ main = "ReportStopped" /\ main' = "Done"
    BY <1>6, Zenon DEF ReportStopped, ServiceInv, StatusType, Statuses
  <2>2. StartInv'
    BY <1>1, <1>2, <2>1 DEF StartInv, Idle, NotStarted, FreshQueue, Finishes, ulVars
  <2>3. EndInv'
    BY <1>1, <2>1 DEF EndInv, Terminal, ulVars, NoPoolLeft
  <2>4. ProgressReported'
    BY <2>1 DEF ProgressReported, IsServiceStateChangePending, PendingStates
  <2> QED
    BY <1>3, <2>2, <2>3, <2>4
<1> QED
  BY <1>4, <1>5, <1>6

LEMMA StatusControl ==
  ASSUME ServiceInv, ControlInv, StatusStep
  PROVE  ControlInv'
  BY FinishControl, TimerControl, BeginRequestControl, StartItemControl, BeginStartControl,
     TimerEndControl, Zenon DEF StatusStep

-----------------------------------------------------------------------------
(***************************************************************************)
(* The steps about pools.                                                  *)
(***************************************************************************)
LEMMA InitializeControl ==
  ASSUME ServiceInv, ControlInv, InitializeOther
  PROVE  ControlInv'
<1> USE DEF ControlInv
<1>1. /\ UNCHANGED <<status, timer, callback, locked, call, was, workQueue>>
      /\ main = "InitializeOther" /\ main' \in {"CheckSecondary", "FinishStart"}
      /\ ulState' = "Running"
  BY DEF InitializeOther
<1>2. /\ status.state = "START_PENDING" /\ ~locked /\ ~workQueue.m_DeletePending
      /\ workQueue.items \in Seq(Requests) /\ timer.queue /\ call["main"] = "None"
  BY <1>1 DEF StartInv, EndInv, LockInv, FreshQueue, NotStarted, Terminal, Finishes
<1>3. StartInv'
  BY <1>1, <1>2 DEF StartInv, NotStarted
<1>4. EndInv'
  BY <1>1, <1>2 DEF EndInv, Terminal
<1>5. LockInv' /\ ProgressReported'
  BY <1>1, <1>2 DEF LockInv, ProgressReported, IsServiceStateChangePending
<1> QED
  BY <1>3, <1>4, <1>5

LEMMA StopControl ==
  ASSUME ServiceInv, ControlInv, StopServiceWorkItem
  PROVE  ControlInv'
<1> USE DEF ControlInv
<1>1. /\ workQueue'.items = Tail(workQueue.items) /\ workQueue'.items \in Seq(Requests)
      /\ workQueue'.m_DeletePending = workQueue.m_DeletePending
      /\ ulState # "Uninitialized" /\ ~NotStarted /\ timer.queue
  BY DispatchEffect DEF StopServiceWorkItem, Requests
<1>2. /\ UNCHANGED <<status, timer, callback, locked, call, control, monitor, appPool>>
      /\ main \in {"Loop", "Drain"} /\ ~locked /\ call["main"] = "None"
  BY DEF StopServiceWorkItem, Dispatch, elsewhere, LockInv, Finishes
<1>3. \/ /\ main' = ItemDone /\ was' = was /\ ulState' = ulState /\ was.m_StoppingInProgress
      \/ /\ main' = "Walk" /\ was'.m_StoppingInProgress = TRUE /\ ulState' = "ShutdownPending"
         /\ ~was.m_StoppingInProgress
  <2>1. CASE was.m_StoppingInProgress
    BY <2>1 DEF StopServiceWorkItem
  <2>2. CASE ~was.m_StoppingInProgress
    BY <2>2, Zenon DEF StopServiceWorkItem, ServiceInv, ThreadType, Flags
  <2> QED
    BY <2>1, <2>2
<1>4. main' \notin {"BeginStart", "InitializeOther", "ReportStopped", "Done"} /\ ~locked'
  BY <1>2, <1>3 DEF ItemDone
<1>5. ulState' # "Uninitialized" /\ ~NotStarted'
  BY <1>1, <1>2, <1>3, <1>4 DEF NotStarted
<1>6. StartInv'
  BY <1>1, <1>2, <1>4, <1>5 DEF StartInv
<1>7. EndInv'
  <2>1. main' = ItemDone => main' = (IF workQueue.m_DeletePending THEN "Drain" ELSE "CheckSecondary")
    BY DEF ItemDone
  <2> QED
    BY <1>1, <1>2, <1>3, <2>1 DEF EndInv, Terminal, Finishes, NoPoolLeft
<1>8. LockInv' /\ ProgressReported'
  BY <1>2, <1>4 DEF LockInv, ProgressReported, IsServiceStateChangePending
<1> QED
  BY <1>6, <1>7, <1>8

\* A step of the walk, a work item of a pool or the end of the worker process in
\* inetinfo: all while the service runs or shuts down.
LEMMA RunningControl ==
  ASSUME ServiceInv, ControlInv,
         UNCHANGED <<statusVars, call, control, workQueue, monitor, ulState>>,
         ~(ulState = "Uninitialized" \/ NotStarted), main \in {"Loop", "Walk", "RequestStop"},
         main' \in {main, "CheckSecondary", "Loop"}, main' # main => call["main"] = "None",
         was'.m_StoppingInProgress = was.m_StoppingInProgress
  PROVE  ControlInv'
<1> USE DEF ControlInv
<1>1. ~workQueue.m_DeletePending /\ ~locked /\ ~FreshQueue /\ timer.queue
  BY DEF EndInv, LockInv, FreshQueue, StartInv, Terminal, Finishes
<1>2. StartInv'
  BY <1>1 DEF StartInv, NotStarted, statusVars
<1>3. EndInv'
  BY <1>1 DEF EndInv, Terminal, statusVars
<1>4. LockInv' /\ ProgressReported'
  BY <1>1 DEF LockInv, ProgressReported, IsServiceStateChangePending, statusVars
<1> QED
  BY <1>2, <1>3, <1>4

LEMMA ItemControl ==
  ASSUME ServiceInv, ControlInv, OtherItem,
         was'.m_StoppingInProgress = was.m_StoppingInProgress
  PROVE  ControlInv'
<1>1. /\ main = "Loop" /\ main' = "CheckSecondary" /\ ulState # "Uninitialized"
      /\ UNCHANGED <<statusVars, call, control, workQueue, monitor, ulState>>
  BY DEF OtherItem, elsewhere, statusVars
<1>2. ~NotStarted /\ call["main"] = "None"
  BY <1>1 DEF ControlInv, StartInv, EndInv, LockInv, Idle, Terminal, Finishes
<1> QED
  BY <1>1, <1>2, RunningControl

LEMMA WalkControl ==
  ASSUME ServiceInv, ControlInv, main \in {"Walk", "RequestStop"},
         main' \in {main, "CheckSecondary"}, main' # main => call["main"] = "None",
         UNCHANGED <<statusVars, call, control, workQueue, monitor, ulState>>,
         was'.m_StoppingInProgress = was.m_StoppingInProgress
  PROVE  ControlInv'
<1>1. ~(ulState = "Uninitialized" \/ NotStarted)
  BY DEF ControlInv, StartInv, Idle
<1> QED
  BY <1>1, RunningControl

LEMMA TerminateUlControl ==
  ASSUME ServiceInv, ControlInv, TerminateUl
  PROVE  ControlInv'
<1> USE DEF ControlInv
<1>1. /\ UNCHANGED <<status, timer, callback, locked, call, control, monitor, was, workQueue>>
      /\ main = "TerminateUl" /\ main' = "TerminateConfig" /\ ulState' = "Terminating"
  BY DEF TerminateUl, elsewhere
<1>2. PoolInv' /\ NoPoolLeft(appPool')
  BY TerminateKeepsPools DEF ServiceInv
<1>3. \A p \in Pools : appPool'[p].m_WorkerProcessCount = 0
  BY <1>2 DEF PoolInv, PoolsGood, Good, InStep, NoPoolLeft
<1>4. ~FreshQueue /\ ~locked /\ was.m_StoppingInProgress
  BY <1>1 DEF FreshQueue, LockInv, EndInv, Finishes
<1>5. NotStarted => Idle'
  BY <1>1, <1>3, <1>4 DEF StartInv, Idle, Finishes
<1>6. StartInv'
  BY <1>1, <1>4, <1>5 DEF StartInv, NotStarted
<1>7. EndInv'
  BY <1>1, <1>2, <1>4 DEF EndInv, Terminal, Finishes
<1>8. LockInv' /\ ProgressReported'
  BY <1>1, <1>4 DEF LockInv, ProgressReported, IsServiceStateChangePending
<1> QED
  BY <1>6, <1>7, <1>8

LEMMA PoolControl ==
  ASSUME ServiceInv, ControlInv, PoolStep
  PROVE  ControlInv'
<1>0. was \in Flags
  BY DEF ServiceInv, ThreadType
<1>1. ASSUME NEW p \in Pools, ShutdownAppPool(p)
      PROVE  ControlInv'
  BY <1>1, WalkControl DEF ShutdownAppPool, elsewhere, statusVars
<1>2. ASSUME ShutdownWorkerProcess \/ ShutdownAppPoolDone
      PROVE  ControlInv'
  <2>1. was'.m_StoppingInProgress = was.m_StoppingInProgress
    BY <1>0, <1>2, PoolChangesEffect DEF ShutdownWorkerProcess, ShutdownAppPoolDone
  <2> QED
    BY <1>2, <2>1, WalkControl DEF ShutdownWorkerProcess, ShutdownAppPoolDone, elsewhere, statusVars
<1>3. ASSUME InetinfoWorkerGone
      PROVE  ControlInv'
  <2>1. was'.m_StoppingInProgress = was.m_StoppingInProgress
    BY <1>0, <1>3, Zenon DEF InetinfoWorkerGone, Flags
  <2> QED
    BY <1>3, <2>1, WalkControl DEF InetinfoWorkerGone, elsewhere, statusVars
<1>4. ASSUME NEW p \in Pools,
             \/ CreateAppPool(p) \/ DeleteAppPool(p)
             \/ DemandStartWorkItem(p) \/ WorkerProcessRegistered(p)
             \/ WorkerProcessGone(p) \/ WorkerProcessDeleted(p)
      PROVE  ControlInv'
  <2>1. OtherItem /\ \E q : PoolChanges(p, q)
    BY <1>4, Zenon DEF CreateAppPool, DeleteAppPool, DemandStartWorkItem, ConfigChange,
       WorkerProcessRegistered, WorkerProcessGone, WorkerProcessDeleted
  <2>2. was'.m_StoppingInProgress = was.m_StoppingInProgress
    BY <1>0, <2>1, PoolChangesEffect
  <2> QED
    BY <2>1, <2>2, ItemControl
<1>5. ASSUME NEW p \in Pools, NEW a \in Applications, ModifyApplication(a, p)
      PROVE  ControlInv'
  BY <1>5, ItemControl DEF ModifyApplication, ConfigChange
<1> QED
  BY <1>1, <1>2, <1>3, <1>4, <1>5, InitializeControl, StopControl, TerminateUlControl, Zenon DEF PoolStep

-----------------------------------------------------------------------------
(***************************************************************************)
(* The requests of the threads, and the turns of the main thread.          *)
(***************************************************************************)
LEMMA FailControl ==
  ASSUME ServiceInv, ControlInv, InitializeOtherFails \/ WorkItemFails
  PROVE  ControlInv'
<1> USE DEF ControlInv
<1>1. /\ UNCHANGED <<ulVars, workQueue, elsewhere>> /\ ItemFails
      /\ main \in {"InitializeOther", "Loop"}
      /\ main = "Loop" => ulState # "Uninitialized"
  BY DEF InitializeOtherFails, WorkItemFails
<1>2. /\ ~workQueue.m_DeletePending /\ ~locked /\ call["main"] = "None" /\ ~FreshQueue
      /\ ulState # "Terminating" /\ workQueue.items \in Seq(Requests)
  BY <1>1 DEF EndInv, LockInv, StartInv, FreshQueue, Terminal, Finishes
<1>3. main' = "Loop" /\ was'.m_StoppingInProgress = was.m_StoppingInProgress
  BY <1>1, <1>2, ItemFailsEffect DEF ServiceInv, ThreadType
<1>4. Idle => Idle'
  BY <1>1, <1>2, <1>3 DEF Idle, Finishes, elsewhere, ulVars
<1>5. StartInv'
  BY <1>1, <1>2, <1>3, <1>4 DEF StartInv, NotStarted, elsewhere, ulVars
<1>6. EndInv'
  BY <1>1, <1>2, <1>3 DEF EndInv, Terminal, elsewhere, ulVars
<1>7. LockInv' /\ ProgressReported'
  BY <1>1, <1>2, <1>3 DEF LockInv, ProgressReported, IsServiceStateChangePending, elsewhere
<1> QED
  BY <1>5, <1>6, <1>7

LEMMA PauseControl ==
  ASSUME ServiceInv, ControlInv, PauseServiceWorkItem \/ ContinueServiceWorkItem
  PROVE  ControlInv'
<1> USE DEF ControlInv
<1>1. /\ workQueue'.items = Tail(workQueue.items) /\ workQueue'.items \in Seq(Requests)
      /\ workQueue'.m_DeletePending = workQueue.m_DeletePending
      /\ ulState # "Uninitialized" /\ ~NotStarted /\ timer.queue
  BY DispatchEffect DEF PauseServiceWorkItem, ContinueServiceWorkItem, Requests
<1>2. /\ UNCHANGED <<ulVars, was, elsewhere>>
      /\ main \in {"Loop", "Drain"} /\ ~locked /\ call["main"] = "None"
      /\ main' \in {"FinishPause", "FinishContinue"}
  BY DEF PauseServiceWorkItem, ContinueServiceWorkItem, Dispatch, LockInv, Finishes
<1>3. StartInv'
  BY <1>1, <1>2 DEF StartInv, NotStarted, elsewhere, ulVars
<1>4. EndInv'
  BY <1>1, <1>2 DEF EndInv, Terminal, Finishes, NoPoolLeft, elsewhere, ulVars
<1>5. LockInv' /\ ProgressReported'
  BY <1>2 DEF LockInv, ProgressReported, IsServiceStateChangePending, elsewhere
<1> QED
  BY <1>3, <1>4, <1>5

LEMMA WalkDoneControl ==
  ASSUME ServiceInv, ControlInv, ShutdownWalkDone
  PROVE  ControlInv'
<1>1. was'.m_StoppingInProgress = was.m_StoppingInProgress
  BY Zenon DEF ShutdownWalkDone, ServiceInv, ThreadType, Flags
<1>2. ~workQueue.m_DeletePending /\ main = "Walk" /\ call["main"] = "None"
  BY DEF ShutdownWalkDone, ControlInv, EndInv, LockInv, Terminal, Finishes
<1>3. main' = "CheckSecondary"
  BY <1>2 DEF ShutdownWalkDone, ItemDone
<1> QED
  BY <1>1, <1>2, <1>3, WalkControl DEF ShutdownWalkDone, elsewhere, statusVars, ulVars

LEMMA TurnControl ==
  ASSUME ServiceInv, ControlInv, CheckSecondary \/ ExitWorkLoop
  PROVE  ControlInv'
<1> USE DEF ControlInv
<1>1. /\ UNCHANGED <<ulVars, workQueue, elsewhere>>
      /\ \/ main = "CheckSecondary" /\ main' = "Loop"
         \/ main = "Loop" /\ was.m_ExitWorkLoop /\ main' = "TerminateUl"
  BY DEF CheckSecondary, ExitWorkLoop
<1>2. /\ was'.m_StoppingInProgress = was.m_StoppingInProgress \/ was'.m_StoppingInProgress = TRUE
      /\ main' = "TerminateUl" => was'.m_StoppingInProgress = TRUE
  <2>1. CASE CheckSecondary
    <3>1. was' = was \/ was' = [was EXCEPT !.hr = TRUE, !.m_ExitWorkLoop = TRUE]
      BY <2>1 DEF CheckSecondary
    <3>2. was'.m_StoppingInProgress = was.m_StoppingInProgress
      BY <3>1, Zenon DEF ServiceInv, ThreadType, Flags
    <3> QED
      BY <2>1, <3>2 DEF CheckSecondary
  <2>2. CASE ExitWorkLoop
    BY <2>2, Zenon DEF ExitWorkLoop, ServiceInv, ThreadType, Flags
  <2> QED
    BY <2>1, <2>2
<1>3. /\ ~workQueue.m_DeletePending /\ ~locked /\ call["main"] = "None" /\ ~FreshQueue
      /\ ulState # "Terminating" /\ workQueue.items \in Seq(Requests)
  BY <1>1 DEF EndInv, LockInv, StartInv, FreshQueue, Terminal, Finishes
<1>4. Idle => Idle'
  BY <1>1, <1>3 DEF Idle, Finishes, elsewhere, ulVars
<1>5. StartInv'
  BY <1>1, <1>3, <1>4 DEF StartInv, NotStarted, elsewhere, ulVars
<1>6. EndInv'
  BY <1>1, <1>2, <1>3 DEF EndInv, Terminal, elsewhere, ulVars
<1>7. LockInv' /\ ProgressReported'
  BY <1>1, <1>3 DEF LockInv, ProgressReported, IsServiceStateChangePending, elsewhere
<1> QED
  BY <1>5, <1>6, <1>7

LEMMA TerminateConfigControl ==
  ASSUME ServiceInv, ControlInv, TerminateConfig
  PROVE  ControlInv'
<1> USE DEF ControlInv
<1>1. /\ UNCHANGED <<ulVars, status, timer, callback, locked, was, call, control>>
      /\ main = "TerminateConfig" /\ main' = "Drain" /\ call["monitor"] = "None"
  BY DEF TerminateConfig
<1>2. /\ workQueue'.items = workQueue.items /\ workQueue'.m_DeletePending = TRUE
      /\ monitor'.running = FALSE
  BY Zenon DEF TerminateConfig, ServiceInv, ThreadType, Queues, Monitors
<1>3. ~locked /\ call["main"] = "None" /\ ~FreshQueue /\ workQueue.items \in Seq(Requests)
  BY <1>1 DEF LockInv, StartInv, FreshQueue, Finishes
<1>4. Idle => Idle'
  BY <1>1, <1>2, <1>3 DEF Idle, Finishes, ulVars
<1>5. StartInv'
  BY <1>1, <1>2, <1>3, <1>4 DEF StartInv, NotStarted, ulVars
<1>6. EndInv'
  BY <1>1, <1>2 DEF EndInv, Terminal, ulVars, NoPoolLeft
<1>7. LockInv' /\ ProgressReported'
  BY <1>1, <1>3 DEF LockInv, ProgressReported, IsServiceStateChangePending
<1> QED
  BY <1>5, <1>6, <1>7

LEMMA DrainControl ==
  ASSUME ServiceInv, ControlInv, DrainDone
  PROVE  ControlInv'
<1> USE DEF ControlInv
<1>1. /\ UNCHANGED <<ulVars, was, workQueue, elsewhere>>
      /\ main = "Drain" /\ main' = "CancelTimer" /\ workQueue.items = <<>>
  BY DEF DrainDone
<1>2. ~locked /\ call["main"] = "None" /\ ~FreshQueue /\ workQueue.items \in Seq(Requests)
  BY <1>1 DEF LockInv, StartInv, FreshQueue, Finishes
<1>3. Idle => Idle'
  BY <1>1, <1>2 DEF Idle, Finishes, elsewhere, ulVars
<1>4. StartInv'
  BY <1>1, <1>2, <1>3 DEF StartInv, NotStarted, elsewhere, ulVars
<1>5. EndInv'
  BY <1>1 DEF EndInv, Terminal, elsewhere, ulVars, NoPoolLeft
<1>6. LockInv' /\ ProgressReported'
  BY <1>1, <1>2 DEF LockInv, ProgressReported, IsServiceStateChangePending, elsewhere
<1> QED
  BY <1>4, <1>5, <1>6

LEMMA InetinfoControl ==
  ASSUME ServiceInv, ControlInv, InetinfoRegistered \/ InetinfoWorkerFails
  PROVE  ControlInv'
<1> USE DEF ControlInv
<1>1. /\ UNCHANGED <<ulVars, status, timer, callback, locked, was, workQueue, control, monitor>>
      /\ main = "Loop" /\ appPool[DefaultAppPool].m_WorkerProcessCount > 0
      /\ main' \in {"FinishStart", "RequestStop"}
      /\ main' = "FinishStart" => call' = call
      /\ call'["monitor"] = call["monitor"]
  BY DEF InetinfoRegistered, InetinfoWorkerFails, elsewhere, ServiceInv, ThreadType, Threads
<1>2. ulState # "Uninitialized" /\ ~NotStarted
  BY <1>1, PoolsAssumption DEF StartInv, Idle
<1>3. /\ ~workQueue.m_DeletePending /\ ~locked /\ call["main"] = "None"
      /\ ulState # "Terminating" /\ workQueue.items \in Seq(Requests) /\ timer.queue
  BY <1>1, <1>2 DEF EndInv, LockInv, StartInv, FreshQueue, Terminal, Finishes
<1>4. StartInv'
  BY <1>1, <1>2, <1>3 DEF StartInv, NotStarted, ulVars
<1>5. EndInv'
  BY <1>1, <1>3 DEF EndInv, Terminal, ulVars
<1>6. LockInv' /\ ProgressReported'
  BY <1>1, <1>3 DEF LockInv, ProgressReported, IsServiceStateChangePending
<1> QED
  BY <1>4, <1>5, <1>6

\* A step of another thread, while the service is not idle.
LEMMA ThreadControl ==
  ASSUME ServiceInv, ControlInv, ~Idle,
         UNCHANGED <<ulVars, statusVars, main, monitor>>,
         was'.m_StoppingInProgress = was.m_StoppingInProgress,
         workQueue'.m_DeletePending = workQueue.m_DeletePending,
         workQueue'.items \in Seq(Requests),
         workQueue.m_DeletePending => workQueue'.items = workQueue.items,
         call["monitor"] = "None" => call'["monitor"] = "None",
         call["main"] = "None" => call'["main"] = "None"
  PROVE  ControlInv'
<1> USE DEF ControlInv, statusVars, ulVars
<1>1. StartInv'
  BY DEF StartInv, NotStarted
<1>2. EndInv'
  BY DEF EndInv, NoPoolLeft, Terminal
<1>3. LockInv' /\ ProgressReported'
  BY DEF LockInv, ProgressReported, IsServiceStateChangePending
<1> QED
  BY <1>1, <1>2, <1>3

LEMMA RequestsControl ==
  ASSUME ServiceInv, ControlInv,
         \/ \E c \in Controls : ScmSends(c)
         \/ ScmReturns
         \/ \E t \in Threads : RequestStopService(t) \/ QueueRequest(t)
  PROVE  ControlInv'
<1>0. call \in [Threads -> Places] /\ was \in Flags /\ workQueue \in Queues
      /\ "main" \in Threads /\ "monitor" \in Threads /\ "scm" \in Threads
  BY DEF ServiceInv, ThreadType, Threads
<1>1. ~Idle
  BY <1>0 DEF Idle, ScmSends, ScmReturns, RequestStopService, QueueRequest
<1>2. workQueue.items \in Seq(Requests)
  BY <1>1 DEF ControlInv, StartInv, FreshQueue
<1>3. ASSUME NEW c \in Controls, ScmSends(c)
      PROVE  ControlInv'
  <2>1. call'["monitor"] = call["monitor"] /\ call'["main"] = call["main"]
    BY <1>0, <1>3 DEF ScmSends
  <2> QED
    BY <1>1, <1>2, <1>3, <2>1, ThreadControl DEF ScmSends, statusVars
<1>4. ASSUME ScmReturns
      PROVE  ControlInv'
  <2>1. call'["monitor"] = call["monitor"] /\ call'["main"] = call["main"]
    BY <1>0, <1>4 DEF ScmReturns
  <2> QED
    BY <1>1, <1>2, <1>4, <2>1, ThreadControl DEF ScmReturns, statusVars
<1>5. ASSUME NEW t \in Threads, RequestStopService(t)
      PROVE  ControlInv'
  <2>1. /\ call["monitor"] = "None" => call'["monitor"] = "None"
        /\ call["main"] = "None" => call'["main"] = "None"
    BY <1>0, <1>5 DEF RequestStopService
  <2> QED
    BY <1>1, <1>2, <1>5, <2>1, ThreadControl DEF RequestStopService, statusVars
<1>6. ASSUME NEW t \in Threads, QueueRequest(t)
      PROVE  ControlInv'
  <2>1. /\ call["monitor"] = "None" => call'["monitor"] = "None"
        /\ call["main"] = "None" => call'["main"] = "None"
    BY <1>0, <1>6 DEF QueueRequest
  <2>2. Requested(t) \in Requests
    BY <1>6, RequestedType DEF QueueRequest, ServiceInv, Requests
  <2>3. was'.m_StoppingInProgress = was.m_StoppingInProgress
    BY <1>0, <1>6, Zenon DEF QueueRequest, Flags
  <2>4. CASE workQueue.m_DeletePending
    BY <1>1, <1>2, <1>6, <2>1, <2>3, <2>4, ThreadControl DEF QueueRequest, statusVars
  <2>5. CASE ~workQueue.m_DeletePending
    <3>1. workQueue' = [workQueue EXCEPT !.items = Append(workQueue.items, Requested(t))]
      BY <1>6, <2>5 DEF QueueRequest
    <3>2. /\ workQueue'.items = Append(workQueue.items, Requested(t))
          /\ workQueue'.m_DeletePending = workQueue.m_DeletePending
      BY <1>0, <3>1, Zenon DEF Queues
    <3>3. workQueue'.items \in Seq(Requests)
      BY <1>2, <2>2, <3>2, AppendProperties
    <3> QED
      BY <1>1, <1>6, <2>1, <2>3, <2>5, <3>2, <3>3, ThreadControl DEF QueueRequest, statusVars
  <2> QED
    BY <2>4, <2>5
<1> QED
  BY <1>3, <1>4, <1>5, <1>6

LEMMA CrashControl ==
  ASSUME ServiceInv, ControlInv, InetinfoCrashes
  PROVE  ControlInv'
<1> USE DEF ControlInv
<1>1. /\ UNCHANGED <<ulVars, status, timer, callback, locked, was, workQueue, main, control>>
      /\ monitor.running /\ call'["main"] = call["main"]
  BY DEF InetinfoCrashes, ServiceInv, ThreadType, Threads
<1>2. ~Idle /\ ~workQueue.m_DeletePending
  BY <1>1 DEF Idle, EndInv
<1>3. StartInv'
  BY <1>1, <1>2 DEF StartInv, NotStarted, FreshQueue, ulVars
<1>4. EndInv'
  BY <1>1, <1>2 DEF EndInv, ulVars, NoPoolLeft
<1>5. LockInv' /\ ProgressReported'
  BY <1>1 DEF LockInv, ProgressReported, IsServiceStateChangePending
<1> QED
  BY <1>3, <1>4, <1>5

LEMMA OtherControl ==
  ASSUME ServiceInv, ControlInv, OtherStep
  PROVE  ControlInv'
  BY FailControl, PauseControl, WalkDoneControl, TurnControl, TerminateConfigControl, DrainControl,
     InetinfoControl, RequestsControl, CrashControl, Zenon DEF OtherStep

-----------------------------------------------------------------------------
(***************************************************************************)
(* The theorems.                                                           *)
(***************************************************************************)
LEMMA ControlInvInit == Init => ControlInv
  BY DEF Init, ControlInv, StartInv, EndInv, LockInv, ProgressReported, Idle, FreshQueue, NotStarted,
     Terminal, Finishes, Threads, NoAppPool, IsServiceStateChangePending, PendingStates

LEMMA ControlInvStep == ServiceInv /\ ControlInv /\ [Next]_vars => ControlInv'
<1>1. ASSUME ServiceInv, ControlInv, UNCHANGED vars
      PROVE  ControlInv'
  BY <1>1 DEF vars, ulVars, serviceVars, ControlInv, StartInv, EndInv, LockInv, ProgressReported,
     Idle, FreshQueue, NotStarted, IsServiceStateChangePending, NoPoolLeft
<1> QED
  BY <1>1, StatusControl, PoolControl, OtherControl, Steps

LEMMA ControlInvAlways == Spec => [](ServiceInv /\ ControlInv)
  BY ServiceInvInit, ControlInvInit, ServiceInvStep, ControlInvStep, PTL DEF Spec

\* While a change of state is pending the controller is told of it, and at no other
\* time: the timer runs exactly then, except during startup, and dwCheckPoint is
\* positive exactly then, whichever thread began the change, whatever overtook it
\* and however late the timer's callback comes (BeginStateTransition,
\* FinishStateTransition, UpdatePendingServiceStatus).
THEOREM Progress == Spec => []ProgressReported
<1>1. ControlInv => ProgressReported
  BY DEF ControlInv
<1> QED
  BY <1>1, ControlInvAlways, PTL

\* When the service has reported its end there is no pool, no work item, no monitor
\* that could ask for a stop and no callback left (Terminate).
THEOREM NothingLeft == Spec => []NothingOutlivesService
<1>1. ControlInv => NothingOutlivesService
  BY DEF ControlInv, EndInv, NothingOutlivesService, Terminal
<1> QED
  BY <1>1, ControlInvAlways, PTL

\* Only the work item that stops the service begins the walk over the pools.
LEMMA OnlyStopWalks ==
  ASSUME Next, main # "Walk", main' = "Walk"
  PROVE  StopServiceWorkItem
<1>1. ASSUME NEW f \in Finishes, FinishStateTransition(f) \/ FinishStateTransitionLocked(f)
      PROVE  FALSE
  BY <1>1 DEF FinishStateTransition, FinishStateTransitionLocked, ItemDone
<1>2. ASSUME NEW t \in Threads, BeginRequest(t) \/ RequestStopService(t) \/ QueueRequest(t)
      PROVE  FALSE
  BY <1>2 DEF BeginRequest, RequestStopService, QueueRequest
<1>3. ASSUME \/ TimerFires \/ UpdatePendingServiceStatus \/ StartServiceWorkItem \/ BeginStart
             \/ CancelTimer \/ DeleteTimerQueue \/ ReportStopped
      PROVE  FALSE
  BY <1>3 DEF TimerFires, UpdatePendingServiceStatus, StartServiceWorkItem, ItemFails, BeginStart,
     CancelTimer, DeleteTimerQueue, ReportStopped
<1>4. ASSUME NEW p \in Pools,
             \/ ShutdownAppPool(p) \/ CreateAppPool(p) \/ DeleteAppPool(p)
             \/ DemandStartWorkItem(p) \/ WorkerProcessRegistered(p)
             \/ WorkerProcessGone(p) \/ WorkerProcessDeleted(p)
      PROVE  FALSE
  BY <1>4 DEF ShutdownAppPool, CreateAppPool, DeleteAppPool, DemandStartWorkItem, ConfigChange,
     WorkerProcessRegistered, WorkerProcessGone, WorkerProcessDeleted, OtherItem
<1>5. ASSUME NEW p \in Pools, NEW a \in Applications, ModifyApplication(a, p)
      PROVE  FALSE
  BY <1>5 DEF ModifyApplication, ConfigChange, OtherItem
<1>6. ASSUME \/ InitializeOther \/ ShutdownWorkerProcess \/ ShutdownAppPoolDone
             \/ InetinfoWorkerGone \/ TerminateUl
      PROVE  FALSE
  BY <1>6 DEF InitializeOther, ShutdownWorkerProcess, ShutdownAppPoolDone, InetinfoWorkerGone,
     TerminateUl
<1>7. ASSUME \/ InitializeOtherFails \/ PauseServiceWorkItem \/ ContinueServiceWorkItem
             \/ ShutdownWalkDone \/ CheckSecondary \/ ExitWorkLoop \/ TerminateConfig \/ DrainDone
      PROVE  FALSE
  BY <1>7 DEF InitializeOtherFails, ItemFails, PauseServiceWorkItem, ContinueServiceWorkItem,
     ShutdownWalkDone, ItemDone, CheckSecondary, ExitWorkLoop, TerminateConfig, DrainDone
<1>8. ASSUME \/ InetinfoRegistered \/ InetinfoWorkerFails \/ WorkItemFails \/ ScmReturns
             \/ InetinfoCrashes
      PROVE  FALSE
  BY <1>8 DEF InetinfoRegistered, InetinfoWorkerFails, WorkItemFails, ItemFails, ScmReturns,
     InetinfoCrashes
<1>9. ASSUME NEW c \in Controls, ScmSends(c)
      PROVE  FALSE
  BY <1>9 DEF ScmSends
<1> QED
  BY <1>1, <1>2, <1>3, <1>4, <1>5, <1>6, <1>7, <1>8, <1>9, Steps, Zenon
     DEF StatusStep, PoolStep, OtherStep

\* However many threads ask for a stop the pools are shut down once, and never once
\* the service is terminating (StopServiceWorkItem).
THEOREM OneShutdown == Spec => ShutdownOnce
<1>1. ServiceInv /\ ControlInv /\ [Next]_vars
        => [main # "Walk" /\ main' = "Walk" => ulState = "Running"]_vars
  <2> SUFFICES ASSUME ServiceInv, ControlInv, Next, main # "Walk", main' = "Walk"
               PROVE  ulState = "Running"
    OBVIOUS
  <2>1. StopServiceWorkItem
    BY OnlyStopWalks
  <2>2. ~was.m_StoppingInProgress
    BY <2>1 DEF StopServiceWorkItem, ItemDone
  <2>3. ulState # "Uninitialized"
    BY <2>1, DispatchEffect DEF StopServiceWorkItem, Requests
  <2> QED
    BY <2>2, <2>3 DEF ControlInv, EndInv
<1> QED
  BY <1>1, ControlInvAlways, PTL DEF Spec, ShutdownOnce

-----------------------------------------------------------------------------
(***************************************************************************)
(* The states the controller sees.  A controller's request that is still   *)
(* on its way when the service has stopped would take it out of STOPPED,   *)
(* so the service implements that of ScmService as long as the controller  *)
(* has sent the stop itself or sends nothing: either nothing fails, or     *)
(* there are no controls.                                                  *)
(***************************************************************************)
NoStop ==
  /\ ~was.m_StoppingInProgress /\ ~was.m_ExitWorkLoop
  /\ workQueue.items \in Seq({"Start", "Pause", "Continue"})
  /\ ~(call["scm"] = "Queue" /\ control = "Stop")

Quiet == call["scm"] \notin {"Check", "Begin"}

\* If nothing fails, only the controller stops the service, and asks for nothing
\* after that.
StopInv ==
  /\ status.state = "STOP_PENDING" => ~status.controls /\ Quiet
  /\ main = "Done" => status.state = "STOPPED" /\ Quiet
  /\ status.state = "STOP_PENDING" \/ main = "Done" \/ NoStop
  /\ call["monitor"] = "None" /\ call["main"] = "None"
  /\ was.m_SecondaryThreadError => workQueue.m_DeletePending

\* Of the end of the service the other steps say nothing.
LEMMA EndFrame ==
  ASSUME PoolStep \/ OtherStep
  PROVE  status' = status /\ (main = "Done" <=> main' = "Done")
<1>0. status' = status
  BY PoolFrame, OtherFrame DEF statusVars
<1>1. ASSUME NEW p \in Pools,
             \/ ShutdownAppPool(p) \/ CreateAppPool(p) \/ DeleteAppPool(p)
             \/ DemandStartWorkItem(p) \/ WorkerProcessRegistered(p)
             \/ WorkerProcessGone(p) \/ WorkerProcessDeleted(p)
      PROVE  main = "Done" <=> main' = "Done"
  BY <1>1 DEF ShutdownAppPool, CreateAppPool, DeleteAppPool, DemandStartWorkItem, ConfigChange,
     WorkerProcessRegistered, WorkerProcessGone, WorkerProcessDeleted, OtherItem
<1>2. ASSUME NEW p \in Pools, NEW a \in Applications, ModifyApplication(a, p)
      PROVE  main = "Done" <=> main' = "Done"
  BY <1>2 DEF ModifyApplication, ConfigChange, OtherItem
<1>3. ASSUME \/ InitializeOther \/ StopServiceWorkItem \/ ShutdownWorkerProcess
             \/ ShutdownAppPoolDone \/ InetinfoWorkerGone \/ TerminateUl
      PROVE  main = "Done" <=> main' = "Done"
  BY <1>3 DEF InitializeOther, StopServiceWorkItem, Dispatch, ItemDone, ShutdownWorkerProcess,
     ShutdownAppPoolDone, InetinfoWorkerGone, TerminateUl
<1>4. ASSUME NEW t \in Threads, RequestStopService(t) \/ QueueRequest(t)
      PROVE  main = "Done" <=> main' = "Done"
  BY <1>4 DEF RequestStopService, QueueRequest
<1>5. ASSUME NEW c \in Controls, ScmSends(c)
      PROVE  main = "Done" <=> main' = "Done"
  BY <1>5 DEF ScmSends
<1>6. ASSUME ScmReturns \/ InetinfoCrashes
      PROVE  main = "Done" <=> main' = "Done"
  BY <1>6 DEF ScmReturns, InetinfoCrashes
<1>7. ASSUME \/ InitializeOtherFails \/ PauseServiceWorkItem \/ ContinueServiceWorkItem
             \/ ShutdownWalkDone \/ CheckSecondary \/ ExitWorkLoop \/ TerminateConfig \/ DrainDone
             \/ InetinfoRegistered \/ InetinfoWorkerFails \/ WorkItemFails
      PROVE  main = "Done" <=> main' = "Done"
  BY <1>7 DEF InitializeOtherFails, ItemFails, PauseServiceWorkItem, ContinueServiceWorkItem,
     Dispatch, ShutdownWalkDone, ItemDone, CheckSecondary, ExitWorkLoop, TerminateConfig, DrainDone,
     InetinfoRegistered, InetinfoWorkerFails, WorkItemFails
<1> QED
  BY <1>0, <1>1, <1>2, <1>3, <1>4, <1>5, <1>6, <1>7, Zenon DEF PoolStep, OtherStep

\* What the step that begins a requested change of state finds.
EndedQuiet == main = "Done" => status.state = "STOPPED" /\ Quiet

LEMMA RefineStep ==
  ASSUME ServiceInv, ControlInv, EndedQuiet, Next
  PROVE  Scm!Next \/ UNCHANGED scmState
<1> USE DEF Scm!Next, scmState
<1>1. ASSUME NEW f \in Finishes, FinishStateTransitionLocked(f)
      PROVE  Scm!Finish
  <2>1. status.state = ExpectedPreviousState[f] /\ status'.state = NewState[f] /\ main = f
        /\ main' # "Done"
    BY <1>1, FinishEffect DEF FinishStateTransitionLocked, ControlInv, LockInv, ServiceInv, ItemDone
  <2> QED
    BY <2>1 DEF Finishes, ExpectedPreviousState, NewState, Scm!Finish, Scm!PendingStates, Scm!Announced
<1>2. ASSUME NEW t \in Threads, BeginRequest(t)
      PROVE  Scm!Next \/ UNCHANGED scmState
  <2>1. CASE RequestRefused(t)
    BY <1>2, <2>1 DEF BeginRequest
  <2>2. CASE ~RequestRefused(t)
    <3> DEFINE new == PendingFor[Requested(t)]
    <3>1. call[t] = "Begin" /\ main' = main /\ status'.state = new
      BY <1>2, <2>2, BeginEffect DEF BeginRequest, ServiceInv
    <3>2. main # "Done"
      BY <3>1 DEF EndedQuiet, Quiet, ControlInv, EndInv, LockInv, Terminal, Threads
    <3>3. status.state # "STOPPED"
      BY <3>1, <3>2 DEF ControlInv, StartInv, NotStarted, Idle
    <3>4. status.state \in ServiceStates
      BY DEF ServiceInv, StatusType, Statuses
    <3>5. CASE new = "STOP_PENDING"
      <4>1. status.state # "STOP_PENDING" => Scm!Stop
        BY <3>1, <3>2, <3>3, <3>4, <3>5 DEF Scm!Stop, ServiceStates, PendingStates
      <4>2. status.state = "STOP_PENDING" => UNCHANGED scmState
        BY <3>1, <3>2, <3>5
      <4> QED
        BY <4>1, <4>2
    <3>6. CASE new # "STOP_PENDING"
      <4>1. Requested(t) \in {"Pause", "Continue"} /\ t = "scm"
        BY <3>1, <3>6, RequestedType DEF PendingFor, ServiceInv, Requested
      <4>2. new \in {"PAUSE_PENDING", "CONTINUE_PENDING"}
        BY <4>1 DEF PendingFor
      <4>3. status.state \in {"RUNNING", "PAUSED"}
        BY <2>2, <3>3, <3>4, <4>1 DEF RequestRefused, IsServiceStateChangePending, ServiceStates
      <4> QED
        BY <3>1, <3>2, <4>2, <4>3 DEF Scm!Control, Scm!QuietStates
    <3> QED
      BY <3>5, <3>6
  <2> QED
    BY <2>1, <2>2
<1>3. ASSUME BeginStart
      PROVE  Scm!Start
  <2>1. main = "BeginStart" /\ main' = "InitializeOther" /\ status'.state = "START_PENDING"
    BY <1>3, BeginEffect DEF BeginStart, ServiceInv
  <2> QED
    BY <2>1 DEF ControlInv, StartInv, NotStarted, Scm!Start
<1>4. ASSUME ReportStopped
      PROVE  Scm!End
  <2>1. main = "ReportStopped" /\ main' = "Done" /\ status'.state = "STOPPED"
    BY <1>4, Zenon DEF ReportStopped, ServiceInv, StatusType, Statuses
  <2> QED
    BY <2>1 DEF Scm!End
<1>5. ASSUME NEW f \in Finishes, FinishStateTransition(f)
      PROVE  UNCHANGED scmState
  BY <1>5 DEF FinishStateTransition, ItemDone, Finishes
<1>6. ASSUME TimerFires \/ StartServiceWorkItem \/ CancelTimer \/ DeleteTimerQueue
      PROVE  UNCHANGED scmState
  BY <1>6 DEF TimerFires, StartServiceWorkItem, Dispatch, ItemFails, CancelTimer, DeleteTimerQueue
<1>7. ASSUME UpdatePendingServiceStatus
      PROVE  UNCHANGED scmState
  <2>1. status'.state = status.state /\ main' = main
    BY <1>7, Zenon DEF UpdatePendingServiceStatus, ServiceInv, StatusType, Statuses
  <2> QED
    BY <2>1
<1>8. ASSUME PoolStep \/ OtherStep
      PROVE  UNCHANGED scmState
  <2>1. status' = status /\ (main = "Done" <=> main' = "Done")
    BY <1>8, EndFrame
  <2> QED
    BY <2>1
<1> QED
  BY <1>1, <1>2, <1>3, <1>4, <1>5, <1>6, <1>7, <1>8, Steps, Zenon DEF StatusStep

-----------------------------------------------------------------------------
\* Only the last step reaches the end, and a service that has ended reports nothing
\* more, except for a request that is still on its way.
LEMMA EndReached ==
  ASSUME ServiceInv, ControlInv, EndedQuiet, [Next]_vars, main' = "Done"
  PROVE  /\ status'.state = "STOPPED"
         /\ \/ ReportStopped /\ main = "ReportStopped"
            \/ main = "Done"
<1>1. CASE ReportStopped
  BY <1>1, Zenon DEF ReportStopped, ServiceInv, StatusType, Statuses
<1>2. ASSUME NEW f \in Finishes, FinishStateTransition(f) \/ FinishStateTransitionLocked(f)
      PROVE  FALSE
  BY <1>2 DEF FinishStateTransition, FinishStateTransitionLocked, ItemDone, Finishes
<1>3. ASSUME NEW t \in Threads, BeginRequest(t)
      PROVE  status' = status /\ main' = main
  <2>1. call[t] = "Begin" /\ main' = main
    BY <1>3 DEF BeginRequest
  <2> QED
    BY <2>1 DEF EndedQuiet, Quiet, ControlInv, EndInv, LockInv, Terminal, Threads
<1>4. ASSUME StartServiceWorkItem \/ BeginStart \/ CancelTimer \/ DeleteTimerQueue
      PROVE  FALSE
  BY <1>4 DEF StartServiceWorkItem, ItemFails, BeginStart, CancelTimer, DeleteTimerQueue
<1>5. ASSUME TimerFires \/ UpdatePendingServiceStatus
      PROVE  status'.state = status.state /\ main' = main
  <2>1. CASE TimerFires
    BY <2>1 DEF TimerFires
  <2>2. CASE UpdatePendingServiceStatus
    BY <2>2, Zenon DEF UpdatePendingServiceStatus, ServiceInv, StatusType, Statuses
  <2> QED
    BY <1>5, <2>1, <2>2
<1>6. ASSUME PoolStep \/ OtherStep
      PROVE  status' = status /\ main = "Done"
  BY <1>6, EndFrame
<1>7. CASE ~ReportStopped
  <2>1. status'.state = status.state /\ main = "Done"
    BY <1>2, <1>3, <1>4, <1>5, <1>6, <1>7, Steps DEF StatusStep, vars, ulVars, serviceVars
  <2> QED
    BY <2>1 DEF EndedQuiet
<1> QED
  BY <1>1, <1>7 DEF ReportStopped

\* Without controls the controller's thread has nothing to do.
LEMMA NoControls ==
  ASSUME Controls = {}, ServiceInv
  PROVE  call["scm"] = "None"
  BY DEF ServiceInv, ThreadType, ScmServes

LEMMA EndedQuietStep ==
  ASSUME Controls = {}, ServiceInv, ControlInv, EndedQuiet, [Next]_vars
  PROVE  EndedQuiet'
<1>1. ServiceInv'
  BY ServiceInvStep
<1>2. Quiet'
  BY <1>1 DEF Quiet, ServiceInv, ThreadType, ScmServes
<1> QED
  BY <1>2, EndReached DEF EndedQuiet

-----------------------------------------------------------------------------
(***************************************************************************)
(* If nothing fails every step keeps StopInv.                              *)
(***************************************************************************)
LEMMA StopEnded ==
  ASSUME StopInv
  PROVE  EndedQuiet
  BY DEF StopInv, EndedQuiet

LEMMA StatusKeepsStop ==
  ASSUME Faults = {}, ServiceInv, ControlInv, StopInv, StatusStep
  PROVE  StopInv'
<1> USE DEF StopInv, Quiet
<1>0. StatusType /\ was \in Flags /\ call \in [Threads -> Places] /\ "scm" \in Threads
      /\ "monitor" \in Threads /\ "main" \in Threads
  BY DEF ServiceInv, ThreadType, Threads
<1>1. ASSUME NEW f \in Finishes, FinishStateTransition(f)
      PROVE  StopInv'
  BY <1>1 DEF FinishStateTransition, NoStop, ItemDone, Finishes
<1>2. ASSUME NEW f \in Finishes, FinishStateTransitionLocked(f)
      PROVE  StopInv'
  <2>1. status.state = ExpectedPreviousState[f] /\ status'.state = NewState[f] /\ main = f
        /\ main' # "Done" /\ UNCHANGED <<was, workQueue, call, control>>
    BY <1>2, FinishEffect DEF FinishStateTransitionLocked, ControlInv, LockInv, ServiceInv, ItemDone
  <2>2. ExpectedPreviousState[f] # "STOP_PENDING" /\ NewState[f] # "STOP_PENDING" /\ f # "Done"
    BY DEF Finishes, ExpectedPreviousState, NewState
  <2>3. NoStop'
    BY <2>1, <2>2 DEF NoStop
  <2> QED
    BY <2>1, <2>2, <2>3
<1>3. ASSUME TimerFires
      PROVE  StopInv'
  BY <1>3 DEF TimerFires, NoStop
<1>4. ASSUME UpdatePendingServiceStatus
      PROVE  StopInv'
  <2>1. UNCHANGED <<workQueue, main, call, control>>
    BY <1>4 DEF UpdatePendingServiceStatus
  <2>2. status'.state = status.state /\ status'.controls = status.controls
    BY <1>4, Zenon DEF UpdatePendingServiceStatus, ServiceInv, StatusType, Statuses
  <2>3. /\ was'.m_StoppingInProgress = was.m_StoppingInProgress
        /\ was'.m_ExitWorkLoop = was.m_ExitWorkLoop
    BY <1>0, <1>4, Zenon DEF UpdatePendingServiceStatus, Flags
  <2>4. was'.m_SecondaryThreadError = was.m_SecondaryThreadError
    <3>1. was' = [was EXCEPT !.m_SecondaryThreadError = @ \/ (FALSE /\ IsServiceStateChangePending)]
      BY <1>4 DEF UpdatePendingServiceStatus
    <3> QED
      BY <1>0, <3>1 DEF Flags
  <2>5. NoStop => NoStop'
    BY <2>1, <2>3 DEF NoStop
  <2> QED
    BY <2>1, <2>2, <2>4, <2>5
<1>5. ASSUME NEW t \in Threads, BeginRequest(t)
      PROVE  StopInv'
  <2>1. /\ call[t] = "Begin" /\ t = "scm" /\ UNCHANGED <<was, workQueue, main, control>>
        /\ call' \in {[call EXCEPT !["scm"] = "Refused"], [call EXCEPT !["scm"] = "Queue"]}
    BY <1>5 DEF BeginRequest, Threads
  <2>2. /\ call'["scm"] \in {"Refused", "Queue"} /\ call'["monitor"] = call["monitor"]
        /\ call'["main"] = call["main"]
    BY <1>0, <2>1
  <2>3. main # "Done" /\ status.state # "STOP_PENDING" /\ NoStop
    BY <2>1
  <2>4. CASE RequestRefused(t)
    <3>1. UNCHANGED status /\ call'["scm"] = "Refused"
      BY <1>0, <1>5, <2>1, <2>4 DEF BeginRequest
    <3>2. NoStop'
      BY <2>1, <2>3, <3>1 DEF NoStop
    <3> QED
      BY <2>1, <2>2, <2>3, <3>1, <3>2
  <2>5. CASE ~RequestRefused(t)
    <3>1. status'.state = PendingFor[control] /\ status'.controls = FALSE
      BY <1>0, <1>5, <2>1, <2>5, BeginEffect DEF BeginRequest, Requested
    <3>2. CASE control = "Stop"
      <4>1. status'.state = "STOP_PENDING"
        BY <3>1, <3>2 DEF PendingFor
      <4> QED
        BY <2>1, <2>2, <2>3, <3>1, <4>1
    <3>3. CASE control # "Stop"
      <4>1. control \in {"Pause", "Continue"}
        BY <2>1, <3>3, RequestedType DEF Requested, ServiceInv
      <4>2. status'.state # "STOP_PENDING"
        BY <3>1, <4>1 DEF PendingFor
      <4>3. NoStop'
        BY <2>1, <2>3, <3>3 DEF NoStop
      <4> QED
        BY <2>1, <2>2, <2>3, <4>2, <4>3
    <3> QED
      BY <3>2, <3>3
  <2> QED
    BY <2>4, <2>5
<1>6. ASSUME StartServiceWorkItem
      PROVE  StopInv'
  <2>1. /\ workQueue'.items = <<>> /\ workQueue'.m_DeletePending = workQueue.m_DeletePending
        /\ FreshQueue
    BY <1>6, DispatchEffect DEF StartServiceWorkItem, Requests
  <2>2. UNCHANGED <<status, was, call, control>> /\ main' = "BeginStart"
    BY <1>6 DEF StartServiceWorkItem
  <2>3. NoStop'
    BY <2>1, <2>2 DEF NoStop, FreshQueue, NotStarted
  <2> QED
    BY <2>1, <2>2, <2>3
<1>7. ASSUME BeginStart
      PROVE  StopInv'
  <2>1. /\ status'.state = "START_PENDING" /\ main' = "InitializeOther" /\ main = "BeginStart"
        /\ UNCHANGED <<was, workQueue, call, control>>
    BY <1>0, <1>7, BeginEffect DEF BeginStart
  <2>2. NoStop'
    BY <2>1 DEF NoStop, ControlInv, StartInv, NotStarted
  <2> QED
    BY <2>1, <2>2
<1>8. ASSUME CancelTimer \/ DeleteTimerQueue
      PROVE  StopInv'
  BY <1>8 DEF CancelTimer, DeleteTimerQueue, NoStop
<1>9. ASSUME ReportStopped
      PROVE  StopInv'
  <2>1. /\ main = "ReportStopped" /\ main' = "Done" /\ UNCHANGED <<was, workQueue, call, control>>
    BY <1>9 DEF ReportStopped
  <2>2. status'.state = "STOPPED"
    BY <1>9, Zenon DEF ReportStopped, ServiceInv, StatusType, Statuses
  <2>3. was.m_StoppingInProgress
    BY <2>1 DEF ControlInv, EndInv, Terminal
  <2>4. status.state = "STOP_PENDING"
    BY <2>1, <2>3 DEF NoStop
  <2> QED
    BY <2>1, <2>2, <2>4
<1> QED
  BY <1>1, <1>2, <1>3, <1>4, <1>5, <1>6, <1>7, <1>8, <1>9, Zenon DEF StatusStep

\* The work loop is told to end only once the service is shutting down.
LEMMA PoolChangesStop ==
  ASSUME ServiceInv, ControlInv, NEW p, NEW q, PoolChanges(p, q)
  PROVE  /\ was'.m_StoppingInProgress = was.m_StoppingInProgress
         /\ was'.m_SecondaryThreadError = was.m_SecondaryThreadError
         /\ ~was.m_StoppingInProgress => was'.m_ExitWorkLoop = was.m_ExitWorkLoop
<1>1. was \in Flags
  BY DEF ServiceInv, ThreadType
<1>2. ~was.m_StoppingInProgress => ~ShutdownDone(appPool')
  BY DEF ControlInv, EndInv, ShutdownDone
<1>3. /\ was'.m_StoppingInProgress = was.m_StoppingInProgress
      /\ was'.m_SecondaryThreadError = was.m_SecondaryThreadError
      /\ was'.m_ExitWorkLoop = (was.m_ExitWorkLoop \/ ShutdownDone(appPool'))
  BY <1>1, PoolChangesEffect
<1>4. was.m_ExitWorkLoop \in BOOLEAN
  BY <1>1 DEF Flags
<1> QED
  BY <1>2, <1>3, <1>4

\* A step of the main thread that neither sees a request nor ends the loop.
LEMMA StopFrame ==
  ASSUME StopInv, UNCHANGED <<status, call, control>>, main # "Done", main' # "Done",
         workQueue'.m_DeletePending = workQueue.m_DeletePending \/ workQueue'.m_DeletePending,
         workQueue'.items = workQueue.items,
         was'.m_StoppingInProgress = was.m_StoppingInProgress,
         was'.m_SecondaryThreadError = was.m_SecondaryThreadError,
         ~was.m_StoppingInProgress => was'.m_ExitWorkLoop = was.m_ExitWorkLoop
  PROVE  StopInv'
<1>1. NoStop => NoStop'
  BY DEF NoStop
<1> QED
  BY <1>1 DEF StopInv, Quiet

LEMMA PoolKeepsStop ==
  ASSUME Faults = {}, ServiceInv, ControlInv, StopInv, PoolStep
  PROVE  StopInv'
<1>0. /\ was \in Flags /\ UNCHANGED <<status, call, control>>
      /\ main = "Done" <=> main' = "Done"
  BY PoolFrame, EndFrame DEF ServiceInv, ThreadType, statusVars
<1>1. ASSUME NEW p \in Pools,
             \/ CreateAppPool(p) \/ DeleteAppPool(p)
             \/ DemandStartWorkItem(p) \/ WorkerProcessRegistered(p)
             \/ WorkerProcessGone(p) \/ WorkerProcessDeleted(p)
      PROVE  StopInv'
  <2>1. OtherItem /\ \E q : PoolChanges(p, q)
    BY <1>1, Zenon DEF CreateAppPool, DeleteAppPool, DemandStartWorkItem, ConfigChange,
       WorkerProcessRegistered, WorkerProcessGone, WorkerProcessDeleted
  <2> QED
    BY <1>0, <2>1, PoolChangesStop, StopFrame DEF OtherItem
<1>2. ASSUME NEW p \in Pools, NEW a \in Applications, ModifyApplication(a, p)
      PROVE  StopInv'
  BY <1>0, <1>2, StopFrame DEF ModifyApplication, ConfigChange, OtherItem
<1>3. ASSUME NEW p \in Pools, ShutdownAppPool(p)
      PROVE  StopInv'
  BY <1>0, <1>3, StopFrame DEF ShutdownAppPool
<1>4. ASSUME ShutdownWorkerProcess \/ ShutdownAppPoolDone
      PROVE  StopInv'
  <2>1. was' = was \/ \E p, q : PoolChanges(p, q)
    BY <1>4 DEF ShutdownWorkerProcess, ShutdownAppPoolDone
  <2>2. /\ was'.m_StoppingInProgress = was.m_StoppingInProgress
        /\ was'.m_SecondaryThreadError = was.m_SecondaryThreadError
        /\ ~was.m_StoppingInProgress => was'.m_ExitWorkLoop = was.m_ExitWorkLoop
    BY <2>1, PoolChangesStop
  <2>3. main = "Walk" /\ workQueue' = workQueue
    BY <1>4 DEF ShutdownWorkerProcess, ShutdownAppPoolDone
  <2> QED
    BY <1>0, <2>2, <2>3, StopFrame
<1>5. ASSUME InetinfoWorkerGone
      PROVE  StopInv'
  <2>1. PICK ap :
          was' = [was EXCEPT !.m_hrToReportToSCM = TRUE, !.m_ExitWorkLoop = @ \/ ShutdownDone(ap)]
    BY <1>5, Zenon DEF InetinfoWorkerGone
  <2>2. ~was.m_StoppingInProgress => ~ShutdownDone(ap)
    BY DEF ControlInv, EndInv, ShutdownDone
  <2>3. /\ was'.m_StoppingInProgress = was.m_StoppingInProgress
        /\ was'.m_SecondaryThreadError = was.m_SecondaryThreadError
        /\ was'.m_ExitWorkLoop = (was.m_ExitWorkLoop \/ ShutdownDone(ap))
        /\ was.m_ExitWorkLoop \in BOOLEAN
    BY <1>0, <2>1, Zenon DEF Flags
  <2> QED
    BY <1>0, <1>5, <2>2, <2>3, StopFrame DEF InetinfoWorkerGone
<1>6. ASSUME InitializeOther \/ TerminateUl
      PROVE  StopInv'
  BY <1>0, <1>6, StopFrame DEF InitializeOther, TerminateUl
<1>7. ASSUME StopServiceWorkItem
      PROVE  StopInv'
  <2>1. /\ workQueue'.m_DeletePending = workQueue.m_DeletePending
        /\ workQueue.items # <<>> /\ Head(workQueue.items) = "Stop"
        /\ main \in {"Loop", "Drain"}
    BY <1>7, DispatchEffect DEF StopServiceWorkItem, Dispatch
  <2>2. workQueue.items \notin Seq({"Start", "Pause", "Continue"})
    BY <2>1, HeadTailProperties
  <2>3. status.state = "STOP_PENDING" /\ main # "Done"
    BY <2>1, <2>2 DEF StopInv, NoStop
  <2>4. was'.m_SecondaryThreadError = was.m_SecondaryThreadError
    BY <1>0, <1>7, Zenon DEF StopServiceWorkItem, Flags
  <2> QED
    BY <1>0, <2>1, <2>3, <2>4 DEF StopInv, Quiet
<1> QED
  BY <1>1, <1>2, <1>3, <1>4, <1>5, <1>6, <1>7, Zenon DEF PoolStep

LEMMA OtherKeepsStop ==
  ASSUME Faults = {}, ServiceInv, ControlInv, StopInv, OtherStep
  PROVE  StopInv'
<1>0. /\ was \in Flags /\ workQueue \in Queues /\ call \in [Threads -> Places] /\ status' = status
      /\ "scm" \in Threads /\ "monitor" \in Threads /\ "main" \in Threads
      /\ main = "Done" <=> main' = "Done"
  BY OtherFrame, EndFrame DEF ServiceInv, ThreadType, Threads, statusVars
<1>1. ASSUME InitializeOtherFails \/ WorkItemFails \/ InetinfoWorkerFails \/ InetinfoCrashes
      PROVE  FALSE
  BY <1>1 DEF InitializeOtherFails, WorkItemFails, InetinfoWorkerFails, InetinfoCrashes
<1>2. ASSUME PauseServiceWorkItem \/ ContinueServiceWorkItem
      PROVE  StopInv'
  <2>1. /\ workQueue'.items = Tail(workQueue.items) /\ workQueue.items # <<>>
        /\ workQueue'.m_DeletePending = workQueue.m_DeletePending
    BY <1>2, DispatchEffect DEF PauseServiceWorkItem, ContinueServiceWorkItem, Dispatch
  <2>2. UNCHANGED <<was, call, control>>
    BY <1>2 DEF PauseServiceWorkItem, ContinueServiceWorkItem, elsewhere
  <2>3. NoStop => NoStop'
    BY <2>1, <2>2, HeadTailProperties DEF NoStop
  <2> QED
    BY <1>0, <2>1, <2>2, <2>3 DEF StopInv, Quiet
<1>3. ASSUME ShutdownWalkDone
      PROVE  StopInv'
  <2>1. /\ was'.m_StoppingInProgress = was.m_StoppingInProgress
        /\ was'.m_SecondaryThreadError = was.m_SecondaryThreadError
        /\ was'.m_ExitWorkLoop = (was.m_ExitWorkLoop \/ ShutdownDone(appPool))
        /\ was.m_ExitWorkLoop \in BOOLEAN
    BY <1>0, <1>3, Zenon DEF ShutdownWalkDone, Flags
  <2>2. ~was.m_StoppingInProgress => ~ShutdownDone(appPool)
    BY DEF ControlInv, EndInv, ShutdownDone
  <2> QED
    BY <1>0, <1>3, <2>1, <2>2, StopFrame DEF ShutdownWalkDone, elsewhere
<1>4. ASSUME CheckSecondary
      PROVE  StopInv'
  <2>1. ~was.m_SecondaryThreadError
    BY <1>4 DEF CheckSecondary, StopInv, ControlInv, EndInv, Terminal, Finishes
  <2> QED
    BY <1>0, <1>4, <2>1, StopFrame DEF CheckSecondary, elsewhere
<1>5. ASSUME ExitWorkLoop
      PROVE  StopInv'
  <2>1. status.state = "STOP_PENDING" /\ main # "Done"
    BY <1>5 DEF ExitWorkLoop, StopInv, NoStop
  <2>2. was'.m_SecondaryThreadError = was.m_SecondaryThreadError
    BY <1>0, <1>5, Zenon DEF ExitWorkLoop, Flags
  <2> QED
    BY <1>0, <1>5, <2>1, <2>2 DEF ExitWorkLoop, elsewhere, StopInv, Quiet
<1>6. ASSUME TerminateConfig
      PROVE  StopInv'
  <2>1. workQueue'.items = workQueue.items /\ workQueue'.m_DeletePending = TRUE
    BY <1>0, <1>6, Zenon DEF TerminateConfig, Queues
  <2> QED
    BY <1>0, <1>6, <2>1, StopFrame DEF TerminateConfig
<1>7. ASSUME DrainDone \/ InetinfoRegistered
      PROVE  StopInv'
  BY <1>0, <1>7, StopFrame DEF DrainDone, InetinfoRegistered, elsewhere
<1>8. ASSUME NEW c \in Controls, ScmSends(c)
      PROVE  StopInv'
  <2>1. /\ status.controls /\ status.state # "STOPPED" /\ UNCHANGED <<main, was, workQueue>>
        /\ call'["monitor"] = call["monitor"] /\ call'["main"] = call["main"]
        /\ call'["scm"] \in {"Check", "Begin"}
    BY <1>0, <1>8 DEF ScmSends
  <2>2. status.state # "STOP_PENDING" /\ main # "Done" /\ NoStop
    BY <2>1 DEF StopInv
  <2>3. NoStop'
    BY <2>1, <2>2 DEF NoStop
  <2> QED
    BY <1>0, <2>1, <2>2, <2>3 DEF StopInv
<1>9. ASSUME ScmReturns
      PROVE  StopInv'
  <2>1. /\ UNCHANGED <<main, was, workQueue>> /\ call'["scm"] = "None"
        /\ call'["monitor"] = call["monitor"] /\ call'["main"] = call["main"]
    BY <1>0, <1>9 DEF ScmReturns
  <2>2. NoStop => NoStop'
    BY <2>1 DEF NoStop
  <2> QED
    BY <1>0, <2>1, <2>2 DEF StopInv, Quiet
<1>10. ASSUME NEW t \in Threads, RequestStopService(t)
       PROVE  StopInv'
  <2>1. /\ UNCHANGED <<main, was, workQueue, control>> /\ call[t] = "Check" /\ t = "scm"
        /\ call'["scm"] \in {"None", "Begin"}
        /\ call'["monitor"] = call["monitor"] /\ call'["main"] = call["main"]
    BY <1>0, <1>10 DEF RequestStopService, StopInv, Threads
  <2>2. status.state # "STOP_PENDING" /\ main # "Done" /\ NoStop
    BY <2>1 DEF StopInv, Quiet
  <2>3. NoStop'
    BY <2>1, <2>2 DEF NoStop
  <2> QED
    BY <1>0, <2>1, <2>2, <2>3 DEF StopInv
<1>11. ASSUME NEW t \in Threads, QueueRequest(t)
       PROVE  StopInv'
  <2>1. /\ UNCHANGED <<main, control>> /\ call[t] = "Queue" /\ t = "scm" /\ call'["scm"] = "None"
        /\ call'["monitor"] = call["monitor"] /\ call'["main"] = call["main"]
    BY <1>0, <1>11 DEF QueueRequest, StopInv, Threads
  <2>2. CASE workQueue.m_DeletePending
    <3>1. /\ workQueue' = workQueue
          /\ was'.m_StoppingInProgress = was.m_StoppingInProgress
          /\ was'.m_ExitWorkLoop = was.m_ExitWorkLoop
      BY <1>0, <1>11, <2>2, Zenon DEF QueueRequest, Flags
    <3>2. NoStop => NoStop'
      BY <2>1, <3>1 DEF NoStop
    <3> QED
      BY <1>0, <2>1, <2>2, <3>1, <3>2 DEF StopInv, Quiet
  <2>3. CASE ~workQueue.m_DeletePending
    <3>1. was' = was /\ workQueue' = [workQueue EXCEPT !.items = Append(workQueue.items, control)]
      BY <1>11, <2>1, <2>3 DEF QueueRequest, Requested
    <3>2. /\ workQueue'.items = Append(workQueue.items, control)
          /\ workQueue'.m_DeletePending = workQueue.m_DeletePending
      BY <1>0, <3>1, Zenon DEF Queues
    <3>3. control \in {"Stop", "Pause", "Continue"}
      BY <2>1, RequestedType DEF Requested, ServiceInv
    <3>4. NoStop => NoStop'
      <4> SUFFICES ASSUME NoStop PROVE NoStop'
        OBVIOUS
      <4>1. control \in {"Start", "Pause", "Continue"}
        BY <2>1, <3>3 DEF NoStop
      <4>2. workQueue'.items \in Seq({"Start", "Pause", "Continue"})
        BY <3>2, <4>1, AppendProperties DEF NoStop
      <4> QED
        BY <2>1, <3>1, <4>2 DEF NoStop
    <3> QED
      BY <1>0, <2>1, <3>1, <3>2, <3>4 DEF StopInv, Quiet
  <2> QED
    BY <2>2, <2>3
<1> QED
  BY <1>1, <1>2, <1>3, <1>4, <1>5, <1>6, <1>7, <1>8, <1>9, <1>10, <1>11, Zenon DEF OtherStep

LEMMA StopInvStep ==
  ASSUME Faults = {}, ServiceInv, ControlInv, StopInv, [Next]_vars
  PROVE  StopInv'
<1>1. CASE UNCHANGED vars
  BY <1>1 DEF vars, serviceVars, StopInv, NoStop, Quiet
<1> QED
  BY <1>1, StatusKeepsStop, PoolKeepsStop, OtherKeepsStop, Steps

LEMMA EndInvInit == Init => EndedQuiet /\ StopInv
<1> SUFFICES ASSUME Init PROVE EndedQuiet /\ StopInv
  OBVIOUS
<1>1. <<"Start">> \in Seq({"Start", "Pause", "Continue"})
  OBVIOUS
<1> QED
  BY <1>1 DEF Init, EndedQuiet, StopInv, NoStop, Quiet, Threads

\* The states the service reports are those of a service: a pending state ends as
\* announced or in a stop, a stop is not taken back and STOPPED is the last state
\* (BeginStateTransition, FinishStateTransition, TerminateServiceAndReportFinalStatus),
\* if nothing fails, and if the controller sends nothing.
THEOREM Refinement ==
  ASSUME Controls = {} \/ Faults = {}
  PROVE  Spec => ImplementsScmService
<1>1. Init => Scm!Init
  BY DEF Init, Scm!Init, scmState
<1>2. ServiceInv /\ ControlInv /\ EndedQuiet /\ [Next]_vars => [Scm!Next]_scmState
  BY RefineStep DEF vars, ulVars, serviceVars, scmState
<1>3. CASE Controls = {}
  <2>1. ServiceInv /\ ControlInv /\ EndedQuiet /\ [Next]_vars => EndedQuiet'
    BY <1>3, EndedQuietStep
  <2> QED
    BY <1>1, <1>2, <2>1, EndInvInit, ControlInvAlways, PTL DEF Spec, ImplementsScmService, Scm!Spec
<1>4. CASE Faults = {}
  <2>1. ServiceInv /\ ControlInv /\ StopInv /\ [Next]_vars => StopInv'
    BY <1>4, StopInvStep
  <2>2. StopInv => EndedQuiet
    BY StopEnded
  <2> QED
    BY <1>1, <1>2, <2>1, <2>2, EndInvInit, ControlInvAlways, PTL DEF Spec, ImplementsScmService, Scm!Spec
<1> QED
  BY <1>3, <1>4
=============================================================================
