------------------------------ MODULE AppPool -------------------------------
(***************************************************************************)
(* APP_POOL (was/dll/app_pool.cxx): starting worker processes on demand,   *)
(* replacing them, shutting them down, and rapid fail protection.          *)
(***************************************************************************)
EXTENDS WasState

\* WORKER_PROCESS::IsGoingAwaySoon, asked by the pool of each process it counts.
IsGoingAwaySoon(w) ==
  \/ wp[w].m_BeingReplaced
  \/ wp[w].m_State \in
       {"RegistrationPendingShutdownPending", "ShutdownPending", "DeletePending"}

GoingAwaySoon == {i \in DOMAIN list : IsGoingAwaySoon(list[i])}
SteadyStateProcessCount == Len(list) - Cardinality(GoingAwaySoon)

\* Mutant of IsOkToCreateWorkerProcess: the limit is off by one.
IsOkToCreateOneMore(count) ==
  pool.m_State = "Running" /\ count <= pool.m_MaxProcessesToLaunch

IsOkToCreateWorkerProcess(count) ==
  pool.m_State = "Running" /\ count < pool.m_MaxProcessesToLaunch

IsOkToReplaceWorkerProcess ==
  /\ pool.m_State = "Running"
  /\ pool.overlap
  /\ SteadyStateProcessCount <= pool.m_MaxProcessesToLaunch

\* WaitForDemandStartIfNeeded: the values m_WaitingForDemandStart may have
\* after it, given its value before and whether a process may be created.  A
\* wait that cannot be issued is logged and leaves the flag alone.
WaitForDemandStartIfNeeded(waiting, ok) ==
  IF ok /\ ~waiting THEN {~failed : failed \in MayFail("WaitForDemandStart")}
  ELSE {waiting}

\* WorkerProcessStartupAttemptDone: only a demand start re-arms the wait.
StartupAttemptDone(startReason, count) ==
  IF startReason = "DemandStart"
  THEN WaitForDemandStartIfNeeded(pool.m_WaitingForDemandStart,
                                  IsOkToCreateWorkerProcess(count))
  ELSE {pool.m_WaitingForDemandStart}

\* ResetStaggering picks up the configured maximum.
ResetStaggering(p) ==
  [p EXCEPT !.m_MaxProcessesToLaunch = p.maxProcesses, !.m_NumWPStarted = 0]

\* CreateWorkerProcess: the bookkeeping that staggers periodic restarts...
Staggered(p) ==
  LET q == IF list = <<>> THEN ResetStaggering(p) ELSE p
  IN [q EXCEPT !.m_NumWPStarted =
        IF q.m_MaxProcessesToLaunch <= 1 THEN q.m_MaxProcessesToLaunch
        ELSE IF @ < q.m_MaxProcessesToLaunch THEN @ + 1
        ELSE @]

\* ... and the WORKER_PROCESS constructor: the creator's reference passes to
\* the list, and a replacement holds a reference to the process it replaces.
NewWorkerProcess(startReason, old) ==
  [NoObject EXCEPT !.m_State = "Uninitialized", !.m_RefCount = 1,
                   !.m_StartReason = startReason,
                   !.m_pWorkerProcessToReplace = old]

\* Mutant of Constructed: the replacement takes no reference.
ConstructedUnreferenced(new, startReason, old) ==
  [wp EXCEPT ![new] = NewWorkerProcess(startReason, old)]

Constructed(new, startReason, old) ==
  LET tbl == [wp EXCEPT ![new] = NewWorkerProcess(startReason, old)]
  IN IF old = NoWP THEN tbl ELSE Referenced(tbl, old)

\* Memory is reused when neither the object nor a message to its former
\* MESSAGING_HANDLER remains.  WP running out stands for "new" returning NULL.
FreeMemory ==
  {w \in WP : wp[w].m_State = "Free" /\ \A i \in DOMAIN queue : queue[i].w # w}
AllocationMayFail == FreeMemory = {} \/ "Allocate" \in Failures

-----------------------------------------------------------------------------
(***************************************************************************)
(* Calls made on the pool by worker processes and by itself.               *)
(***************************************************************************)

\* Mutant of RapidFailStop: the limit is off by one.
RapidFailStopLate(recent) ==
  IF recent > MaxCrashes THEN <<Call("DisableAppPool", NoWP)>> ELSE <<>>

\* More failures than rapid fail protection allows stop the pool.
RapidFailStop(recent) ==
  IF recent >= MaxCrashes THEN <<Call("DisableAppPool", NoWP)>> ELSE <<>>

\* ReportWorkerProcessFailure.  Whether the failure window has passed depends
\* on the clock.  The count saturates at MaxCrashes, the value it is compared
\* with.
ReportFailure ==
  /\ Calling("ReportFailure")
  /\ LET regardless == wp[This].m_TerminallyIllShutdownRegardless IN
     \/ /\ regardless
        /\ Return(<<Call("DisableAppPool", NoWP)>>)
        /\ UNCHANGED pool
     \/ /\ ~regardless /\ RapidFailProtection
        /\ \E windowPassed \in BOOLEAN :
             LET before == IF windowPassed THEN 0
                           ELSE pool.m_RecentWorkerProcessFailures
                 recent == IF before < MaxCrashes THEN before + 1 ELSE MaxCrashes
             IN /\ pool' = [pool EXCEPT !.m_RecentWorkerProcessFailures = recent]
                /\ Return(RapidFailStop(recent))
     \/ /\ ~regardless /\ ~RapidFailProtection
        /\ Return(<<>>)
        /\ UNCHANGED pool
  /\ UNCHANGED <<wp, list, queue>>

\* Mutant of DisableAppPool: the processes are not told.
DisableAppPoolOnly ==
  /\ Calling("DisableAppPool")
  /\ Return(IF pool.m_State = "Running" THEN <<Call("DisableTail", NoWP)>> ELSE <<>>)
  /\ UNCHANGED <<wp, pool, list, queue>>

\* DisableAppPool: every process is told to shut down first, and only then
\* does the pool leave the Running state.
DisableAppPool ==
  /\ Calling("DisableAppPool")
  /\ IF pool.m_State = "Running"
     THEN Return(WalkFrom("ShutdownAll", FirstEntry) \o <<Call("DisableTail", NoWP)>>)
     ELSE Return(<<>>)
  /\ UNCHANGED <<wp, pool, list, queue>>

DisableTail ==
  /\ Calling("DisableTail")
  /\ pool' = [pool EXCEPT !.m_State = "Disabled"]
  /\ Return(<<>>)
  /\ UNCHANGED <<wp, list, queue>>

\* ShutdownAllWorkerProcesses, one turn of its loop.  The next entry is read
\* before the call.  A walk that has been led to NULL stops here, where the
\* program fails; PointersValid says when that cannot happen.
ShutdownAllWorkerProcesses ==
  /\ Calling("ShutdownAll")
  /\ IF This \in WP
     THEN Return(<<Call("Shutdown", This)>> \o WalkFrom("ShutdownAll", Flink(This)))
     ELSE Return(<<>>)
  /\ UNCHANGED <<wp, pool, list, queue>>

\* ReplaceAllWorkerProcesses, one turn of its loop.
ReplaceAllWorkerProcesses ==
  /\ Calling("ReplaceAll")
  /\ IF This \in WP
     THEN Return(<<Call("InitiateReplacement", This)>> \o WalkFrom("ReplaceAll", Flink(This)))
     ELSE Return(<<>>)
  /\ UNCHANGED <<wp, pool, list, queue>>

\* HandleConfigChangeAffectingWorkerProcesses, the last call of SetConfiguration.
HandleConfigChange ==
  /\ Calling("ConfigChange")
  /\ IF pool.rotate
     THEN /\ pool' = ResetStaggering(pool)
          /\ Return(WalkFrom("ReplaceAll", FirstEntry))
     ELSE Return(<<>>) /\ UNCHANGED pool
  /\ UNCHANGED <<wp, list, queue>>

\* CheckIfShutdownUnderwayAndNowCompleted
ShutdownNowCompleted(remaining) ==
  IF pool.m_State = "ShutdownPending" /\ remaining = <<>>
  THEN <<Call("PoolTerminate", NoWP)>> ELSE <<>>

CheckShutdown ==
  /\ Calling("CheckShutdown")
  /\ Return(ShutdownNowCompleted(list))
  /\ UNCHANGED <<wp, pool, list, queue>>

\* Terminate, and its loop over the processes that remain.
PoolTerminate ==
  /\ Calling("PoolTerminate")
  /\ pool' = [pool EXCEPT !.m_State = "DeletePending"]
  /\ Return(<<Call("TerminateAll", NoWP)>>)
  /\ UNCHANGED <<wp, list, queue>>

TerminateAll ==
  /\ Calling("TerminateAll")
  /\ IF list # <<>>
     THEN Return(<<Call("Terminate", list[1]), Call("TerminateAll", NoWP)>>)
     ELSE Return(<<>>)
  /\ UNCHANGED <<wp, pool, list, queue>>

AppPoolCall ==
  \/ ReportFailure \/ DisableAppPool \/ DisableTail
  \/ ShutdownAllWorkerProcesses \/ ReplaceAllWorkerProcesses
  \/ HandleConfigChange \/ CheckShutdown \/ PoolTerminate \/ TerminateAll

-----------------------------------------------------------------------------
(***************************************************************************)
(* Work items that reach the pool directly.                                *)
(***************************************************************************)

\* Mutant of Enable: the room is computed before the new maximum is picked up.
EnableBeforeReset(p) ==
  {[ResetStaggering(p) EXCEPT !.m_State = "Running", !.m_RecentWorkerProcessFailures = 0,
                              !.m_WaitingForDemandStart = waits] :
     waits \in WaitForDemandStartIfNeeded(p.m_WaitingForDemandStart,
                                          Len(list) < p.m_MaxProcessesToLaunch)}

\* EnableAppPool, from ProcessStateChangeCommand( START ).
Enable(p) ==
  LET q == [ResetStaggering(p) EXCEPT !.m_RecentWorkerProcessFailures = 0]
  IN {q : failed \in MayFail("EnableHttp") \cap {TRUE}}
     \cup {[q EXCEPT !.m_State = "Running", !.m_WaitingForDemandStart = waits] :
            waits \in WaitForDemandStartIfNeeded(p.m_WaitingForDemandStart,
                        Len(list) < q.m_MaxProcessesToLaunch)}

\* ProcessStateChangeCommand( START ): ignored unless the pool is stopped, and
\* unless AutoStart is set, which a direct command has just done.
Started(p) ==
  IF p.m_State \in {"Uninitialized", "Disabled"} /\ p.autoStart
  THEN Enable(p) ELSE {p}

\* The constructor, and Initialize: a pool starts as its configuration says.
ConstructedPools ==
  [m_State: {"Uninitialized"}, m_WaitingForDemandStart: {FALSE},
   m_MaxProcessesToLaunch: {0}, m_NumWPStarted: {0},
   m_RecentWorkerProcessFailures: {0}, maxProcesses: MaxProcessesSettings,
   overlap: OverlapSettings, rotate: RotateSettings, autoStart: BOOLEAN]
InitializedPools == UNION {Started(p) : p \in ConstructedPools}

\* A deleted pool of which nothing remains may be created again.
CreatePool ==
  /\ Idle
  /\ pool.m_State = "DeletePending" /\ ~pool.m_WaitingForDemandStart
  /\ queue = <<>> /\ \A w \in WP : wp[w].m_State = "Free"
  /\ pool' \in InitializedPools
  /\ UNCHANGED <<wp, list, queue, stack>>

\* The commands that flow to the pool: START when the job object's interval
\* ends, STOP when the job object's CPU limit is hit.  When that is depends on
\* the job object, which is left open: its commands come at any time.
FlowedStart ==
  /\ "JobObject" \in Events /\ Idle
  /\ pool.m_State = "Disabled"
  /\ pool' \in Started(pool)
  /\ UNCHANGED <<wp, list, queue, stack>>

FlowedStop ==
  /\ "JobObject" \in Events /\ Idle
  /\ pool.m_State = "Running"
  /\ stack' = <<Call("DisableAppPool", NoWP)>>
  /\ UNCHANGED <<wp, pool, list, queue>>

\* SetConfiguration: the new configuration is installed, then a command in it
\* is obeyed (and remembered as AutoStart), and last, if it changes a property
\* that affects worker processes, they are rotated.
SetConfiguration ==
  /\ "Configure" \in Events /\ Idle
  /\ pool.m_State # "DeletePending"
  /\ \E n \in MaxProcessesSettings, o \in OverlapSettings, r \in RotateSettings,
        cmd \in {"none", "START", "STOP"}, other \in BOOLEAN :
       LET p == [pool EXCEPT !.maxProcesses = n, !.overlap = o, !.rotate = r,
                             !.autoStart = IF cmd = "none" THEN @ ELSE cmd = "START"]
           stop == IF cmd = "STOP" /\ pool.m_State = "Running"
                   THEN <<Call("DisableAppPool", NoWP)>> ELSE <<>>
           rotate == IF other \/ n # pool.maxProcesses
                     THEN <<Call("ConfigChange", NoWP)>> ELSE <<>>
       IN /\ pool' \in (IF cmd = "START" THEN Started(p) ELSE {p})
          /\ stack' = stop \o rotate
  /\ UNCHANGED <<wp, list, queue>>

\* RecycleWorkerProcesses, on an administrator's request.
RecycleWorkerProcesses ==
  /\ "Recycle" \in Events /\ Idle
  /\ pool.m_State = "Running"
  /\ pool' = ResetStaggering(pool)
  /\ stack' = WalkFrom("ReplaceAll", FirstEntry)
  /\ UNCHANGED <<wp, list, queue>>

\* Shutdown, when the service stops.
PoolShutdown ==
  /\ "ServiceStop" \in Events /\ Idle
  /\ pool.m_State \notin {"ShutdownPending", "DeletePending"}
  /\ pool' = [pool EXCEPT !.m_State = "ShutdownPending"]
  /\ stack' = WalkFrom("ShutdownAll", FirstEntry) \o <<Call("CheckShutdown", NoWP)>>
  /\ UNCHANGED <<wp, list, queue>>

\* Deleting the pool, or stopping the service rudely: Terminate at any time.
DeletePool ==
  /\ "DeletePool" \in Events /\ Idle
  /\ pool.m_State # "DeletePending"
  /\ stack' = <<Call("PoolTerminate", NoWP)>>
  /\ UNCHANGED <<wp, pool, list, queue>>

\* The outstanding HttpWaitForDemandStart completes (or is aborted).
DemandArrives ==
  /\ Idle
  /\ pool.m_WaitingForDemandStart
  /\ \A i \in DOMAIN queue : queue[i].op # "DemandStart"
  /\ Enqueue(Item("DemandStart", NoWP))
  /\ UNCHANGED <<wp, pool, list, stack>>

\* DemandStartWorkItem and the CreateWorkerProcess it makes.
DemandStart ==
  /\ Take("DemandStart")
  /\ \/ /\ ~IsOkToCreateWorkerProcess(Len(list))
        /\ pool' = [pool EXCEPT !.m_WaitingForDemandStart = FALSE]
        /\ UNCHANGED <<wp, list, stack>>
     \/ /\ IsOkToCreateWorkerProcess(Len(list))
        /\ \E new \in FreeMemory :
             /\ pool' = [Staggered(pool) EXCEPT !.m_WaitingForDemandStart = FALSE]
             /\ wp' = Constructed(new, "DemandStart", NoWP)
             /\ list' = <<new>> \o list
             /\ stack' = <<Call("Initialize", new)>>
     \/ /\ IsOkToCreateWorkerProcess(Len(list)) /\ AllocationMayFail
        /\ LET p == Staggered(pool) IN
           \E waits \in WaitForDemandStartIfNeeded(FALSE,
                          Len(list) < p.m_MaxProcessesToLaunch) :
             pool' = [p EXCEPT !.m_WaitingForDemandStart = waits]
        /\ UNCHANGED <<wp, list, stack>>

AppPoolEvent ==
  \/ FlowedStart \/ FlowedStop \/ SetConfiguration \/ RecycleWorkerProcesses
  \/ PoolShutdown \/ DeletePool \/ CreatePool \/ DemandArrives
=============================================================================
