---------------------------- MODULE WorkerProcess ----------------------------
(***************************************************************************)
(* WORKER_PROCESS (was/dll/worker_process.cxx): the lifecycle of one worker *)
(* process as the main worker thread sees it.                              *)
(***************************************************************************)
EXTENDS AppPool

\* The process handle is signalled once the process has ended.
Ended(w) == wp[w].process.phase \in {"exited", "crashed", "killed"}
LivePhases == {"created", "connected", "serving", "failed"}
Alive(w) == wp[w].process.phase \in LivePhases

\* A message sent to the process.  SendMessage hides the errors of a broken
\* pipe, so sending to a process that is gone succeeds and does nothing.
Sent(msg, p) ==
  IF p.pipe = "open" /\ p.phase \in LivePhases
  THEN [p EXCEPT !.inbox = p.inbox \cup {msg}] ELSE p

-----------------------------------------------------------------------------
(***************************************************************************)
(* Methods.                                                                *)
(***************************************************************************)
\* The outcomes of Initialize: the first of its steps that fails, or "ok".
InitializeSteps ==
  {"WorkerProcessToken", "MessagingHandler", "AlterDesktop", "StartProcess",
   "ProcessWait", "StartupTimer"}
InitializeOutcomes == (InitializeSteps \cap Failures) \cup {"ok"}

\* A failure makes the process terminally ill.
InitializeDone(w, outcome) ==
  CASE outcome = "ok"           -> <<>>
    [] outcome = "StartProcess" -> <<Ill(w, "CreateProcessFailed")>>
    [] OTHER                    -> <<Ill(w, "InternalError")>>

Initialized(r, outcome) ==
  LET attached == outcome \notin {"WorkerProcessToken", "MessagingHandler"}
      started  == outcome \in {"ProcessWait", "StartupTimer", "ok"}
      waiting  == outcome \in {"StartupTimer", "ok"}
  IN [r EXCEPT
        !.m_State = IF outcome = "ok" THEN "RegistrationPending" ELSE r.m_State,
        !.m_TerminallyIllShutdownRegardless = (outcome = "WorkerProcessToken"),
        !.m_pMessagingHandler = IF attached THEN "attached"
                                ELSE IF outcome = "MessagingHandler" THEN "detached"
                                ELSE "NULL",
        !.m_RefCount = IF attached THEN r.m_RefCount + 1 ELSE r.m_RefCount,
        !.m_ProcessAlive = started,
        !.handle = [NoHandles EXCEPT !["Process"] = IF waiting THEN "armed" ELSE "NULL",
                                     !["Startup"] = IF outcome = "ok" THEN "armed" ELSE "NULL"],
        !.process = [NoProcess EXCEPT !.phase = IF started THEN "created" ELSE "none",
                                      !.pipe = IF attached THEN "open" ELSE "none"]]

Initialize ==
  /\ Calling("Initialize")
  /\ \E outcome \in InitializeOutcomes :
       /\ wp' = [wp EXCEPT ![This] = Initialized(wp[This], outcome)]
       /\ Return(InitializeDone(This, outcome))
  /\ UNCHANGED <<pool, list, queue>>

\* Shutdown and InitiateProcessShutdown.  The state changes before the message
\* is sent; a failure to send it or to start the timer makes the process ill.
\* Shutdown holds a reference of its own across that call.
ShutdownOutcomes == {"ok"} \cup ({"SendShutdown", "ShutdownTimer"} \cap Failures)

\* Mutant of ShutdownBegun: the shutdown timer is not started.
ShutdownBegunUntimed(r, outcome) ==
  [r EXCEPT !.m_State = "ShutdownPending",
            !.process = IF outcome = "SendShutdown" THEN r.process
                        ELSE Sent("Shutdown", r.process)]

ShutdownBegun(r, outcome) ==
  [r EXCEPT !.m_State = "ShutdownPending",
            !.handle = IF outcome = "ok" THEN [r.handle EXCEPT !["Shutdown"] = "armed"]
                       ELSE r.handle,
            !.process = IF outcome = "SendShutdown" THEN r.process
                        ELSE Sent("Shutdown", r.process)]

\* Mutant of ShutdownFailed: an early return skips Dereference.
ShutdownFailedLeaking(w) == <<Ill(w, "InternalError")>>

ShutdownFailed(w) == <<Ill(w, "InternalError"), Call("Dereference", w)>>

Shutdown ==
  /\ Calling("Shutdown")
  /\ LET w == This IN
     \/ /\ wp[w].m_State = "RegistrationPending"
        /\ wp' = [wp EXCEPT ![w].m_State = "RegistrationPendingShutdownPending"]
        /\ Return(<<>>)
     \/ /\ wp[w].m_State = "Running"
        /\ \E outcome \in ShutdownOutcomes :
             LET tbl == [wp EXCEPT ![w] = ShutdownBegun(wp[w], outcome)]
             IN IF outcome = "ok"
                THEN wp' = tbl /\ Return(<<>>)
                ELSE wp' = Referenced(tbl, w) /\ Return(ShutdownFailed(w))
     \/ /\ wp[w].m_State \notin {"RegistrationPending", "Running"}
        /\ Return(<<>>)
        /\ UNCHANGED wp
  /\ UNCHANGED <<pool, list, queue>>

Dereference ==
  /\ Calling("Dereference")
  /\ wp' = Dereferenced(wp, This)
  /\ Return(<<>>)
  /\ UNCHANGED <<pool, list, queue>>

\* CheckIfDebuggerMakesWPHealthy, apart from asking for the debugger.
DebuggerMatters(w, why) ==
  /\ DebuggerMayAttach /\ ~Orphaning
  /\ wp[w].m_Registered /\ wp[w].m_ProcessAlive
  /\ why \in {"PingFailure", "StartupTookTooLong", "ShutdownTookTooLong"}

MarkAsTerminallyIll ==
  /\ Calling("MarkAsTerminallyIll")
  /\ LET w   == This
         why == Head(stack).why
         ignored == \/ wp[w].m_TerminalIllReason # "NotIll"
                    \/ wp[w].m_IgnoredPingDueToDebugger /\ why = "PingFailure"
     IN \/ /\ ignored
           /\ Return(<<>>)
           /\ UNCHANGED wp
        \/ /\ ~ignored
           /\ ~wp[w].m_TerminallyIllShutdownRegardless
           /\ DebuggerMatters(w, why)
           /\ wp' = [wp EXCEPT ![w].m_IgnoredPingDueToDebugger =
                       wp[w].m_IgnoredPingDueToDebugger \/ why = "PingFailure"]
           /\ Return(<<>>)
        \/ /\ ~ignored
           /\ wp' = [wp EXCEPT ![w].m_TerminalIllReason = why]
           /\ Return(<<Call("ReportFailure", w), Call("Terminate", w)>>)
  /\ UNCHANGED <<pool, list, queue>>

\* Mutant of Terminated: the send ping timer is not cancelled.
TerminatedTimed(r) ==
  [r EXCEPT !.m_State = "DeletePending",
            !.handle = [NoHandles EXCEPT !["SendPing"] = r.handle["SendPing"]],
            !.m_RefCount = IF r.m_pMessagingHandler = "attached" THEN r.m_RefCount - 1
                           ELSE r.m_RefCount,
            !.m_pMessagingHandler = "NULL",
            !.m_ProcessAlive = FALSE,
            !.process = [r.process EXCEPT !.pipe = "none"]]

\* KillProcess, where the process goes: it is killed, or orphaned when it is ill
\* and the pool keeps ill processes for debugging.
KillProcess(r) ==
  IF Orphaning /\ r.m_TerminalIllReason # "NotIll" THEN "orphaned"
  ELSE IF r.process.phase \in LivePhases THEN "killed"
  ELSE r.process.phase

\* Terminate up to the call on the process it replaces: timers and the wait
\* are cancelled, the messaging handler lets go, and KillProcess if need be.
Terminated(r) ==
  [r EXCEPT !.m_State = "DeletePending",
            !.handle = NoHandles,
            !.m_RefCount = IF r.m_pMessagingHandler = "attached" THEN r.m_RefCount - 1
                           ELSE r.m_RefCount,
            !.m_pMessagingHandler = "NULL",
            !.m_ProcessAlive = FALSE,
            !.process =
              [phase |-> IF r.m_ProcessAlive THEN KillProcess(r) ELSE r.process.phase,
               inbox |-> {}, pipe |-> "none"]]

\* Mutant of ReleasePredecessor: the process to replace is not shut down.
ReleasePredecessorQuietly(w) ==
  IF wp[w].m_pWorkerProcessToReplace = NoWP THEN <<>> ELSE <<Call("DropPredecessor", w)>>

\* The process to replace is told to shut down and let go of.
ReleasePredecessor(w) ==
  IF wp[w].m_pWorkerProcessToReplace = NoWP THEN <<>>
  ELSE <<Call("Shutdown", wp[w].m_pWorkerProcessToReplace), Call("DropPredecessor", w)>>

Terminate ==
  /\ Calling("Terminate")
  /\ LET w == This IN
     IF wp[w].m_State = "DeletePending"
     THEN Return(<<>>) /\ UNCHANGED wp
     ELSE /\ wp' = [wp EXCEPT ![w] = Terminated(wp[w])]
          /\ Return(ReleasePredecessor(w) \o <<Call("TerminateTail", w)>>)
  /\ UNCHANGED <<pool, list, queue>>

\* Terminate's last calls: WorkerProcessStartupAttemptDone, if it has not been
\* made, and RemoveWorkerProcessFromList, which also re-arms the demand start
\* and checks whether the pool was only waiting for this process to go.
WaitsAfterRemoval(waiting) ==
  WaitForDemandStartIfNeeded(waiting, IsOkToCreateWorkerProcess(Len(list) - 1))

TerminateTail ==
  /\ Calling("TerminateTail")
  /\ LET w == This IN
     /\ \E first \in IF wp[w].m_NotifiedAppPool THEN {pool.m_WaitingForDemandStart}
                     ELSE StartupAttemptDone(wp[w].m_StartReason, Len(list)) :
        \E waits \in WaitsAfterRemoval(first) :
          pool' = [pool EXCEPT !.m_WaitingForDemandStart = waits]
     /\ list' = Unlinked(w)
     /\ wp' = Dereferenced([wp EXCEPT ![w].m_NotifiedAppPool = TRUE], w)
     /\ Return(ShutdownNowCompleted(Unlinked(w)))
  /\ UNCHANGED queue

\* m_pWorkerProcessToReplace->Dereference() and the pointer is cleared.
DropPredecessor ==
  /\ Calling("DropPredecessor")
  /\ LET w   == This
         old == wp[w].m_pWorkerProcessToReplace
     IN IF old = NoWP
        THEN UNCHANGED wp            \* a NULL dereference: PointersValid
        ELSE wp' = Dereferenced([wp EXCEPT ![w].m_pWorkerProcessToReplace = NoWP], old)
  /\ Return(<<>>)
  /\ UNCHANGED <<pool, list, queue>>

\* The end of WorkerProcessStartupSucceeded: the recycler's parameters are
\* sent and, when pinging is enabled, the first ping is scheduled.
StartupTailOutcomes ==
  {"ok"} \cup (Failures \cap {"RecyclerParameters"})
         \cup (IF Pinging THEN Failures \cap {"SendPingTimer"} ELSE {})

StartupTail ==
  /\ Calling("StartupTail")
  /\ LET w == This IN
     IF wp[w].m_pMessagingHandler = "NULL"
     THEN Return(<<>>) /\ UNCHANGED wp   \* a NULL dereference: PointersValid
     ELSE \E outcome \in StartupTailOutcomes :
            /\ wp' = IF outcome = "ok" /\ Pinging
                     THEN [wp EXCEPT ![w].handle["SendPing"] = "armed"] ELSE wp
            /\ Return(IF outcome = "ok" THEN <<>> ELSE <<Ill(w, "InternalError")>>)
  /\ UNCHANGED <<pool, list, queue>>

\* A process that may not or cannot be replaced is only shut down.
ReplacementRefused(w) == <<Call("Shutdown", w)>>

\* InitiateReplacement with the pool's RequestReplacementWorkerProcess and
\* CreateWorkerProcess.
InitiateReplacement ==
  /\ Calling("InitiateReplacement")
  /\ LET w == This IN
     \/ /\ wp[w].m_BeingReplaced
        /\ Return(<<>>)
        /\ UNCHANGED <<wp, pool, list>>
     \/ /\ ~wp[w].m_BeingReplaced /\ ~IsOkToReplaceWorkerProcess
        /\ Return(ReplacementRefused(w))
        /\ UNCHANGED <<wp, pool, list>>
     \/ /\ ~wp[w].m_BeingReplaced /\ IsOkToReplaceWorkerProcess
        /\ \E new \in FreeMemory :
             /\ pool' = Staggered(pool)
             /\ wp' = Constructed(new, "Replace", w)
             /\ list' = <<new>> \o list
             /\ Return(<<Call("Initialize", new), Call("MarkReplaced", w)>>)
     \/ /\ ~wp[w].m_BeingReplaced /\ IsOkToReplaceWorkerProcess /\ AllocationMayFail
        /\ pool' = Staggered(pool)
        /\ Return(ReplacementRefused(w))
        /\ UNCHANGED <<wp, list>>
  /\ UNCHANGED queue

\* InitiateReplacement's last assignment, after the replacement is initialized.
MarkReplaced ==
  /\ Calling("MarkReplaced")
  /\ IF wp[This].m_State = "Free"
     THEN UNCHANGED wp               \* a write to freed memory: PointersValid
     ELSE wp' = [wp EXCEPT ![This].m_BeingReplaced = TRUE]
  /\ Return(<<>>)
  /\ UNCHANGED <<pool, list, queue>>

WorkerProcessCall ==
  \/ Initialize \/ Shutdown \/ Dereference \/ MarkAsTerminallyIll \/ Terminate
  \/ TerminateTail \/ DropPredecessor \/ StartupTail \/ InitiateReplacement
  \/ MarkReplaced

-----------------------------------------------------------------------------
(***************************************************************************)
(* ExecuteWorkItem: the work items queued by the callbacks.  Each holds a  *)
(* reference, dropped when the item is freed.                              *)
(***************************************************************************)
TakeOwn(h) == Take(h) /\ UNCHANGED <<pool, list>>

\* Mutant of Done: the work item's reference is not dropped.
DoneLeaking(w, frames) == stack' = frames

Done(w, frames) == stack' = frames \o <<Call("Dereference", w)>>

\* Mutant of StartupPendingStates: a shutdown asked for meanwhile is forgotten.
OnlyRegistrationPending == {"RegistrationPending"}

\* The states in which a process is still subject to the startup time limit.
StartupPendingStates == {"RegistrationPending", "RegistrationPendingShutdownPending"}

StartupTimerExpired ==
  /\ TakeOwn("Startup")
  /\ LET w == Head(queue).w IN
     Done(w, IF wp[w].m_State \in StartupPendingStates
             THEN <<Ill(w, "StartupTookTooLong")>> ELSE <<>>)
  /\ UNCHANGED wp

ShutdownTimerExpired ==
  /\ TakeOwn("Shutdown")
  /\ LET w == Head(queue).w IN
     Done(w, IF wp[w].m_State = "ShutdownPending"
             THEN <<Ill(w, "ShutdownTookTooLong")>> ELSE <<>>)
  /\ UNCHANGED wp

\* SendPingWorkItem.  A failure is dealt with by ExecuteWorkItem.
SendPingOutcomes == {"ok"} \cup ({"SendPing", "PingResponseTimer"} \cap Failures)

PingSent(r, outcome) ==
  LET cancelled == [r.handle EXCEPT !["SendPing"] = "NULL"]
  IN [r EXCEPT !.m_AwaitingPingReply = r.m_AwaitingPingReply \/ outcome # "SendPing",
               !.handle = IF outcome = "ok"
                          THEN [cancelled EXCEPT !["PingResponse"] = "armed"]
                          ELSE cancelled,
               !.process = IF outcome = "SendPing" THEN r.process
                           ELSE Sent("Ping", r.process)]

SendPing ==
  /\ TakeOwn("SendPing")
  /\ LET w == Head(queue).w IN
     \/ /\ wp[w].m_State # "Running"
        /\ wp' = [wp EXCEPT ![w].handle["SendPing"] = "NULL"]
        /\ Done(w, <<>>)
     \/ /\ wp[w].m_State = "Running"
        /\ \E outcome \in SendPingOutcomes :
             /\ wp' = [wp EXCEPT ![w] = PingSent(wp[w], outcome)]
             /\ Done(w, IF outcome = "ok" THEN <<>> ELSE <<Ill(w, "InternalError")>>)

PingResponseTimerExpired ==
  /\ TakeOwn("PingResponse")
  /\ LET w == Head(queue).w IN
     /\ wp' = [wp EXCEPT ![w].handle["PingResponse"] = "NULL"]
     /\ Done(w, IF wp[w].m_State = "Running" /\ wp[w].m_AwaitingPingReply
                THEN <<Ill(w, "PingFailure")>> ELSE <<>>)

\* Mutant of ProcessEnded: only the expected exit is handled.
ProcessEndedExpectedly(w) ==
  IF wp[w].m_State = "ShutdownPending" /\ wp[w].process.phase = "exited"
  THEN <<Call("Terminate", w)>> ELSE <<>>

\* ProcessHandleSignaledWorkItem.  KILLED_WORKER_PROCESS_EXIT_CODE is set by
\* KillProcess only.
ProcessEnded(w) ==
  IF wp[w].process.phase = "killed" /\ wp[w].m_State = "DeletePending" THEN <<>>
  ELSE IF wp[w].m_State = "ShutdownPending" /\ wp[w].process.phase = "exited"
  THEN <<Call("Terminate", w)>>
  ELSE <<Ill(w, "Crash")>>

ProcessHandleSignaled ==
  /\ TakeOwn("Process")
  /\ LET w == Head(queue).w IN
     /\ wp' = [wp EXCEPT ![w].m_ProcessAlive = FALSE]
     /\ Done(w, ProcessEnded(w))

WorkerProcessWorkItem ==
  \/ StartupTimerExpired \/ ShutdownTimerExpired \/ SendPing
  \/ PingResponseTimerExpired \/ ProcessHandleSignaled

-----------------------------------------------------------------------------
(***************************************************************************)
(* The callbacks themselves run on other threads and only queue an item.   *)
(* They are interleaved between work items: CancelTimer and                *)
(* DeregisterProcessWait wait for a running callback, and no call made     *)
(* while an item is executed looks at the queue or at whether an armed     *)
(* timer has fired, so a callback inside one could as well run after it.   *)
(***************************************************************************)
Callback(w, h) ==
  /\ Idle
  /\ wp[w].handle[h] = "armed"
  /\ h = "Process" => Ended(w)
  /\ wp' = Referenced([wp EXCEPT ![w].handle[h] = "fired"], w)
  /\ Enqueue(Item(h, w))
  /\ UNCHANGED <<pool, list, stack>>
=============================================================================
