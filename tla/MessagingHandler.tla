--------------------------- MODULE MessagingHandler ---------------------------
(***************************************************************************)
(* MESSAGING_HANDLER (was/dll/messaging_handler.cxx) and the methods of    *)
(* WORKER_PROCESS that answer the messages of the worker process.  The     *)
(* process at the other end of the pipe is external: it follows the IPM    *)
(* protocol, hangs or ends at any moment, and when Events lets it, it also *)
(* sends messages the protocol does not allow.                             *)
(***************************************************************************)
EXTENDS WorkerProcess

\* ExecuteWorkItem.  The item refers to the handler, which drops it when it no
\* longer points to a worker process.
TakeMessage(op) == Take(op) /\ wp[Head(queue).w].m_pMessagingHandler = "attached"
Sender == Head(queue).w

DropMessage ==
  /\ Idle /\ queue # <<>> /\ Head(queue).op \in PipeOps
  /\ wp[Head(queue).w].m_pMessagingHandler # "attached"
  /\ queue' = Tail(queue)
  /\ UNCHANGED <<wp, pool, list, stack>>

\* UntrustedIPMTransferReceived, and a shutdown request for no known reason.
HandleInvalid ==
  /\ TakeMessage("Invalid")
  /\ stack' = <<Ill(Sender, "Untrusted")>>
  /\ UNCHANGED <<wp, pool, list>>

\* WorkerProcessRegistrationReceived
HandleGetPid ==
  /\ TakeMessage("GetPid")
  /\ IF wp[Sender].m_Registered
     THEN stack' = <<Ill(Sender, "Untrusted")>> /\ UNCHANGED wp
     ELSE wp' = [wp EXCEPT ![Sender].m_Registered = TRUE] /\ UNCHANGED stack
  /\ UNCHANGED <<pool, list>>

\* HandleHresult with success, and WorkerProcessStartupSucceeded up to the
\* shutdown of the process this one replaces.  A shutdown asked for meanwhile
\* is begun now.
HandleHresultOk ==
  /\ TakeMessage("HresultOk")
  /\ LET w == Sender
         running == [wp[w] EXCEPT !.m_State = "Running",
                       !.handle = [wp[w].handle EXCEPT !["Startup"] = "NULL"]]
     IN \/ /\ wp[w].m_State = "RegistrationPendingShutdownPending"
           /\ wp' = [wp EXCEPT ![w] = running]
           /\ stack' = <<Call("Shutdown", w)>>
           /\ UNCHANGED pool
        \/ /\ wp[w].m_State = "RegistrationPending"
           /\ wp' = [wp EXCEPT ![w] = [running EXCEPT !.m_NotifiedAppPool = TRUE]]
           /\ \E waits \in StartupAttemptDone(wp[w].m_StartReason, Len(list)) :
                pool' = [pool EXCEPT !.m_WaitingForDemandStart = waits]
           /\ stack' = ReleasePredecessor(w) \o <<Call("StartupTail", w)>>
        \/ /\ wp[w].m_State \notin
                {"RegistrationPending", "RegistrationPendingShutdownPending"}
           /\ stack' = <<Ill(w, "Untrusted")>>
           /\ UNCHANGED <<wp, pool>>
  /\ UNCHANGED list

HandleHresultBad ==
  /\ TakeMessage("HresultBad")
  /\ stack' = <<Ill(Sender, "PassedBadHresult")>>
  /\ UNCHANGED <<wp, pool, list>>

\* Mutant of PingReplied: the deadline is not cancelled.
PingRepliedLate(r, failed) ==
  [r EXCEPT !.m_AwaitingPingReply = FALSE, !.m_IgnoredPingDueToDebugger = FALSE,
            !.handle = IF failed THEN r.handle
                       ELSE [r.handle EXCEPT !["SendPing"] = "armed"]]

\* PingReplyReceived: the deadline is cancelled and the next ping scheduled.
PingReplied(r, failed) ==
  [r EXCEPT !.m_AwaitingPingReply = FALSE, !.m_IgnoredPingDueToDebugger = FALSE,
            !.handle = [r.handle EXCEPT
                          !["PingResponse"] = "NULL",
                          !["SendPing"] = IF failed THEN r.handle["SendPing"] ELSE "armed"]]

HandlePingReply ==
  /\ TakeMessage("PingReply")
  /\ LET w == Sender IN
     \/ /\ ~wp[w].m_AwaitingPingReply
        /\ stack' = <<Ill(w, "Untrusted")>>
        /\ UNCHANGED wp
     \/ /\ wp[w].m_AwaitingPingReply
        /\ \E failed \in MayFail("SendPingTimer") :
             /\ wp' = [wp EXCEPT ![w] = PingReplied(wp[w], failed)]
             /\ stack' = IF failed THEN <<Ill(w, "InternalError")>> ELSE <<>>
  /\ UNCHANGED <<pool, list>>

\* ShutdownRequestReceived: ignored unless the process is running.
HandleShutdownRequest(op, frame) ==
  /\ TakeMessage(op)
  /\ stack' = IF wp[Sender].m_State = "Running" THEN <<frame>> ELSE <<>>
  /\ UNCHANGED <<wp, pool, list>>

HandleRecycleRequest ==
  HandleShutdownRequest("RequestRecycle", Call("InitiateReplacement", Sender))
HandleIdleRequest ==
  HandleShutdownRequest("RequestIdleShutdown", Call("Shutdown", Sender))
HandleUnknownRequest ==
  HandleShutdownRequest("RequestUnknown", Ill(Sender, "Untrusted"))

\* PipeDisconnectedMainThread and IpmErrorOccurred.  A broken pipe is expected
\* from a process that is shutting down, and an error from a process that has
\* ended is left to the wait on its handle.
HandleDisconnect(op) ==
  /\ TakeMessage(op)
  /\ LET w == Sender
         expected == wp[w].m_State = "ShutdownPending" /\ op = "BrokenPipe"
     IN stack' = (IF expected \/ Ended(w) THEN <<>> ELSE <<Ill(w, "IPMError")>>)
                 \o <<Call("DetachHandler", w)>>
  /\ UNCHANGED <<wp, pool, list>>

HandleBrokenPipe == HandleDisconnect("BrokenPipe")
HandleIpmFault == HandleDisconnect("IpmFault")

\* The handler lets go of the worker process unless Terminate made it do so.
DetachHandler ==
  /\ Calling("DetachHandler")
  /\ wp' = IF wp[This].m_pMessagingHandler = "attached"
           THEN Dereferenced([wp EXCEPT ![This].m_pMessagingHandler = "detached"], This)
           ELSE wp
  /\ Return(<<>>)
  /\ UNCHANGED <<pool, list, queue>>

Message ==
  \/ DropMessage \/ HandleInvalid \/ HandleGetPid \/ HandleHresultOk
  \/ HandleHresultBad \/ HandlePingReply \/ HandleRecycleRequest
  \/ HandleIdleRequest \/ HandleUnknownRequest \/ HandleBrokenPipe
  \/ HandleIpmFault

-----------------------------------------------------------------------------
(***************************************************************************)
(* The worker process (external) and the pipe's I/O threads.  AcceptMessage *)
(* and PipeDisconnected queue an item for the handler.                     *)
(***************************************************************************)
Says(w, op) ==
  /\ Idle
  /\ wp[w].process.pipe = "open"
  /\ Enqueue(Item(op, w))
  /\ UNCHANGED <<pool, list, stack>>

\* The process connects to the pipe and registers, then reports how its
\* start went.
ProcessConnects(w) ==
  /\ wp[w].process.phase = "created"
  /\ Says(w, "GetPid")
  /\ wp' = [wp EXCEPT ![w].process.phase = "connected"]

ProcessStarts(w) ==
  /\ wp[w].process.phase = "connected"
  /\ Says(w, "HresultOk")
  /\ wp' = [wp EXCEPT ![w].process.phase = "serving"]

ProcessFailsToStart(w) ==
  /\ "FailedStart" \in Events
  /\ wp[w].process.phase = "connected"
  /\ Says(w, "HresultBad")
  /\ wp' = [wp EXCEPT ![w].process.phase = "failed"]

ProcessAnswersPing(w) ==
  /\ wp[w].process.phase = "serving" /\ "Ping" \in wp[w].process.inbox
  /\ Says(w, "PingReply")
  /\ wp' = [wp EXCEPT ![w].process.inbox = wp[w].process.inbox \ {"Ping"}]

\* The recycler or the idle timer of the process asks to be shut down.
ProcessAsks(w) ==
  /\ wp[w].process.phase = "serving"
  /\ \/ "RecycleRequest" \in Events /\ Says(w, "RequestRecycle")
     \/ "IdleRequest" \in Events /\ Says(w, "RequestIdleShutdown")
  /\ UNCHANGED wp

ProcessMisbehaves(w) ==
  /\ "Misbehave" \in Events /\ Alive(w)
  /\ \E op \in PipeOps \ {"BrokenPipe", "IpmFault"} : Says(w, op)
  /\ UNCHANGED wp

ProcessExits(w) ==
  /\ Idle
  /\ wp[w].process.phase = "serving" /\ "Shutdown" \in wp[w].process.inbox
  /\ wp' = [wp EXCEPT ![w].process.phase = "exited"]
  /\ UNCHANGED <<pool, list, queue, stack>>

ProcessCrashes(w) ==
  /\ "Crash" \in Events /\ Idle
  /\ Alive(w)
  /\ wp' = [wp EXCEPT ![w].process.phase = "crashed"]
  /\ UNCHANGED <<pool, list, queue, stack>>

\* The pipe breaks when the process ends, or before that when it shuts down;
\* an I/O fault may cut it at any time.
PipeBreaks(w) ==
  /\ Ended(w) \/ "Shutdown" \in wp[w].process.inbox
  /\ Says(w, "BrokenPipe")
  /\ wp' = [wp EXCEPT ![w].process.pipe = "broken"]

PipeFaults(w) ==
  /\ "IpmFault" \in Events
  /\ Says(w, "IpmFault")
  /\ wp' = [wp EXCEPT ![w].process.pipe = "broken"]

ProcessStep(w) ==
  \/ ProcessConnects(w) \/ ProcessStarts(w) \/ ProcessFailsToStart(w)
  \/ ProcessAnswersPing(w) \/ ProcessAsks(w) \/ ProcessMisbehaves(w)
  \/ ProcessExits(w) \/ ProcessCrashes(w) \/ PipeBreaks(w) \/ PipeFaults(w)
=============================================================================
