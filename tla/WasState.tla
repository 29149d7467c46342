------------------------------ MODULE WasState ------------------------------
(***************************************************************************)
(* The shared state of the Web Administration Service (WAS) core: one      *)
(* APP_POOL object, the WORKER_PROCESS objects it owns (each with its      *)
(* MESSAGING_HANDLER), the WORK_QUEUE that feeds the main worker thread,   *)
(* and the operating system processes behind the worker processes.         *)
(*                                                                         *)
(* All of WAS's state is touched by one thread, the main worker thread,    *)
(* which takes work items off the queue one by one.  Secondary threads     *)
(* (timer callbacks, the wait on a process handle, the pipe's I/O) only    *)
(* append work items.  What makes the code hard is re-entrancy: executing  *)
(* one work item runs a tree of synchronous calls between the pool and its *)
(* worker processes, and a call deep in the tree may change the object a   *)
(* caller further up is still using.  The variable "stack" therefore holds *)
(* the calls still to be made, first one first: a method is one action     *)
(* (frame) up to its first call that may re-enter, the rest of its body is *)
(* a frame of its own below that call.  Code that follows a call without   *)
(* touching state has no frame.                                            *)
(***************************************************************************)
EXTENDS Integers, SequencesExt

CONSTANTS
  WP,                    \* memory for WORKER_PROCESS objects
  NoWP,                  \* the NULL pointer
  ListHead,              \* &m_WorkerProcessListHead, the end of every walk
  MaxProcessesSettings,  \* values the MaxProcesses property may be given
  RapidFailProtection,   \* TRUE iff IsRapidFailProtectionEnabled()
  MaxCrashes,            \* GetRapidFailProtectionMaxCrashes()
  Pinging,               \* TRUE iff IsPingingEnabled()
  Orphaning,             \* TRUE iff IsOrphaningProcessesForDebuggingEnabled()
  DebuggerMayAttach,     \* TRUE iff a debugger may be attached to a process
  OverlapSettings,       \* values of "overlapping rotation is allowed"
  RotateSettings,        \* values of "rotate on configuration changes"
  Failures,              \* the calls that may fail, a subset of FailureKinds
  Events,                \* what may happen around WAS, a subset of EventKinds
  QueueBound             \* other threads pause while the queue is this long

FailureKinds ==
  {"WorkerProcessToken", "MessagingHandler", "AlterDesktop", "StartProcess",
   "ProcessWait", "StartupTimer", "Allocate", "SendShutdown", "ShutdownTimer",
   "SendPing", "PingResponseTimer", "RecyclerParameters", "SendPingTimer",
   "WaitForDemandStart", "EnableHttp"}

EventKinds ==
  {"Configure", "JobObject", "Recycle", "ServiceStop", "DeletePool",
   "RecycleRequest", "IdleRequest", "FailedStart", "Crash", "Misbehave", "IpmFault"}

ASSUME PointerAssumption ==
  /\ NoWP \notin WP
  /\ ListHead \notin WP \cup {NoWP}

\* ApplyRangeCheck in APP_POOL_CONFIG_STORE admits no MaxProcesses below 1.
ASSUME SettingsAssumption ==
  /\ MaxProcessesSettings # {} /\ MaxProcessesSettings \subseteq Nat \ {0}
  /\ OverlapSettings # {} /\ OverlapSettings \subseteq BOOLEAN
  /\ RotateSettings # {} /\ RotateSettings \subseteq BOOLEAN
  /\ MaxCrashes \in Nat \ {0} /\ QueueBound \in Nat \ {0}
  /\ Failures \subseteq FailureKinds /\ Events \subseteq EventKinds
  /\ {RapidFailProtection, Pinging, Orphaning, DebuggerMayAttach} \subseteq BOOLEAN

VARIABLES
  wp,      \* the WORKER_PROCESS objects, each with the process it stands for
  pool,    \* the APP_POOL object
  list,    \* the chain at m_WorkerProcessListHead, head first
  queue,   \* the WORK_QUEUE, oldest item first
  stack    \* calls the main worker thread has still to make, next one first

vars == <<wp, pool, list, queue, stack>>

-----------------------------------------------------------------------------
(***************************************************************************)
(* Types.                                                                  *)
(***************************************************************************)
WorkerProcessStates ==
  {"Uninitialized", "RegistrationPending", "RegistrationPendingShutdownPending",
   "Running", "ShutdownPending", "DeletePending"}

IllnessReasons ==
  {"NotIll", "Crash", "PingFailure", "IPMError", "StartupTookTooLong",
   "ShutdownTookTooLong", "InternalError", "PassedBadHresult",
   "CreateProcessFailed", "Untrusted"}

AppPoolStates ==
  {"Uninitialized", "Running", "Disabled", "ShutdownPending", "DeletePending"}

\* The four timers and the registered wait on the process handle.  A handle is
\* NULL, armed, or its callback has run and queued its (only) work item.
Handles == {"Startup", "Shutdown", "SendPing", "PingResponse", "Process"}
HandleStates == {"NULL", "armed", "fired"}
NoHandles == [h \in Handles |-> "NULL"]

\* m_pMessagingHandler: NULL; attached, when the handler points back to the
\* worker process and holds a reference to it; or detached from it.
HandlerStates == {"NULL", "attached", "detached"}

\* What the operating system knows of a process: how far it has come, the IPM
\* messages it has not answered, and the state of its pipe.
ProcessPhases ==
  {"none", "created", "connected", "serving", "failed",
   "exited", "crashed", "killed", "orphaned"}
Processes ==
  [phase: ProcessPhases, inbox: SUBSET {"Ping", "Shutdown"},
   pipe: {"none", "open", "broken"}]
NoProcess == [phase |-> "none", inbox |-> {}, pipe |-> "none"]

WorkerProcesses ==
  [m_State: WorkerProcessStates \cup {"Free"},
   m_TerminalIllReason: IllnessReasons,
   m_StartReason: {"DemandStart", "Replace"},
   m_pWorkerProcessToReplace: WP \cup {NoWP},
   m_BeingReplaced: BOOLEAN,
   m_NotifiedAppPool: BOOLEAN,
   m_TerminallyIllShutdownRegardless: BOOLEAN,
   m_RefCount: Int,
   m_ProcessAlive: BOOLEAN,
   m_Registered: BOOLEAN,
   m_AwaitingPingReply: BOOLEAN,
   m_IgnoredPingDueToDebugger: BOOLEAN,
   m_pMessagingHandler: HandlerStates,
   handle: [Handles -> HandleStates],
   process: Processes]

\* Memory that holds no object.
NoObject ==
  [m_State |-> "Free",
   m_TerminalIllReason |-> "NotIll",
   m_StartReason |-> "DemandStart",
   m_pWorkerProcessToReplace |-> NoWP,
   m_BeingReplaced |-> FALSE,
   m_NotifiedAppPool |-> FALSE,
   m_TerminallyIllShutdownRegardless |-> FALSE,
   m_RefCount |-> 0,
   m_ProcessAlive |-> FALSE,
   m_Registered |-> FALSE,
   m_AwaitingPingReply |-> FALSE,
   m_IgnoredPingDueToDebugger |-> FALSE,
   m_pMessagingHandler |-> "NULL",
   handle |-> NoHandles,
   process |-> NoProcess]

AppPools ==
  [m_State: AppPoolStates,
   m_WaitingForDemandStart: BOOLEAN,
   m_MaxProcessesToLaunch: Nat,
   m_NumWPStarted: Nat,
   m_RecentWorkerProcessFailures: 0 .. MaxCrashes,
   maxProcesses: MaxProcessesSettings,
   overlap: OverlapSettings,
   rotate: RotateSettings,
   autoStart: BOOLEAN]

\* Work items: the five callbacks of a worker process, the messages of its
\* pipe, and the completion of the pool's demand start.
PipeOps ==
  {"GetPid", "HresultOk", "HresultBad", "PingReply", "RequestRecycle",
   "RequestIdleShutdown", "RequestUnknown", "Invalid", "BrokenPipe", "IpmFault"}
WorkItems ==
  [op: Handles \cup PipeOps, w: WP] \cup [op: {"DemandStart"}, w: {NoWP}]
Item(op, w) == [op |-> op, w |-> w]

\* Calls on a worker process, turns of a loop over the list (NULL when the loop
\* has been led out of the list), and calls on the pool.
WorkerProcessMethods ==
  {"Initialize", "Shutdown", "MarkAsTerminallyIll", "Terminate", "TerminateTail",
   "StartupTail", "DropPredecessor", "InitiateReplacement", "MarkReplaced",
   "Dereference", "DetachHandler", "ReportFailure"}
Walks == {"ShutdownAll", "ReplaceAll"}
AppPoolMethods ==
  {"DisableAppPool", "DisableTail", "CheckShutdown", "PoolTerminate",
   "TerminateAll", "ConfigChange"}
Frames ==
       [fn: WorkerProcessMethods, w: WP, why: IllnessReasons]
  \cup [fn: Walks, w: WP \cup {NoWP}, why: {"NotIll"}]
  \cup [fn: AppPoolMethods, w: {NoWP}, why: {"NotIll"}]
Call(fn, w) == [fn |-> fn, w |-> w, why |-> "NotIll"]
Ill(w, why) == [fn |-> "MarkAsTerminallyIll", w |-> w, why |-> why]

-----------------------------------------------------------------------------
(***************************************************************************)
(* The main worker thread.                                                 *)
(***************************************************************************)
\* Between two work items.
Idle == stack = <<>>

\* The next call the thread makes, and its argument.
Calling(fn) == stack # <<>> /\ Head(stack).fn = fn
This == Head(stack).w

\* The current call returns after making the calls "frames" in turn.
Return(frames) == stack' = frames \o Tail(stack)

\* WORK_QUEUE: ProcessWorkItem takes the oldest item; callbacks append.
Take(op) == Idle /\ queue # <<>> /\ Head(queue).op = op /\ queue' = Tail(queue)

\* Mutant of Enqueue: the newest work item is taken first.
EnqueueLifo(item) == Len(queue) < QueueBound /\ queue' = <<item>> \o queue

Enqueue(item) == Len(queue) < QueueBound /\ queue' = Append(queue, item)

\* WORKER_PROCESS::Reference and Dereference; the last one deletes the object.
Referenced(tbl, w) == [tbl EXCEPT ![w].m_RefCount = tbl[w].m_RefCount + 1]
Dereferenced(tbl, w) ==
  [tbl EXCEPT ![w] =
     IF tbl[w].m_RefCount = 1 THEN NoObject
     ELSE [tbl[w] EXCEPT !.m_RefCount = tbl[w].m_RefCount - 1]]

\* m_WorkerProcessListHead.Flink, and the Flink of an entry: NULL once
\* RemoveWorkerProcessFromList has taken the entry out.
InList(w) == w \in ToSet(list)
Position(w) == CHOOSE i \in DOMAIN list : list[i] = w
FirstEntry == IF list = <<>> THEN ListHead ELSE list[1]
Flink(w) ==
  IF ~InList(w) THEN NoWP
  ELSE IF Position(w) = Len(list) THEN ListHead
  ELSE list[Position(w) + 1]
\* The list without an entry, as RemoveEntryList leaves it.
Unlinked(w) == IF InList(w) THEN RemoveAt(list, Position(w)) ELSE list

\* Mutant of WalkFrom: the loop does not stop at the list head.
WalkFromUnchecked(fn, e) == <<Call(fn, e)>>

\* A loop over the list goes on with the entry e, or is over.
WalkFrom(fn, e) == IF e = ListHead THEN <<>> ELSE <<Call(fn, e)>>

\* A call that may fail does so in either way when the instance says it may.
MayFail(kind) == IF kind \in Failures THEN BOOLEAN ELSE {FALSE}
=============================================================================
