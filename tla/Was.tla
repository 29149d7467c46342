--------------------------------- MODULE Was ---------------------------------
(***************************************************************************)
(* The core of the Web Administration Service, composed: an application    *)
(* pool, its worker processes, their messaging handlers and the work queue,*)
(* and the properties that make it correct.                                *)
(***************************************************************************)
EXTENDS MessagingHandler

Init ==
  /\ wp = [w \in WP |-> NoObject]
  /\ list = <<>>
  /\ queue = <<>>
  /\ stack = <<>>
  /\ pool \in InitializedPools

\* The main worker thread makes the next call, or begins the oldest work item.
MakeCall == AppPoolCall \/ WorkerProcessCall \/ DetachHandler
ExecuteWorkItem == WorkerProcessWorkItem \/ Message \/ DemandStart

Next ==
  \/ MakeCall \/ ExecuteWorkItem \/ AppPoolEvent
  \/ \E w \in WP : ProcessStep(w) \/ \E h \in Handles : Callback(w, h)

Spec == Init /\ [][Next]_vars

-----------------------------------------------------------------------------
TypeOK ==
  /\ wp \in [WP -> WorkerProcesses]
  /\ pool \in AppPools
  /\ list \in Seq(WP)
  /\ queue \in Seq(WorkItems)
  /\ stack \in Seq(Frames)

(***************************************************************************)
(* Object lifetimes.                                                       *)
(***************************************************************************)
\* References to a worker process: the list's, its messaging handler's, those
\* of queued work items, of replacements, and of calls that hold one.
References(w) ==
    (IF InList(w) THEN 1 ELSE 0)
  + (IF wp[w].m_pMessagingHandler = "attached" THEN 1 ELSE 0)
  + Cardinality({i \in DOMAIN queue : queue[i].w = w /\ queue[i].op \in Handles})
  + Cardinality({v \in WP : wp[v].m_pWorkerProcessToReplace = w})
  + Cardinality({i \in DOMAIN stack : stack[i] = Call("Dereference", w)})

\* m_RefCount is exactly the number of references held, at every step of every
\* call: no WORKER_PROCESS is deleted while something refers to it, and none
\* is leaked (WORKER_PROCESS::Reference, Dereference).
RefCountExact == \A w \in WP : wp[w].m_RefCount = References(w)

\* Every pointer the main thread has still to use is good: the calls it has
\* still to make, the list and the replacements refer to live objects, the
\* process to replace is still there when its replacement lets go of it, so
\* is the messaging handler when startup goes on, and a loop over the list never
\* reaches an entry that has been taken out of it (DBG_ASSERT( pListEntry != NULL )
\* in ShutdownAllWorkerProcesses and ReplaceAllWorkerProcesses).  (The end of
\* PipeDisconnectedMainThread is a call on the MESSAGING_HANDLER, which the
\* work item keeps alive.)  Terminate asks for it: "this function may cause the
\* instance to delete itself; instance state should not be accessed when
\* unwinding from this call".
PointersValid ==
  LET Live(w) == wp[w].m_State # "Free" IN
  /\ \A i \in DOMAIN stack :
       stack[i].fn \in WorkerProcessMethods \ {"DetachHandler"} => Live(stack[i].w)
  /\ \A w \in ToSet(list) : Live(w)
  /\ \A w \in WP : wp[w].m_pWorkerProcessToReplace # NoWP
                      => Live(wp[w].m_pWorkerProcessToReplace)
  /\ Calling("DropPredecessor") => wp[This].m_pWorkerProcessToReplace # NoWP
  /\ Calling("StartupTail") => wp[This].m_pMessagingHandler # "NULL"
  /\ Calling("ShutdownAll") \/ Calling("ReplaceAll") => InList(This)

\* A terminated process is quiet: no timer, wait on the process handle or
\* messaging handler is left that could call back into the object, and no
\* process is left to kill, whatever calls are still unwinding.
TerminatedIsQuiet ==
  \A w \in WP : wp[w].m_State \in {"DeletePending", "Free"} =>
    /\ wp[w].handle = NoHandles
    /\ wp[w].m_pMessagingHandler = "NULL"
    /\ ~wp[w].m_ProcessAlive

-----------------------------------------------------------------------------
(***************************************************************************)
(* The pool.                                                               *)
(***************************************************************************)
\* A running pool with room for a process never forgets to ask HTTP for the
\* next demand: either it waits for one, or a process is being demand started
\* (its attempt will re-arm the wait), or one is going away (its removal will).
DemandStartArmed ==
  Idle /\ IsOkToCreateWorkerProcess(Len(list)) =>
    \/ pool.m_WaitingForDemandStart
    \/ \E w \in ToSet(list) :
         \/ wp[w].m_StartReason = "DemandStart" /\ ~wp[w].m_NotifiedAppPool
         \/ IsGoingAwaySoon(w)

\* A process marked as being replaced that still serves (or is starting) has
\* exactly one replacement on its way, which will shut it down whether the
\* replacement starts or fails.
ReplacementPending ==
  Idle => \A w \in ToSet(list) :
    wp[w].m_BeingReplaced /\ wp[w].m_State \in {"RegistrationPending", "Running"} =>
      \E v \in ToSet(list) : wp[v].m_pWorkerProcessToReplace = w /\ ~wp[v].m_NotifiedAppPool

\* Once a pool has been disabled or is shutting down, every process it still
\* has was told to shut down or will be as soon as it registers; a deleted
\* pool has none.
StoppedPoolDrains ==
  Idle =>
    /\ pool.m_State \in {"Disabled", "ShutdownPending"} =>
         \A w \in ToSet(list) : wp[w].m_State \in
           {"RegistrationPendingShutdownPending", "ShutdownPending"}
    /\ pool.m_State = "DeletePending" => list = <<>>
    /\ pool.m_State = "ShutdownPending" => list # <<>>

\* A pool with as many recent failures as rapid fail protection allows is not
\* running any more.
RapidFailEngaged ==
  Idle /\ RapidFailProtection /\ pool.m_RecentWorkerProcessFailures >= MaxCrashes =>
    pool.m_State # "Running"

\* As long as the maximum is not changed, the processes that are not on their
\* way out never outnumber it ("Don't create new processes if we would exceed
\* the configured limit").
SteadyStateWithinMax ==
  Idle /\ pool.m_State = "Running" =>
    SteadyStateProcessCount <= pool.m_MaxProcessesToLaunch

-----------------------------------------------------------------------------
(***************************************************************************)
(* Health monitoring.                                                      *)
(***************************************************************************)
\* A running process is never left unmonitored: either its next ping is due
\* or one is outstanding, never both, and an outstanding ping has a deadline
\* unless a debugger excused it.
PingMonitored ==
  Idle /\ Pinging => \A w \in ToSet(list) : wp[w].m_State = "Running" =>
    /\ wp[w].m_AwaitingPingReply <=> wp[w].handle["SendPing"] = "NULL"
    /\ ~wp[w].m_AwaitingPingReply => wp[w].handle["PingResponse"] = "NULL"
    /\ wp[w].m_AwaitingPingReply /\ wp[w].handle["PingResponse"] = "NULL"
         => wp[w].m_IgnoredPingDueToDebugger

\* A ping is held against a process only when the deadline of that very ping
\* has passed: an expiry queued behind the reply to its own ping is never
\* taken for the expiry of the next one.
PingFailureGenuine ==
  Idle /\ queue # <<>> /\ Head(queue).op = "PingResponse" =>
    LET w == Head(queue).w IN
    wp[w].m_State = "Running" /\ wp[w].m_AwaitingPingReply
      => wp[w].handle["PingResponse"] = "fired"

-----------------------------------------------------------------------------
(***************************************************************************)
(* Progress.  The main worker thread keeps working, the time limits expire *)
(* and a process that ended is signalled.  Nothing is assumed of processes *)
(* or of pings.  Two of the fairness conditions are strong only because of *)
(* the model: an administrator's command is a work item too and takes its  *)
(* turn in the FIFO queue, so it cannot keep an older item waiting; and a  *)
(* callback, which the model runs between work items and stops at          *)
(* QueueBound, is continuously enabled in the program.                     *)
(***************************************************************************)
Fairness ==
  /\ WF_vars(MakeCall)
  /\ SF_vars(ExecuteWorkItem)
  /\ \A w \in WP, h \in {"Startup", "Shutdown", "Process"} : SF_vars(Callback(w, h))

FairSpec == Spec /\ Fairness

\* A process that has been told to shut down leaves the pool, whatever the
\* process does: it exits, or the shutdown (or startup) time limit ends it.
ShutdownCompletes ==
  \A w \in WP :
    wp[w].m_State \in {"RegistrationPendingShutdownPending", "ShutdownPending"}
      ~> ~InList(w)

\* A process that ended, in whatever state and whether its pipe or its handle
\* is noticed first, leaves the pool.
EndNoticed == \A w \in WP : InList(w) /\ Ended(w) ~> ~InList(w)

\* A process that is being replaced leaves the pool, whatever becomes of its
\* replacement: it starts, fails to start, hangs, crashes or is itself stopped.
ReplacedLeaves == \A w \in WP : wp[w].m_BeingReplaced ~> ~InList(w)

\* A pool that is shutting down is deleted.
PoolShutdownCompletes ==
  pool.m_State = "ShutdownPending" ~> pool.m_State = "DeletePending"
=============================================================================
