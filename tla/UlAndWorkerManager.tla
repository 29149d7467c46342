------------------------- MODULE UlAndWorkerManager -------------------------
(***************************************************************************)
(* The table of application pools, the references that keep an APP_POOL    *)
(* alive, and its gentle shutdown.  Everything here runs on the main       *)
(* worker thread.  Of a worker process only what its pool sees is kept:    *)
(* whether it is in the pool's list, and whether the object, which holds a *)
(* reference to the pool, still exists after it has left the list.         *)
(***************************************************************************)
EXTENDS Integers, FiniteSets

CONSTANTS Pools, DefaultAppPool, NoPool,
          Applications,        \* each holds a reference to its pool
          MaxWorkers,          \* m_MaxProcessesToLaunch
          MaxObjects,          \* bound on the worker process objects of a pool
          BackwardCompatibilitySettings,  \* what the administrator may have chosen
          ShutdownMayFail      \* a worker process cannot be told to shut down

ASSUME PoolsAssumption ==
  /\ DefaultAppPool \in Pools /\ NoPool \notin Pools
  /\ MaxWorkers \in Nat \ {0} /\ MaxObjects \in Nat /\ MaxObjects >= MaxWorkers
  /\ BackwardCompatibilitySettings \subseteq BOOLEAN
  /\ ShutdownMayFail \in BOOLEAN
  /\ IsFiniteSet(Applications)

VARIABLES
  m_BackwardCompatibilityEnabled,  \* read once, when the service starts
  ulState,      \* UL_AND_WORKER_MANAGER::m_State
  appPool,      \* the APP_POOLs
  application,  \* the pool of every APPLICATION
  walk          \* where APP_POOL_TABLE::Shutdown and APP_POOL::Shutdown are

ulVars == <<m_BackwardCompatibilityEnabled, ulState, appPool, application, walk>>

\* m_State: "None" is a pool not created yet, "Free" one whose object is deleted.
PoolStates == {"None", "Running", "ShutdownPending", "DeletePending", "Free"}
AppPools ==
  [m_State: PoolStates, m_RefCount: Nat, inTable: BOOLEAN,
   m_WorkerProcessCount: Nat,       \* worker processes in its list
   leaving: Nat,                    \* others that still refer to it
   m_WaitingForDemandStart: BOOLEAN]

NoAppPool ==
  [m_State |-> "None", m_RefCount |-> 0, inTable |-> FALSE,
   m_WorkerProcessCount |-> 0, leaving |-> 0, m_WaitingForDemandStart |-> FALSE]
NoWalk == [pool |-> NoPool, left |-> 0, todo |-> {}]

Live(q) == q.m_State \notin {"None", "Free"}
InTable == {p \in Pools : appPool[p].inTable}
NoPoolLeft(ap) == \A p \in Pools : ~ap[p].inTable

-----------------------------------------------------------------------------
\* Dereference: the last reference deletes the pool.
Dereference(q) ==
  IF q.m_RefCount = 1 THEN [q EXCEPT !.m_RefCount = 0, !.m_State = "Free"]
  ELSE [q EXCEPT !.m_RefCount = @ - 1]

\* WaitForDemandStartIfNeeded: the wait's work item refers to the pool.
WaitForDemandStartIfNeeded(q) ==
  IF /\ ~m_BackwardCompatibilityEnabled
     /\ q.m_State = "Running"
     /\ q.m_WorkerProcessCount < MaxWorkers
     /\ ~q.m_WaitingForDemandStart
  THEN [q EXCEPT !.m_WaitingForDemandStart = TRUE, !.m_RefCount = @ + 1]
  ELSE q

\* The constructor's reference is the table's.
Created(q) ==
  WaitForDemandStartIfNeeded(
    [q EXCEPT !.m_State = "Running", !.m_RefCount = 1, !.inTable = TRUE])

\* A worker process leaves the list: its object may be deleted at once, or
\* survive until its last work item is done.
LeftList(q, deleted) ==
  LET r == [q EXCEPT !.m_WorkerProcessCount = @ - 1]
  IN IF deleted THEN Dereference(r) ELSE [r EXCEPT !.leaving = @ + 1]

\* Mutant of RemoveAppPoolFromTable: the reference of the table is dropped twice.
RemoveAppPoolTwice(q) == Dereference(Dereference([q EXCEPT !.inTable = FALSE]))

\* RemoveAppPoolFromTable, the part about the pool.
RemoveAppPoolFromTable(q) == Dereference([q EXCEPT !.inTable = FALSE])

\* APP_POOL::Terminate: every worker process in the list is terminated, some
\* of the objects surviving for a while, and the pool leaves the table.
Terminated(q, survive) ==
  RemoveAppPoolFromTable(
    [q EXCEPT !.m_State = "DeletePending", !.m_WorkerProcessCount = 0,
              !.leaving = @ + survive,
              !.m_RefCount = @ - (q.m_WorkerProcessCount - survive)])

\* APP_POOL::CheckIfShutdownUnderwayAndNowCompleted.
PoolShutdownDone(q) ==
  IF q.m_State = "ShutdownPending" /\ q.m_WorkerProcessCount = 0
  THEN Terminated(q, 0) ELSE q

\* RemoveWorkerProcessFromList: the pool after it.
RemoveWorkerProcessFromList(q, deleted) ==
  PoolShutdownDone(WaitForDemandStartIfNeeded(LeftList(q, deleted)))

\* UL_AND_WORKER_MANAGER::CheckIfShutdownUnderwayAndNowCompleted: its answer
\* given the pools after the step.
ShutdownDone(ap) == ulState = "ShutdownPending" /\ NoPoolLeft(ap)
=============================================================================
