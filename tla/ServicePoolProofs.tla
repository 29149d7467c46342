-------------------------- MODULE ServicePoolProofs --------------------------
(***************************************************************************)
(* The types of the service and the lifetime of its pools, for any number  *)
(* of pools, applications and worker processes.  A reference count is a    *)
(* natural number only because it counts references, so both are proved    *)
(* together.                                                               *)
(***************************************************************************)
EXTENDS WebAdminService, FiniteSetTheorems, TLAPS

-----------------------------------------------------------------------------
(***************************************************************************)
(* One pool, used by u applications.                                       *)
(***************************************************************************)
B(b) == IF b THEN 1 ELSE 0
References(q, u) ==
  B(q.inTable) + u + q.m_WorkerProcessCount + q.leaving + B(q.m_WaitingForDemandStart)

\* A pool is in the table as long as it runs or shuts down, and only then has it a
\* list of worker processes.
InStep(q) ==
  /\ q.inTable <=> q.m_State \in {"Running", "ShutdownPending"}
  /\ ~q.inTable => q.m_WorkerProcessCount = 0

Good(q, u) ==
  /\ q \in AppPools
  /\ InStep(q)
  /\ q.m_RefCount = References(q, u)
  /\ Live(q) <=> q.m_RefCount > 0

\* The fields of a pool keep their types.
LEMMA PoolType ==
  ASSUME NEW q \in AppPools, NEW n \in Nat, NEW st \in PoolStates
  PROVE  [q EXCEPT !.m_RefCount = n, !.m_State = st] \in AppPools
  BY Zenon DEF AppPools

LEMMA FreeType ==
  ASSUME NEW q \in AppPools
  PROVE  [q EXCEPT !.m_RefCount = 0, !.m_State = "Free"] \in AppPools
  BY Zenon DEF AppPools, PoolStates

\* Dropping a reference that is counted once too often makes the count exact.
LEMMA DereferenceGood ==
  ASSUME NEW q \in AppPools, NEW u \in Nat, InStep(q), Live(q),
         q.m_RefCount = References(q, u) + 1
  PROVE  /\ Good(Dereference(q), u)
         /\ Dereference(q).inTable = q.inTable
         /\ Dereference(q).m_WorkerProcessCount = q.m_WorkerProcessCount
<1>1. References(q, u) \in Nat /\ (References(q, u) = 0 => ~q.inTable)
  BY DEF References, B, AppPools
<1>2. CASE q.m_RefCount = 1
  <2>1. Dereference(q) = [q EXCEPT !.m_RefCount = 0, !.m_State = "Free"]
    BY <1>2 DEF Dereference
  <2>2. References(Dereference(q), u) = References(q, u)
    BY <2>1 DEF References, AppPools
  <2>3. Dereference(q) \in AppPools
    BY <2>1, FreeType, Zenon
  <2>4. ~Dereference(q).inTable /\ Dereference(q).inTable = q.inTable
    BY <1>1, <1>2, <2>1 DEF AppPools
  <2>5. /\ Dereference(q).m_State = "Free" /\ Dereference(q).m_RefCount = 0
        /\ Dereference(q).m_WorkerProcessCount = q.m_WorkerProcessCount
    BY <2>1 DEF AppPools
  <2>6. q.m_WorkerProcessCount = 0
    BY <2>4 DEF InStep
  <2> QED
    BY <1>1, <1>2, <2>2, <2>3, <2>4, <2>5, <2>6 DEF Good, InStep, Live, AppPools
<1>3. CASE q.m_RefCount # 1
  <2>1. Dereference(q) = [q EXCEPT !.m_RefCount = @ - 1]
    BY <1>3 DEF Dereference
  <2>2. References(Dereference(q), u) = References(q, u)
    BY <2>1 DEF References, AppPools
  <2> QED
    BY <1>1, <1>3, <2>1, <2>2 DEF Good, InStep, Live, AppPools, PoolStates
<1> QED
  BY <1>2, <1>3

\* The wait for a demand start takes its own reference.
LEMMA WaitGood ==
  ASSUME NEW q, NEW u \in Nat, Good(q, u)
  PROVE  /\ Good(WaitForDemandStartIfNeeded(q), u)
         /\ WaitForDemandStartIfNeeded(q).inTable = q.inTable
         /\ WaitForDemandStartIfNeeded(q).m_WorkerProcessCount = q.m_WorkerProcessCount
<1> DEFINE r == [q EXCEPT !.m_WaitingForDemandStart = TRUE, !.m_RefCount = @ + 1]
<1>1. CASE WaitForDemandStartIfNeeded(q) = q
  BY <1>1
<1>2. CASE ~q.m_WaitingForDemandStart /\ q.m_State = "Running" /\ WaitForDemandStartIfNeeded(q) = r
  <2>1. q \in AppPools /\ q.m_RefCount = References(q, u) /\ InStep(q)
    BY DEF Good
  <2>2. r \in AppPools
    <3>1. q.m_RefCount + 1 \in Nat
      BY <2>1 DEF AppPools
    <3> QED
      BY <2>1, <3>1, Zenon DEF AppPools
  <2>3. /\ r.m_State = "Running" /\ r.m_RefCount = q.m_RefCount + 1 /\ r.inTable = q.inTable
        /\ r.m_WorkerProcessCount = q.m_WorkerProcessCount
    BY <1>2, <2>1 DEF AppPools
  <2>4. References(r, u) = References(q, u) + 1 /\ References(q, u) \in Nat
    BY <1>2, <2>1 DEF References, B, AppPools
  <2>5. InStep(r) /\ Live(r)
    BY <1>2, <2>1, <2>3 DEF InStep, Live
  <2> HIDE DEF r
  <2> QED
    BY <1>2, <2>1, <2>2, <2>3, <2>4, <2>5 DEF Good
<1> QED
  BY <1>1, <1>2 DEF WaitForDemandStartIfNeeded

\* A new pool has the reference of the table.
LEMMA CreatedGood ==
  /\ Good(Created(NoAppPool), 0)
  /\ Created(NoAppPool).inTable
  /\ Created(NoAppPool).m_WorkerProcessCount = 0
<1> DEFINE q == [NoAppPool EXCEPT !.m_State = "Running", !.m_RefCount = 1, !.inTable = TRUE]
<1>1. NoAppPool \in AppPools
  BY Zenon DEF NoAppPool, AppPools, PoolStates
<1>2. q \in AppPools
  BY <1>1, Zenon DEF AppPools, PoolStates
<1>3. /\ q.m_State = "Running" /\ q.m_RefCount = 1 /\ q.inTable = TRUE /\ q.leaving = 0
      /\ q.m_WorkerProcessCount = 0 /\ q.m_WaitingForDemandStart = FALSE
  BY Zenon DEF NoAppPool
<1> HIDE DEF q
<1>4. Good(q, 0)
  BY <1>2, <1>3 DEF Good, References, B, InStep, Live
<1>5. Created(NoAppPool) = WaitForDemandStartIfNeeded(q)
  BY DEF Created, q
<1> QED
  BY <1>3, <1>4, <1>5, WaitGood

\* A pool that is not there has none.
LEMMA NoAppPoolGood == Good(NoAppPool, 0)
  BY DEF AppPools, Good, References, B, InStep, Live, NoAppPool, PoolStates

\* A worker process that leaves the list takes its reference along.
LEMMA LeftListGood ==
  ASSUME NEW q, NEW u \in Nat, Good(q, u), q.m_WorkerProcessCount > 0,
         NEW deleted \in BOOLEAN
  PROVE  /\ Good(LeftList(q, deleted), u)
         /\ LeftList(q, deleted).m_WorkerProcessCount = q.m_WorkerProcessCount - 1
<1> DEFINE r == [q EXCEPT !.m_WorkerProcessCount = @ - 1]
<1>1. q \in AppPools /\ q.inTable /\ Live(q)
  BY DEF Good, InStep, AppPools, Live
<1>2. r \in AppPools /\ InStep(r) /\ Live(r) /\ r.m_RefCount = References(r, u) + 1
  BY <1>1 DEF Good, InStep, AppPools, Live, References, B
<1>3. CASE deleted
  BY <1>1, <1>2, <1>3, DereferenceGood DEF LeftList, AppPools
<1>4. CASE ~deleted
  <2> DEFINE s == [r EXCEPT !.leaving = @ + 1]
  <2>1. LeftList(q, deleted) = s
    BY <1>4 DEF LeftList
  <2>5. r.leaving + 1 \in Nat
    BY <1>2 DEF AppPools
  <2>2. /\ s \in AppPools /\ s.m_State = r.m_State /\ s.m_RefCount = r.m_RefCount
        /\ s.inTable = r.inTable /\ s.m_WorkerProcessCount = r.m_WorkerProcessCount
    <3> HIDE DEF r
    <3> QED
      BY <1>2, <2>5, Zenon DEF AppPools
  <2>3. References(s, u) = References(r, u) + 1 /\ References(r, u) \in Nat
    BY <1>2 DEF References, B, AppPools
  <2>4. r.m_WorkerProcessCount = q.m_WorkerProcessCount - 1
    BY <1>1 DEF AppPools
  <2> HIDE DEF s, r
  <2> QED
    BY <1>2, <2>1, <2>2, <2>3, <2>4 DEF Good, InStep, Live
<1> QED
  BY <1>3, <1>4

\* Termination drops the references of the list and of the table.
LEMMA TerminatedGood ==
  ASSUME NEW q, NEW u \in Nat, Good(q, u), q.inTable,
         NEW survive \in 0 .. q.m_WorkerProcessCount
  PROVE  /\ Good(Terminated(q, survive), u)
         /\ ~Terminated(q, survive).inTable
         /\ Terminated(q, survive).m_WorkerProcessCount = 0
<1> DEFINE r == [q EXCEPT !.m_State = "DeletePending", !.m_WorkerProcessCount = 0,
                          !.leaving = @ + survive,
                          !.m_RefCount = @ - (q.m_WorkerProcessCount - survive)]
           s == [r EXCEPT !.inTable = FALSE]
<1>3. Terminated(q, survive) = Dereference(s)
  BY DEF Terminated, RemoveAppPoolFromTable
<1>1. q \in AppPools /\ survive \in Nat /\ q.m_WorkerProcessCount \in Nat
  BY DEF Good, AppPools
<1> DEFINE rest == q.m_RefCount - (q.m_WorkerProcessCount - survive)
<1>4. q.m_RefCount = 1 + u + q.m_WorkerProcessCount + q.leaving + B(q.m_WaitingForDemandStart)
      /\ B(q.m_WaitingForDemandStart) \in Nat /\ rest \in Nat
  BY <1>1 DEF Good, References, B, AppPools
<1>5. "DeletePending" \in PoolStates
  BY DEF PoolStates
<1>6. /\ s.m_State = "DeletePending" /\ s.m_RefCount = rest /\ s.inTable = FALSE
      /\ s.m_WorkerProcessCount = 0 /\ s.leaving = q.leaving + survive
      /\ s.m_WaitingForDemandStart = q.m_WaitingForDemandStart
  BY <1>1, Zenon DEF AppPools
<1>7. s \in AppPools
  <2>1. q.leaving + survive \in Nat
    BY <1>1 DEF AppPools
  <2> QED
    BY <1>1, <1>4, <1>5, <2>1, Zenon DEF AppPools
<1> HIDE DEF s
<1>8. InStep(s) /\ Live(s) /\ ~s.inTable /\ s.m_WorkerProcessCount = 0
  BY <1>6 DEF InStep, Live
<1>9. References(s, u) = 0 + u + 0 + (q.leaving + survive) + B(q.m_WaitingForDemandStart)
  BY <1>6 DEF References, B
<1>10. q.leaving \in Nat /\ s.m_RefCount = rest
  BY <1>1, <1>6 DEF AppPools
<1>2. s.m_RefCount = References(s, u) + 1
  BY <1>1, <1>4, <1>9, <1>10
<1> QED
  BY <1>2, <1>3, <1>7, <1>8, DereferenceGood

\* An application comes to the pool, or leaves it.
LEMMA ReferenceGood ==
  ASSUME NEW q, NEW u \in Nat, Good(q, u), q.inTable
  PROVE  Good([q EXCEPT !.m_RefCount = @ + 1], u + 1)
<1> DEFINE r == [q EXCEPT !.m_RefCount = @ + 1]
<1>1. q \in AppPools /\ InStep(q) /\ q.m_RefCount = References(q, u)
  BY DEF Good
<1>2. q.m_RefCount + 1 \in Nat /\ q.m_RefCount + 1 > 0
  BY <1>1 DEF AppPools
<1>3. r \in AppPools
  BY <1>1, <1>2, Zenon DEF AppPools
<1>4. /\ r.m_State = q.m_State /\ r.m_RefCount = q.m_RefCount + 1 /\ r.inTable = q.inTable
      /\ r.m_WorkerProcessCount = q.m_WorkerProcessCount
  BY <1>1, Zenon DEF AppPools
<1>5. References(r, u + 1) = References(q, u) + 1
  BY <1>1 DEF References, B, AppPools
<1> HIDE DEF r
<1>6. InStep(r) /\ Live(r)
  BY <1>1, <1>4 DEF InStep, Live
<1> QED
  BY <1>1, <1>2, <1>3, <1>4, <1>5, <1>6 DEF Good, r

LEMMA ApplicationLeavesGood ==
  ASSUME NEW q, NEW u \in Nat, Good(q, u + 1)
  PROVE  Good(Dereference(q), u)
<1>1. q \in AppPools /\ InStep(q) /\ q.m_RefCount = References(q, u + 1)
      /\ (Live(q) <=> q.m_RefCount > 0)
  BY DEF Good
<1>2. References(q, u + 1) = References(q, u) + 1 /\ References(q, u) \in Nat
  BY <1>1 DEF References, B, AppPools
<1> QED
  BY <1>1, <1>2, DereferenceGood

\* The wait for a demand start is over.
LEMMA WaitOverGood ==
  ASSUME NEW q, NEW u \in Nat, Good(q, u), q.m_WaitingForDemandStart
  PROVE  Good(Dereference([q EXCEPT !.m_WaitingForDemandStart = FALSE]), u)
<1> DEFINE r == [q EXCEPT !.m_WaitingForDemandStart = FALSE]
<1>1. q \in AppPools /\ InStep(q) /\ q.m_RefCount = References(q, u)
      /\ (Live(q) <=> q.m_RefCount > 0)
  BY DEF Good
<1>2. r \in AppPools
  BY <1>1, Zenon DEF AppPools
<1>3. /\ r.m_State = q.m_State /\ r.m_RefCount = q.m_RefCount /\ r.inTable = q.inTable
      /\ r.m_WorkerProcessCount = q.m_WorkerProcessCount
  BY <1>1, Zenon DEF AppPools
<1>4. References(q, u) = References(r, u) + 1 /\ References(r, u) \in Nat
  BY <1>1 DEF References, B, AppPools
<1> HIDE DEF r
<1>5. InStep(r) /\ Live(r)
  BY <1>1, <1>3, <1>4 DEF InStep, Live
<1> QED
  BY <1>1, <1>2, <1>3, <1>4, <1>5, DereferenceGood DEF r

\* A pool that runs starts a worker process.
LEMMA StartedGood ==
  ASSUME NEW q, NEW u \in Nat, Good(q, u), q.m_State = "Running"
  PROVE  Good([q EXCEPT !.m_WorkerProcessCount = @ + 1, !.m_RefCount = @ + 1], u)
<1> DEFINE r == [q EXCEPT !.m_WorkerProcessCount = @ + 1, !.m_RefCount = @ + 1]
<1>1. q \in AppPools /\ InStep(q) /\ q.m_RefCount = References(q, u)
  BY DEF Good
<1>2. q.m_RefCount + 1 \in Nat /\ q.m_WorkerProcessCount + 1 \in Nat
  BY <1>1 DEF AppPools
<1>3. r \in AppPools
  BY <1>1, <1>2, Zenon DEF AppPools
<1>4. /\ r.m_State = q.m_State /\ r.m_RefCount = q.m_RefCount + 1 /\ r.inTable = q.inTable
      /\ r.m_WorkerProcessCount = q.m_WorkerProcessCount + 1 /\ r.leaving = q.leaving
      /\ r.m_WaitingForDemandStart = q.m_WaitingForDemandStart
  BY <1>1, Zenon DEF AppPools
<1> HIDE DEF r
<1>5. References(r, u) = References(q, u) + 1 /\ References(q, u) \in Nat
  BY <1>1, <1>4 DEF References, B, AppPools
<1>6. InStep(r) /\ Live(r)
  BY <1>1, <1>4 DEF InStep, Live
<1> QED
  BY <1>1, <1>2, <1>3, <1>4, <1>5, <1>6 DEF Good, r

\* The object of a worker process that has left is deleted.
LEMMA DeletedGood ==
  ASSUME NEW q, NEW u \in Nat, Good(q, u), q.leaving > 0
  PROVE  Good(Dereference([q EXCEPT !.leaving = @ - 1]), u)
<1> DEFINE r == [q EXCEPT !.leaving = @ - 1]
<1>1. q \in AppPools /\ InStep(q) /\ q.m_RefCount = References(q, u)
      /\ (Live(q) <=> q.m_RefCount > 0)
  BY DEF Good
<1>2. q.leaving - 1 \in Nat
  BY <1>1 DEF AppPools
<1>3. r \in AppPools
  BY <1>1, <1>2, Zenon DEF AppPools
<1>4. /\ r.m_State = q.m_State /\ r.m_RefCount = q.m_RefCount /\ r.inTable = q.inTable
      /\ r.m_WorkerProcessCount = q.m_WorkerProcessCount /\ r.leaving = q.leaving - 1
      /\ r.m_WaitingForDemandStart = q.m_WaitingForDemandStart
  BY <1>1, Zenon DEF AppPools
<1> HIDE DEF r
<1>5. References(q, u) = References(r, u) + 1 /\ References(r, u) \in Nat
  BY <1>1, <1>2, <1>4 DEF References, B, AppPools
<1>6. InStep(r) /\ Live(r)
  BY <1>1, <1>4, <1>5 DEF InStep, Live
<1> QED
  BY <1>1, <1>3, <1>4, <1>5, <1>6, DereferenceGood DEF r

\* A pool that is told to shut down stays in the table.
LEMMA ShutdownGood ==
  ASSUME NEW q, NEW u \in Nat, Good(q, u), q.inTable
  PROVE  Good([q EXCEPT !.m_State = "ShutdownPending"], u)
<1> DEFINE r == [q EXCEPT !.m_State = "ShutdownPending"]
<1>1. q \in AppPools /\ InStep(q) /\ q.m_RefCount = References(q, u)
      /\ (Live(q) <=> q.m_RefCount > 0)
  BY DEF Good
<1>2. r \in AppPools
  BY <1>1, Zenon DEF AppPools, PoolStates
<1>3. /\ r.m_State = "ShutdownPending" /\ r.m_RefCount = q.m_RefCount /\ r.inTable = q.inTable
      /\ r.m_WorkerProcessCount = q.m_WorkerProcessCount
  BY <1>1, Zenon DEF AppPools
<1>4. References(r, u) = References(q, u)
  BY <1>1 DEF References, AppPools
<1> HIDE DEF r
<1>5. InStep(r) /\ Live(r) /\ Live(q)
  BY <1>1, <1>3 DEF InStep, Live
<1> QED
  BY <1>1, <1>2, <1>3, <1>4, <1>5 DEF Good, r

\* A pool that has shut down is terminated.
LEMMA ShutdownDoneGood ==
  ASSUME NEW q, NEW u \in Nat, Good(q, u)
  PROVE  /\ Good(PoolShutdownDone(q), u)
         /\ PoolShutdownDone(q).m_WorkerProcessCount = q.m_WorkerProcessCount
  BY TerminatedGood DEF PoolShutdownDone, Good, InStep, AppPools

\* RemoveWorkerProcessFromList takes one worker process off the list.
LEMMA RemoveGood ==
  ASSUME NEW q, NEW u \in Nat, Good(q, u), q.m_WorkerProcessCount > 0,
         NEW deleted \in BOOLEAN
  PROVE  /\ Good(RemoveWorkerProcessFromList(q, deleted), u)
         /\ RemoveWorkerProcessFromList(q, deleted).m_WorkerProcessCount
              = q.m_WorkerProcessCount - 1
  BY LeftListGood, WaitGood, ShutdownDoneGood DEF RemoveWorkerProcessFromList

\* The applications let go of their pool.
LEMMA DereferenceTimesGood ==
  ASSUME NEW q, NEW u \in Nat, Good(q, u)
  PROVE  /\ Good(DereferenceTimes(q, u), 0)
         /\ DereferenceTimes(q, u).inTable = q.inTable
         /\ DereferenceTimes(q, u).m_WorkerProcessCount = q.m_WorkerProcessCount
<1> DEFINE r == [q EXCEPT !.m_RefCount = @ - u,
                          !.m_State = IF q.m_RefCount = u THEN "Free" ELSE @]
<1>1. CASE u = 0
  BY <1>1 DEF DereferenceTimes
<1>2. CASE u # 0
  <2>1. DereferenceTimes(q, u) = r
    BY <1>2 DEF DereferenceTimes
  <2>2. q \in AppPools /\ InStep(q) /\ q.m_RefCount = References(q, u)
        /\ (Live(q) <=> q.m_RefCount > 0)
    BY DEF Good
  <2>3. References(q, u) = References(q, 0) + u /\ References(q, 0) \in Nat
        /\ (References(q, 0) = 0 => ~q.inTable)
    BY <2>2 DEF References, B, AppPools
  <2>4. /\ r.m_RefCount = References(q, 0)
        /\ r.m_State = IF References(q, 0) = 0 THEN "Free" ELSE q.m_State
        /\ r.inTable = q.inTable /\ r.m_WorkerProcessCount = q.m_WorkerProcessCount
    BY <2>2, <2>3 DEF AppPools
  <2>5. References(r, 0) = References(q, 0)
    BY <2>2 DEF References, AppPools
  <2>6. q.m_RefCount - u \in Nat /\ (IF q.m_RefCount = u THEN "Free" ELSE q.m_State) \in PoolStates
    BY <2>2, <2>3 DEF AppPools, PoolStates
  <2>7. r \in AppPools
    BY <2>2, <2>6, PoolType
  <2> HIDE DEF r
  <2>8. InStep(r) /\ (Live(r) <=> r.m_RefCount > 0)
    BY <1>2, <2>2, <2>3, <2>4 DEF InStep, Live
  <2> QED
    BY <2>1, <2>4, <2>5, <2>7, <2>8 DEF Good
<1> QED
  BY <1>1, <1>2

-----------------------------------------------------------------------------
(***************************************************************************)
(* The types of the variables outside the pools.                           *)
(***************************************************************************)
Statuses == [state: ServiceStates, controls: BOOLEAN, checkPoint: Nat, exitCode: BOOLEAN]
Timers == [handle: BOOLEAN, queue: BOOLEAN]
Flags == [m_StoppingInProgress: BOOLEAN, m_ExitWorkLoop: BOOLEAN, hr: BOOLEAN,
          m_SecondaryThreadError: BOOLEAN, m_hrToReportToSCM: BOOLEAN]
Queues == [items: Seq(Items), m_DeletePending: BOOLEAN]
Places == {"None", "Check", "Begin", "Queue", "Refused"}
Monitors == [running: BOOLEAN, crashed: BOOLEAN]

StatusType ==
  /\ status \in Statuses /\ timer \in Timers
  /\ callback \in BOOLEAN /\ locked \in BOOLEAN
ThreadType ==
  /\ was \in Flags /\ workQueue \in Queues /\ main \in MainSteps
  /\ call \in [Threads -> Places] /\ control \in Controls \cup {"None"}
  /\ monitor \in Monitors
UlType ==
  /\ m_BackwardCompatibilityEnabled \in BOOLEAN
  /\ ulState \in {"Uninitialized", "Running", "ShutdownPending", "Terminating"}
PoolsType ==
  /\ appPool \in [Pools -> AppPools]
  /\ application \in [Applications -> Pools \cup {NoPool}]
  /\ walk \in [pool: Pools \cup {NoPool}, left: Nat, todo: SUBSET Pools]

LEMMA TypeParts == TypeOK <=> StatusType /\ ThreadType /\ UlType /\ PoolsType
  BY DEF TypeOK, StatusType, ThreadType, UlType, PoolsType, Statuses, Timers, Flags, Queues,
         Places, Monitors

\* While a thread serves the controller there is a request to serve.
ScmServes == call["scm"] # "None" => control # "None"

\* What a thread asks for can be asked for.
LEMMA RequestedType ==
  ASSUME ThreadType, ScmServes, NEW t \in Threads, call[t] # "None"
  PROVE  Requested(t) \in {"Stop", "Pause", "Continue"}
  BY ServiceAssumption DEF ThreadType, ScmServes, Requested

LEMMA BeginType ==
  ASSUME StatusType, NEW new \in PendingStates, BeginStateTransition(new)
  PROVE  status' \in Statuses /\ timer' \in Timers
<1>1. new \in ServiceStates
  BY DEF ServiceStates
<1>2. 1 \in Nat
  OBVIOUS
<1>3. status' \in Statuses
  BY <1>1, <1>2, Zenon DEF StatusType, Statuses, BeginStateTransition
<1>4. timer' \in Timers
  BY Zenon DEF StatusType, Timers, BeginStateTransition
<1> QED
  BY <1>3, <1>4

LEMMA PoolChangesType ==
  ASSUME was \in Flags, NEW p, NEW q, PoolChanges(p, q)
  PROVE  was' \in Flags
  BY Zenon DEF Flags, PoolChanges

LEMMA ItemFailsType ==
  ASSUME ThreadType, ItemFails
  PROVE  was' \in Flags /\ main' \in MainSteps
<1>1. was' \in Flags
  BY Zenon DEF ThreadType, Flags, ItemFails
<1>2. main' \in MainSteps
  BY DEF ItemFails, MainSteps
<1> QED
  BY <1>1, <1>2

LEMMA ItemDoneType == ItemDone \in MainSteps
  BY DEF ItemDone, MainSteps

LEMMA TakenType ==
  ASSUME ThreadType, workQueue.items # <<>>, Taken
  PROVE  workQueue' \in Queues
<1>1. workQueue.items \in Seq(Items)
  BY DEF ThreadType, Queues
<1>2. Tail(workQueue.items) \in Seq(Items)
  BY <1>1
<1> QED
  BY <1>2, Zenon DEF ThreadType, Queues, Taken

-----------------------------------------------------------------------------
(***************************************************************************)
(* What each step may change.                                              *)
(***************************************************************************)
statusVars == <<status, timer, callback, locked>>
poolVars == <<appPool, application, walk>>

\* The steps about the status of the service, and what they leave alone.
StatusStep ==
  \/ \E f \in Finishes : FinishStateTransition(f) \/ FinishStateTransitionLocked(f)
  \/ TimerFires \/ UpdatePendingServiceStatus
  \/ \E t \in Threads : BeginRequest(t)
  \/ StartServiceWorkItem \/ BeginStart \/ CancelTimer \/ DeleteTimerQueue \/ ReportStopped

\* The steps about pools.
PoolStep ==
  \/ InitializeOther \/ StopServiceWorkItem
  \/ \E p \in Pools : ShutdownAppPool(p)
  \/ ShutdownWorkerProcess \/ ShutdownAppPoolDone
  \/ \E p \in Pools :
       \/ CreateAppPool(p) \/ DeleteAppPool(p)
       \/ \E a \in Applications : ModifyApplication(a, p)
       \/ DemandStartWorkItem(p) \/ WorkerProcessRegistered(p)
       \/ WorkerProcessGone(p) \/ WorkerProcessDeleted(p)
  \/ InetinfoWorkerGone \/ TerminateUl

\* The others: the threads' requests and the turns of the main thread.
OtherStep ==
  \/ InitializeOtherFails \/ PauseServiceWorkItem \/ ContinueServiceWorkItem
  \/ ShutdownWalkDone \/ CheckSecondary \/ ExitWorkLoop \/ TerminateConfig \/ DrainDone
  \/ InetinfoRegistered \/ InetinfoWorkerFails \/ WorkItemFails
  \/ \E c \in Controls : ScmSends(c)
  \/ ScmReturns \/ InetinfoCrashes
  \/ \E t \in Threads : RequestStopService(t) \/ QueueRequest(t)

LEMMA Steps == Next <=> StatusStep \/ PoolStep \/ OtherStep
  BY Zenon DEF Next, MainStep, WorkerEvent, Request, StatusStep, PoolStep, OtherStep

LEMMA PoolFrame == PoolStep => UNCHANGED <<m_BackwardCompatibilityEnabled, statusVars, call, control>>
<1> USE DEF statusVars, elsewhere, OtherItem, ConfigChange
<1>1. InitializeOther \/ StopServiceWorkItem \/ ShutdownWorkerProcess \/ ShutdownAppPoolDone
        \/ InetinfoWorkerGone \/ TerminateUl
      => UNCHANGED <<m_BackwardCompatibilityEnabled, statusVars, call, control>>
  BY DEF InitializeOther, StopServiceWorkItem, ShutdownWorkerProcess, ShutdownAppPoolDone,
         InetinfoWorkerGone, TerminateUl
<1>2. ASSUME NEW p \in Pools
      PROVE  \/ ShutdownAppPool(p) \/ CreateAppPool(p) \/ DeleteAppPool(p)
             \/ DemandStartWorkItem(p) \/ WorkerProcessRegistered(p)
             \/ WorkerProcessGone(p) \/ WorkerProcessDeleted(p)
             => UNCHANGED <<m_BackwardCompatibilityEnabled, statusVars, call, control>>
  BY DEF ShutdownAppPool, CreateAppPool, DeleteAppPool, DemandStartWorkItem,
         WorkerProcessRegistered, WorkerProcessGone, WorkerProcessDeleted
<1>3. ASSUME NEW p \in Pools, NEW a \in Applications, ModifyApplication(a, p)
      PROVE  UNCHANGED <<m_BackwardCompatibilityEnabled, statusVars, call, control>>
  BY <1>3 DEF ModifyApplication
<1> QED
  BY <1>1, <1>2, <1>3, Zenon DEF PoolStep

LEMMA StatusFrame == StatusStep => UNCHANGED <<ulVars, control, monitor>>
<1>1. ASSUME NEW f \in Finishes, FinishStateTransition(f) \/ FinishStateTransitionLocked(f)
      PROVE  UNCHANGED <<ulVars, control, monitor>>
  BY <1>1 DEF FinishStateTransition, FinishStateTransitionLocked
<1>2. ASSUME NEW t \in Threads, BeginRequest(t)
      PROVE  UNCHANGED <<ulVars, control, monitor>>
  BY <1>2 DEF BeginRequest
<1>3. \/ TimerFires \/ UpdatePendingServiceStatus \/ StartServiceWorkItem \/ BeginStart
      \/ CancelTimer \/ DeleteTimerQueue \/ ReportStopped
      => UNCHANGED <<ulVars, control, monitor>>
  BY DEF TimerFires, UpdatePendingServiceStatus, StartServiceWorkItem, BeginStart,
         CancelTimer, DeleteTimerQueue, ReportStopped
<1> QED
  BY <1>1, <1>2, <1>3, Zenon DEF StatusStep

LEMMA OtherFrame == OtherStep => UNCHANGED <<ulVars, statusVars>>
<1> USE DEF statusVars, elsewhere
<1>1. ASSUME NEW c \in Controls, ScmSends(c)
      PROVE  UNCHANGED <<ulVars, statusVars>>
  BY <1>1 DEF ScmSends
<1>2. ASSUME NEW t \in Threads, RequestStopService(t) \/ QueueRequest(t)
      PROVE  UNCHANGED <<ulVars, statusVars>>
  BY <1>2 DEF RequestStopService, QueueRequest
<1>3. \/ InitializeOtherFails \/ PauseServiceWorkItem \/ ContinueServiceWorkItem
      \/ ShutdownWalkDone \/ CheckSecondary \/ ExitWorkLoop \/ TerminateConfig \/ DrainDone
      => UNCHANGED <<ulVars, statusVars>>
  BY DEF InitializeOtherFails, PauseServiceWorkItem, ContinueServiceWorkItem,
         ShutdownWalkDone, CheckSecondary, ExitWorkLoop, TerminateConfig, DrainDone
<1>4. InetinfoRegistered \/ InetinfoWorkerFails \/ WorkItemFails \/ ScmReturns \/ InetinfoCrashes
      => UNCHANGED <<ulVars, statusVars>>
  BY DEF InetinfoRegistered, InetinfoWorkerFails, WorkItemFails, ScmReturns, InetinfoCrashes
<1> QED
  BY <1>1, <1>2, <1>3, <1>4, Zenon DEF OtherStep

-----------------------------------------------------------------------------
(***************************************************************************)
(* Every step keeps the types outside the pools.                           *)
(***************************************************************************)
LEMMA StatusTypeKept ==
  ASSUME StatusType, ThreadType, ScmServes, StatusStep
  PROVE  StatusType' /\ ThreadType'
<1> USE DEF StatusType, ThreadType
<1>1. ASSUME NEW f \in Finishes, FinishStateTransition(f)
      PROVE  StatusType' /\ ThreadType'
  BY <1>1, ItemDoneType DEF FinishStateTransition
<1>2. ASSUME NEW f \in Finishes, FinishStateTransitionLocked(f)
      PROVE  StatusType' /\ ThreadType'
  <2>1. NewState[f] \in ServiceStates
    BY DEF Finishes, NewState, ServiceStates
  <2>2. status' \in Statuses
    BY <1>2, <2>1, Zenon DEF Statuses, FinishStateTransitionLocked
  <2>3. timer' \in Timers
    BY <1>2, Zenon DEF Timers, FinishStateTransitionLocked
  <2> QED
    BY <1>2, <2>2, <2>3, ItemDoneType DEF FinishStateTransitionLocked
<1>3. ASSUME TimerFires
      PROVE  StatusType' /\ ThreadType'
  BY <1>3 DEF TimerFires
<1>4. ASSUME UpdatePendingServiceStatus
      PROVE  StatusType' /\ ThreadType'
  <2>1. status.checkPoint \in Nat
    BY DEF Statuses
  <2> DEFINE n == IF IsServiceStateChangePending /\ status.checkPoint < MaxCheckPoint
                  THEN status.checkPoint + 1 ELSE status.checkPoint
  <2>2. n \in Nat
    BY <2>1
  <2>3. status' = [status EXCEPT !.checkPoint = n]
    BY <1>4 DEF UpdatePendingServiceStatus
  <2>4. status' \in Statuses
    <3> HIDE DEF n
    <3> QED
      BY <2>2, <2>3, Zenon DEF Statuses
  <2>5. was' \in Flags
    BY <1>4, Zenon DEF Flags, UpdatePendingServiceStatus
  <2> QED
    BY <1>4, <2>4, <2>5 DEF UpdatePendingServiceStatus
<1>5. ASSUME NEW t \in Threads, BeginRequest(t)
      PROVE  StatusType' /\ ThreadType'
  <2>1. CASE RequestRefused(t)
    BY <1>5, <2>1 DEF BeginRequest, Places
  <2>2. CASE ~RequestRefused(t)
    <3>1. PendingFor[Requested(t)] \in PendingStates
      BY <1>5, RequestedType DEF BeginRequest, PendingFor, PendingStates
    <3>2. status' \in Statuses /\ timer' \in Timers
      BY <1>5, <2>2, <3>1, BeginType DEF BeginRequest
    <3> QED
      BY <1>5, <2>2, <3>2 DEF BeginRequest, Places
  <2> QED
    BY <2>1, <2>2
<1>6. ASSUME StartServiceWorkItem
      PROVE  StatusType' /\ ThreadType'
  <2>1. workQueue' \in Queues
    BY <1>6, TakenType DEF StartServiceWorkItem, Dispatch
  <2>2. timer' \in Timers
    BY <1>6, Zenon DEF StartServiceWorkItem, Timers
  <2>3. was' \in Flags /\ main' \in MainSteps
    BY <1>6, ItemFailsType DEF StartServiceWorkItem, MainSteps
  <2> QED
    BY <1>6, <2>1, <2>2, <2>3 DEF StartServiceWorkItem
<1>7. ASSUME BeginStart
      PROVE  StatusType' /\ ThreadType'
  <2>1. "START_PENDING" \in PendingStates
    BY DEF PendingStates
  <2>2. status' \in Statuses /\ timer' \in Timers
    BY <1>7, <2>1, BeginType DEF BeginStart
  <2> QED
    BY <1>7, <2>2 DEF BeginStart, MainSteps
<1>8. ASSUME CancelTimer \/ DeleteTimerQueue
      PROVE  StatusType' /\ ThreadType'
  <2>1. timer' \in Timers
    BY <1>8, Zenon DEF CancelTimer, DeleteTimerQueue, Timers
  <2> QED
    BY <1>8, <2>1 DEF CancelTimer, DeleteTimerQueue, MainSteps
<1>9. ASSUME ReportStopped
      PROVE  StatusType' /\ ThreadType'
  <2>1. "STOPPED" \in ServiceStates /\ was.hr \in BOOLEAN
    BY DEF ServiceStates, Flags
  <2>2. status' \in Statuses
    BY <1>9, <2>1, Zenon DEF ReportStopped, Statuses
  <2> QED
    BY <1>9, <2>2 DEF ReportStopped, MainSteps
<1> QED
  BY <1>1, <1>2, <1>3, <1>4, <1>5, <1>6, <1>7, <1>8, <1>9, Zenon DEF StatusStep

LEMMA OtherTypeKept ==
  ASSUME StatusType, ThreadType, ScmServes, OtherStep
  PROVE  StatusType' /\ ThreadType'
<1> USE DEF ThreadType
<1>0. StatusType'
  BY OtherFrame DEF StatusType, statusVars
<1>1. ASSUME InitializeOtherFails \/ WorkItemFails
      PROVE  ThreadType'
  BY <1>1, ItemFailsType DEF InitializeOtherFails, WorkItemFails, elsewhere
<1>2. ASSUME PauseServiceWorkItem \/ ContinueServiceWorkItem
      PROVE  ThreadType'
  <2>1. workQueue' \in Queues
    BY <1>2, TakenType DEF PauseServiceWorkItem, ContinueServiceWorkItem, Dispatch
  <2> QED
    BY <1>2, <2>1 DEF PauseServiceWorkItem, ContinueServiceWorkItem, elsewhere, MainSteps, Finishes
<1>3. ASSUME ShutdownWalkDone
      PROVE  ThreadType'
  <2>1. was' \in Flags
    BY <1>3, Zenon DEF ShutdownWalkDone, Flags
  <2> QED
    BY <1>3, <2>1, ItemDoneType DEF ShutdownWalkDone, elsewhere
<1>4. ASSUME CheckSecondary \/ ExitWorkLoop
      PROVE  ThreadType'
  <2>1. was' \in Flags
    BY <1>4, Zenon DEF CheckSecondary, ExitWorkLoop, Flags
  <2> QED
    BY <1>4, <2>1 DEF CheckSecondary, ExitWorkLoop, elsewhere, MainSteps
<1>5. ASSUME TerminateConfig
      PROVE  ThreadType'
  <2>1. workQueue' \in Queues
    BY <1>5, Zenon DEF TerminateConfig, Queues
  <2>2. monitor' \in Monitors
    BY <1>5, Zenon DEF TerminateConfig, Monitors
  <2> QED
    BY <1>5, <2>1, <2>2 DEF TerminateConfig, MainSteps
<1>6. ASSUME DrainDone \/ InetinfoRegistered
      PROVE  ThreadType'
  BY <1>6 DEF DrainDone, InetinfoRegistered, elsewhere, MainSteps, Finishes
<1>7. ASSUME InetinfoWorkerFails
      PROVE  ThreadType'
  BY <1>7 DEF InetinfoWorkerFails, MainSteps, Places
<1>8. ASSUME NEW c \in Controls, ScmSends(c)
      PROVE  ThreadType'
  BY <1>8 DEF ScmSends, Places
<1>9. ASSUME ScmReturns
      PROVE  ThreadType'
  BY <1>9 DEF ScmReturns, Places
<1>10. ASSUME InetinfoCrashes
       PROVE  ThreadType'
  <2>1. monitor' \in Monitors
    BY <1>10, Zenon DEF InetinfoCrashes, Monitors
  <2> QED
    BY <1>10, <2>1 DEF InetinfoCrashes, Places
<1>11. ASSUME NEW t \in Threads, RequestStopService(t)
       PROVE  ThreadType'
  BY <1>11 DEF RequestStopService, Places
<1>12. ASSUME NEW t \in Threads, QueueRequest(t)
       PROVE  ThreadType'
  <2>1. call' \in [Threads -> Places]
    BY <1>12 DEF QueueRequest, Places
  <2>2. was' \in Flags
    BY <1>12, Zenon DEF QueueRequest, Flags
  <2>3. Requested(t) \in Items
    BY <1>12, RequestedType DEF QueueRequest, Items
  <2>4. Append(workQueue.items, Requested(t)) \in Seq(Items)
    BY <2>3 DEF Queues
  <2>5. workQueue' \in Queues
    BY <1>12, <2>4, Zenon DEF QueueRequest, Queues
  <2> QED
    BY <1>12, <2>1, <2>2, <2>5 DEF QueueRequest
<1> QED
  BY <1>0, <1>1, <1>2, <1>3, <1>4, <1>5, <1>6, <1>7, <1>8, <1>9, <1>10, <1>11, <1>12, Zenon
     DEF OtherStep

LEMMA PoolTypeKept ==
  ASSUME StatusType, ThreadType, UlType, PoolStep
  PROVE  StatusType' /\ ThreadType' /\ UlType'
<1> USE DEF ThreadType, UlType
<1>0. StatusType' /\ call' = call /\ control' = control
      /\ m_BackwardCompatibilityEnabled' \in BOOLEAN
  BY PoolFrame DEF StatusType, statusVars
<1>1. ASSUME InitializeOther
      PROVE  ThreadType' /\ UlType'
  <2>1. monitor' \in Monitors
    BY <1>1, Zenon DEF InitializeOther, Monitors
  <2> QED
    BY <1>0, <1>1, <2>1 DEF InitializeOther, MainSteps, Finishes
<1>2. ASSUME StopServiceWorkItem
      PROVE  ThreadType' /\ UlType'
  <2>1. workQueue' \in Queues
    BY <1>2, TakenType DEF StopServiceWorkItem, Dispatch
  <2>2. was' \in Flags
    BY <1>2, Zenon DEF StopServiceWorkItem, Flags
  <2>3. main' \in MainSteps
    BY <1>2, ItemDoneType DEF StopServiceWorkItem, MainSteps
  <2> QED
    BY <1>0, <1>2, <2>1, <2>2, <2>3 DEF StopServiceWorkItem, elsewhere
<1>3. ASSUME NEW p \in Pools, ShutdownAppPool(p)
      PROVE  ThreadType' /\ UlType'
  BY <1>0, <1>3 DEF ShutdownAppPool, elsewhere
<1>4. ASSUME ShutdownWorkerProcess \/ ShutdownAppPoolDone
      PROVE  ThreadType' /\ UlType'
  <2>1. was' \in Flags
    BY <1>4, PoolChangesType DEF ShutdownWorkerProcess, ShutdownAppPoolDone
  <2> QED
    BY <1>0, <1>4, <2>1 DEF ShutdownWorkerProcess, ShutdownAppPoolDone, elsewhere
<1>5. ASSUME NEW p \in Pools,
             \/ CreateAppPool(p) \/ DeleteAppPool(p)
             \/ DemandStartWorkItem(p) \/ WorkerProcessRegistered(p)
             \/ WorkerProcessGone(p) \/ WorkerProcessDeleted(p)
      PROVE  ThreadType' /\ UlType'
  <2>1. OtherItem /\ \E q : PoolChanges(p, q)
    BY <1>5, Zenon DEF CreateAppPool, DeleteAppPool, DemandStartWorkItem, ConfigChange,
       WorkerProcessRegistered, WorkerProcessGone, WorkerProcessDeleted
  <2>2. was' \in Flags
    BY <2>1, PoolChangesType
  <2> QED
    BY <1>0, <2>1, <2>2 DEF OtherItem, elsewhere, MainSteps
<1>6. ASSUME NEW p \in Pools, NEW a \in Applications, ModifyApplication(a, p)
      PROVE  ThreadType' /\ UlType'
  BY <1>0, <1>6 DEF ModifyApplication, ConfigChange, OtherItem, elsewhere, MainSteps
<1>7. ASSUME InetinfoWorkerGone
      PROVE  ThreadType' /\ UlType'
  <2>1. was' \in Flags
    BY <1>7, Zenon DEF InetinfoWorkerGone, Flags
  <2> QED
    BY <1>0, <1>7, <2>1 DEF InetinfoWorkerGone, elsewhere, MainSteps
<1>8. ASSUME TerminateUl
      PROVE  ThreadType' /\ UlType'
  BY <1>0, <1>8 DEF TerminateUl, elsewhere, MainSteps
<1> QED
  BY <1>0, <1>1, <1>2, <1>3, <1>4, <1>5, <1>6, <1>7, <1>8, Zenon DEF PoolStep

LEMMA ScmServesKept ==
  ASSUME ThreadType, ScmServes, Next
  PROVE  ScmServes'
<1> USE DEF ThreadType, ScmServes, Threads
<1>1. CASE StatusStep
  <2>1. control' = control
    BY <1>1, StatusFrame
  <2>2. ASSUME NEW t \in Threads, BeginRequest(t)
        PROVE  call["scm"] # "None" \/ call' ["scm"] = call["scm"]
    BY <2>2 DEF BeginRequest
  <2>3. (\A t \in Threads : ~BeginRequest(t)) => call' = call
    BY <1>1 DEF StatusStep, FinishStateTransition, FinishStateTransitionLocked, TimerFires,
         UpdatePendingServiceStatus, StartServiceWorkItem, BeginStart, CancelTimer,
         DeleteTimerQueue, ReportStopped
  <2> QED
    BY <2>1, <2>2, <2>3
<1>2. CASE PoolStep
  BY <1>2, PoolFrame
<1>3. ASSUME OtherStep
      PROVE  ScmServes'
  <2>1. ASSUME NEW c \in Controls, ScmSends(c)
        PROVE  ScmServes'
    BY <2>1, ServiceAssumption DEF ScmSends
  <2>2. ASSUME ScmReturns \/ InetinfoCrashes \/ InetinfoWorkerFails
        PROVE  ScmServes'
    BY <2>2 DEF ScmReturns, InetinfoCrashes, InetinfoWorkerFails
  <2>3. ASSUME NEW t \in Threads, RequestStopService(t) \/ QueueRequest(t)
        PROVE  ScmServes'
    BY <2>3 DEF RequestStopService, QueueRequest
  <2>4. ASSUME \/ InitializeOtherFails \/ PauseServiceWorkItem \/ ContinueServiceWorkItem
               \/ ShutdownWalkDone \/ CheckSecondary \/ ExitWorkLoop \/ TerminateConfig
               \/ DrainDone \/ InetinfoRegistered \/ WorkItemFails
        PROVE  ScmServes'
    BY <2>4 DEF InitializeOtherFails, PauseServiceWorkItem, ContinueServiceWorkItem,
         ShutdownWalkDone, CheckSecondary, ExitWorkLoop, TerminateConfig, DrainDone,
         InetinfoRegistered, WorkItemFails, elsewhere
  <2> QED
    BY <1>3, <2>1, <2>2, <2>3, <2>4, Zenon DEF OtherStep
<1> QED
  BY <1>1, <1>2, <1>3, Steps, Zenon

-----------------------------------------------------------------------------
(***************************************************************************)
(* Every step keeps the references of the pools counted.                   *)
(***************************************************************************)
Users(p) == Cardinality({a \in Applications : application[a] = p})

PoolsGood == \A p \in Pools : Good(appPool[p], Users(p))

\* A pool still to be shut down is in the table, and one being shut down has as
\* many worker processes as are still to be asked to leave; nobody shuts down
\* outside the walk; and the worker process in inetinfo that is to go is there.
WalkInStep ==
  /\ walk.pool \notin walk.todo
  /\ \A p \in walk.todo : appPool[p].inTable
  /\ walk.pool # NoPool => walk.left <= appPool[walk.pool].m_WorkerProcessCount
  /\ main # "Walk" => walk.todo = {} /\ walk.pool = NoPool
  /\ main = "RequestStop" => appPool[DefaultAppPool].m_WorkerProcessCount > 0

PoolInv == PoolsType /\ PoolsGood /\ WalkInStep

LEMMA UsersType ==
  ASSUME NEW p
  PROVE  Users(p) \in Nat
<1>1. IsFiniteSet({a \in Applications : application[a] = p})
  BY PoolsAssumption, FS_Subset
<1> QED
  BY <1>1, FS_CardinalityType DEF Users

\* One pool changes, the applications do not.
LEMMA OnePool ==
  ASSUME PoolsType, PoolsGood, NEW p \in Pools, NEW q, Good(q, Users(p)),
         appPool' = [appPool EXCEPT ![p] = q], UNCHANGED application
  PROVE  /\ appPool' \in [Pools -> AppPools] /\ application' \in [Applications -> Pools \cup {NoPool}]
         /\ PoolsGood'
<1>1. q \in AppPools
  BY DEF Good
<1>2. \A r : Users(r)' = Users(r)
  BY DEF Users
<1>3. ASSUME NEW r \in Pools
      PROVE  Good(appPool[r], Users(r))'
  <2>1. Good(appPool'[r], Users(r))
    BY DEF PoolsType, PoolsGood
  <2> QED
    BY <1>2, <2>1 DEF Good, References, InStep, Live
<1> QED
  BY <1>1, <1>3 DEF PoolsType, PoolsGood

\* Nothing about the pools changes.
LEMMA NoPoolChange ==
  ASSUME PoolInv, UNCHANGED poolVars,
         main' # main => main' \notin {"Walk", "RequestStop"} /\ walk.todo = {} /\ walk.pool = NoPool
  PROVE  PoolInv'
<1>1. PoolsType'
  BY DEF PoolInv, PoolsType, poolVars
<1>2. PoolsGood'
  BY DEF PoolInv, PoolsGood, poolVars, Good, References, InStep, Live, Users
<1>3. WalkInStep'
  BY DEF PoolInv, WalkInStep, poolVars
<1> QED
  BY <1>1, <1>2, <1>3 DEF PoolInv

LEMMA StatusKeepsPools ==
  ASSUME PoolInv, StatusStep
  PROVE  PoolInv'
<1>1. UNCHANGED poolVars
  BY StatusFrame DEF ulVars, poolVars
<1>2. main' # main => main' \notin {"Walk", "RequestStop"} /\ main # "Walk"
  <2>1. ASSUME NEW f \in Finishes, FinishStateTransition(f) \/ FinishStateTransitionLocked(f)
        PROVE  main' # main => main' \notin {"Walk", "RequestStop"} /\ main # "Walk"
    BY <2>1 DEF FinishStateTransition, FinishStateTransitionLocked, ItemDone, Finishes
  <2>2. ASSUME NEW t \in Threads, BeginRequest(t)
        PROVE  main' = main
    BY <2>2 DEF BeginRequest
  <2>3. ASSUME TimerFires \/ UpdatePendingServiceStatus
        PROVE  main' = main
    BY <2>3 DEF TimerFires, UpdatePendingServiceStatus
  <2>4. ASSUME StartServiceWorkItem \/ BeginStart \/ CancelTimer \/ DeleteTimerQueue \/ ReportStopped
        PROVE  main' \notin {"Walk", "RequestStop"} /\ main # "Walk"
    BY <2>4 DEF StartServiceWorkItem, Dispatch, ItemFails, BeginStart, CancelTimer,
                DeleteTimerQueue, ReportStopped
  <2> QED
    BY <2>1, <2>2, <2>3, <2>4, Zenon DEF StatusStep
<1> QED
  BY <1>1, <1>2, NoPoolChange DEF PoolInv, WalkInStep

LEMMA OtherKeepsPools ==
  ASSUME PoolInv, OtherStep
  PROVE  PoolInv'
<1>1. UNCHANGED poolVars
  BY OtherFrame DEF ulVars, poolVars
<1>2. CASE InetinfoWorkerFails
  BY <1>1, <1>2 DEF InetinfoWorkerFails, PoolInv, PoolsType, PoolsGood, WalkInStep, poolVars, Users,
     Good, References, InStep, Live
<1>3. CASE ~InetinfoWorkerFails
  <2> SUFFICES main' # main =>
                 main' \notin {"Walk", "RequestStop"} /\ walk.todo = {} /\ walk.pool = NoPool
    BY <1>1, NoPoolChange
  <2>1. ASSUME NEW c \in Controls, ScmSends(c)
        PROVE  main' = main
    BY <2>1 DEF ScmSends
  <2>2. ASSUME NEW t \in Threads, RequestStopService(t) \/ QueueRequest(t)
        PROVE  main' = main
    BY <2>2 DEF RequestStopService, QueueRequest
  <2>3. ASSUME ScmReturns \/ InetinfoCrashes
        PROVE  main' = main
    BY <2>3 DEF ScmReturns, InetinfoCrashes
  <2>4. ASSUME ShutdownWalkDone
        PROVE  main' \notin {"Walk", "RequestStop"} /\ walk.todo = {} /\ walk.pool = NoPool
    BY <2>4 DEF ShutdownWalkDone, ItemDone
  <2>5. ASSUME \/ InitializeOtherFails \/ PauseServiceWorkItem \/ ContinueServiceWorkItem
               \/ CheckSecondary \/ ExitWorkLoop \/ TerminateConfig
               \/ DrainDone \/ InetinfoRegistered \/ WorkItemFails
        PROVE  main' \notin {"Walk", "RequestStop"} /\ main # "Walk"
    BY <2>5 DEF InitializeOtherFails, PauseServiceWorkItem, ContinueServiceWorkItem,
         CheckSecondary, ExitWorkLoop, TerminateConfig, DrainDone, ItemFails, Dispatch,
         InetinfoRegistered, WorkItemFails
  <2>6. main # "Walk" => walk.todo = {} /\ walk.pool = NoPool
    BY DEF PoolInv, WalkInStep
  <2> QED
    BY <1>3, <2>1, <2>2, <2>3, <2>4, <2>5, <2>6, Zenon DEF OtherStep
<1> QED
  BY <1>2, <1>3

\* The work items of the loop leave the walk alone.
LEMMA LoopWalk ==
  ASSUME PoolInv, main \notin {"Walk"}, main' \notin {"Walk", "RequestStop"}, UNCHANGED walk
  PROVE  WalkInStep' /\ walk' \in [pool: Pools \cup {NoPool}, left: Nat, todo: SUBSET Pools]
  BY DEF PoolInv, PoolsType, WalkInStep

LEMMA ItemKeepsPools ==
  ASSUME PoolInv, NEW p \in Pools, NEW q, Good(q, Users(p)), OtherItem, PoolChanges(p, q),
         UNCHANGED application
  PROVE  PoolInv'
<1>1. WalkInStep' /\ walk' \in [pool: Pools \cup {NoPool}, left: Nat, todo: SUBSET Pools]
  BY LoopWalk DEF OtherItem
<1>2. /\ appPool' \in [Pools -> AppPools] /\ application' \in [Applications -> Pools \cup {NoPool}]
      /\ PoolsGood'
  BY OnePool DEF PoolInv, PoolChanges
<1> QED
  BY <1>1, <1>2 DEF PoolInv, PoolsType

LEMMA CreateKeepsPools ==
  ASSUME PoolInv, NEW p \in Pools, CreateAppPool(p)
  PROVE  PoolInv'
<1>1. Good(appPool[p], Users(p)) /\ Users(p) \in Nat
  BY UsersType DEF PoolInv, PoolsGood
<1>2. Users(p) = 0
  <2> DEFINE q == appPool[p]
             u == Users(p)
  <2>0. u \in Nat
    BY <1>1
  <2>1. q \in AppPools /\ q.m_RefCount = References(q, u) /\ ~Live(q) /\ ~(q.m_RefCount > 0)
    BY <1>1 DEF CreateAppPool, ConfigChange, OtherItem, Good, Live
  <2> HIDE DEF q, u
  <2>2. References(q, u) = 0 => u = 0
    BY <2>0, <2>1 DEF References, B, AppPools
  <2> QED
    BY <2>1, <2>2 DEF AppPools, u
<1>3. Good(Created(NoAppPool), Users(p))
  BY <1>2, CreatedGood
<1> QED
  BY <1>3, ItemKeepsPools DEF CreateAppPool, ConfigChange

LEMMA DeleteKeepsPools ==
  ASSUME PoolInv, NEW p \in Pools, DeleteAppPool(p)
  PROVE  PoolInv'
<1>1. Good(appPool[p], Users(p)) /\ Users(p) \in Nat
  BY UsersType DEF PoolInv, PoolsGood
<1>2. PICK survive \in 0 .. appPool[p].m_WorkerProcessCount :
        PoolChanges(p, Terminated(appPool[p], survive))
  BY DEF DeleteAppPool
<1>3. Good(Terminated(appPool[p], survive), Users(p))
  BY <1>1, TerminatedGood DEF DeleteAppPool
<1> QED
  BY <1>2, <1>3, ItemKeepsPools DEF DeleteAppPool, ConfigChange

LEMMA DemandStartKeepsPools ==
  ASSUME PoolInv, NEW p \in Pools, DemandStartWorkItem(p)
  PROVE  PoolInv'
<1> DEFINE q == Dereference([appPool[p] EXCEPT !.m_WaitingForDemandStart = FALSE])
           r == [q EXCEPT !.m_WorkerProcessCount = @ + 1, !.m_RefCount = @ + 1]
<1>1. Good(appPool[p], Users(p)) /\ Users(p) \in Nat
  BY UsersType DEF PoolInv, PoolsGood
<1>2. Good(q, Users(p))
  BY <1>1, WaitOverGood DEF DemandStartWorkItem
<1>3. q.m_State = "Running" => Good(r, Users(p))
  <2> HIDE DEF q
  <2> QED
    BY <1>1, <1>2, StartedGood
<1>4. /\ OtherItem /\ UNCHANGED application
      /\ \/ q.m_State = "Running" /\ PoolChanges(p, r)
         \/ PoolChanges(p, q)
  BY DEF DemandStartWorkItem
<1> HIDE DEF q, r
<1> QED
  BY <1>2, <1>3, <1>4, ItemKeepsPools

LEMMA WorkerKeepsPools ==
  ASSUME PoolInv, NEW p \in Pools,
         WorkerProcessRegistered(p) \/ WorkerProcessGone(p) \/ WorkerProcessDeleted(p)
  PROVE  PoolInv'
<1>1. Good(appPool[p], Users(p)) /\ Users(p) \in Nat
  BY UsersType DEF PoolInv, PoolsGood
<1>2. CASE WorkerProcessRegistered(p)
  <2>1. Good(WaitForDemandStartIfNeeded(appPool[p]), Users(p))
    BY <1>1, WaitGood
  <2> QED
    BY <1>2, <2>1, ItemKeepsPools DEF WorkerProcessRegistered
<1>3. CASE WorkerProcessGone(p)
  <2>1. PICK deleted \in BOOLEAN :
          PoolChanges(p, RemoveWorkerProcessFromList(appPool[p], deleted))
    BY <1>3 DEF WorkerProcessGone
  <2>2. Good(RemoveWorkerProcessFromList(appPool[p], deleted), Users(p))
    BY <1>1, <1>3, RemoveGood DEF WorkerProcessGone
  <2> QED
    BY <1>3, <2>1, <2>2, ItemKeepsPools DEF WorkerProcessGone
<1>4. CASE WorkerProcessDeleted(p)
  <2>1. Good(Dereference([appPool[p] EXCEPT !.leaving = @ - 1]), Users(p))
    BY <1>1, <1>4, DeletedGood DEF WorkerProcessDeleted
  <2> QED
    BY <1>4, <2>1, ItemKeepsPools DEF WorkerProcessDeleted
<1> QED
  BY <1>2, <1>3, <1>4

\* An application moves from one pool to another.
LEMMA ModifyKeepsPools ==
  ASSUME PoolInv, NEW p \in Pools, NEW a \in Applications, ModifyApplication(a, p)
  PROVE  PoolInv'
<1> DEFINE Of(r) == {b \in Applications : application[b] = r}
<1>0. PICK old : old = application[a]
  OBVIOUS
<1>1. /\ application' = [application EXCEPT ![a] = p] /\ old # p
      /\ old \in Pools \cup {NoPool} /\ NoPool \notin Pools
      /\ appPool[p].inTable
  BY <1>0, PoolsAssumption DEF ModifyApplication, PoolInv, PoolsType
<1>2. application \in [Applications -> Pools \cup {NoPool}] /\ appPool \in [Pools -> AppPools]
  BY DEF PoolInv, PoolsType
<1>3. \A r : IsFiniteSet(Of(r)) /\ Users(r) = Cardinality(Of(r)) /\ Users(r) \in Nat
  BY PoolsAssumption, FS_Subset, UsersType DEF Users
<1>4. Users(p)' = Users(p) + 1
  <2>1. {b \in Applications : application'[b] = p} = Of(p) \cup {a} /\ a \notin Of(p)
    BY <1>0, <1>1, <1>2
  <2>2. Users(p)' = Cardinality(Of(p) \cup {a})
    BY <2>1, Zenon DEF Users
  <2> HIDE DEF Of
  <2>3. Cardinality(Of(p) \cup {a}) = Cardinality(Of(p)) + 1
    BY <1>3, <2>1, FS_AddElement
  <2> QED
    BY <1>3, <2>2, <2>3
<1>5. Users(old) = Users(old)' + 1 /\ Users(old)' \in Nat
  <2>1. {b \in Applications : application'[b] = old} = Of(old) \ {a} /\ a \in Of(old)
    BY <1>0, <1>1, <1>2
  <2>2. Cardinality(Of(old) \ {a}) = Cardinality(Of(old)) - 1
        /\ IsFiniteSet(Of(old) \ {a}) /\ Cardinality(Of(old) \ {a}) \in Nat
    BY <1>3, <2>1, FS_RemoveElement, FS_CardinalityType
  <2>3. Users(old)' = Cardinality(Of(old) \ {a})
    BY <2>1, Zenon DEF Users
  <2> HIDE DEF Of
  <2> QED
    BY <1>3, <2>2, <2>3
<1>6. ASSUME NEW r \in Pools, r # p, r # old
      PROVE  Users(r)' = Users(r)
  <2>1. {b \in Applications : application'[b] = r} = Of(r)
    BY <1>0, <1>1, <1>2, <1>6
  <2> QED
    BY <2>1 DEF Users
<1>7. /\ appPool'[p] = [appPool[p] EXCEPT !.m_RefCount = @ + 1]
      /\ old \in Pools => appPool'[old] = Dereference(appPool[old])
      /\ \A r \in Pools : r # p /\ r # old => appPool'[r] = appPool[r]
  <2>1. appPool' = [appPool EXCEPT ![p].m_RefCount = @ + 1, ![old] = Dereference(@)]
    BY <1>0 DEF ModifyApplication
  <2> QED
    BY <1>1, <1>2, <2>1
<1>8. ASSUME NEW r \in Pools
      PROVE  Good(appPool'[r], Users(r)')
  <2>0. Good(appPool[r], Users(r)) /\ Users(r) \in Nat
    BY UsersType DEF PoolInv, PoolsGood
  <2>1. CASE r = p
    BY <1>1, <1>4, <1>7, <2>0, <2>1, ReferenceGood
  <2>2. CASE r = old
    <3> DEFINE n == Users(old)'
    <3>1. n \in Nat /\ Users(old) = n + 1
      BY <1>5
    <3>2. Good(appPool[old], n + 1)
      BY <2>0, <2>2, <3>1
    <3>3. Good(Dereference(appPool[old]), n)
      <4> HIDE DEF n
      <4> QED
        BY <3>1, <3>2, ApplicationLeavesGood
    <3> QED
      BY <1>7, <2>2, <3>3
  <2>3. CASE r # p /\ r # old
    BY <1>6, <1>7, <2>0, <2>3
  <2> QED
    BY <2>1, <2>2, <2>3
<1>9. PoolsGood'
  BY <1>8 DEF PoolsGood, Good, References, InStep, Live
<1>10. appPool' \in [Pools -> AppPools]
  <2>1. appPool' = [r \in Pools |-> appPool'[r]]
    BY <1>2 DEF ModifyApplication
  <2> QED
    BY <1>8, <2>1 DEF Good
<1>11. application' \in [Applications -> Pools \cup {NoPool}]
  BY <1>1, <1>2
<1>12. WalkInStep' /\ walk' \in [pool: Pools \cup {NoPool}, left: Nat, todo: SUBSET Pools]
  BY LoopWalk DEF ModifyApplication, ConfigChange, OtherItem
<1> QED
  BY <1>9, <1>10, <1>11, <1>12 DEF PoolInv, PoolsType

\* The walk over the table.
LEMMA StopKeepsPools ==
  ASSUME PoolInv, StopServiceWorkItem
  PROVE  PoolInv'
<1>1. UNCHANGED <<appPool, application>> /\ main # "Walk"
  BY DEF StopServiceWorkItem, Dispatch
<1>2. PoolsGood'
  BY <1>1 DEF PoolInv, PoolsGood, Good, References, InStep, Live, Users
<1>3. walk.pool = NoPool /\ NoPool \notin InTable /\ InTable \subseteq Pools
  BY <1>1, PoolsAssumption DEF PoolInv, WalkInStep, InTable
<1>4. CASE was.m_StoppingInProgress
  <2>1. UNCHANGED poolVars /\ main' \notin {"Walk", "RequestStop"}
    BY <1>1, <1>4 DEF StopServiceWorkItem, poolVars, ItemDone
  <2> QED
    BY <1>1, <2>1, NoPoolChange DEF PoolInv, WalkInStep
<1>5. CASE ~was.m_StoppingInProgress
  <2>1. walk' = [walk EXCEPT !.todo = InTable] /\ main' = "Walk"
    BY <1>5 DEF StopServiceWorkItem
  <2>2. PoolsType'
    BY <1>1, <1>3, <2>1 DEF PoolInv, PoolsType
  <2>3. walk'.pool = NoPool /\ walk'.todo = InTable
    BY <1>3, <2>1 DEF PoolInv, PoolsType
  <2>4. WalkInStep'
    BY <1>1, <1>3, <2>1, <2>3 DEF WalkInStep, InTable
  <2> QED
    BY <1>2, <2>2, <2>4 DEF PoolInv
<1> QED
  BY <1>4, <1>5

LEMMA ShutdownPoolKeepsPools ==
  ASSUME PoolInv, NEW p \in Pools, ShutdownAppPool(p)
  PROVE  PoolInv'
<1> DEFINE q == [appPool[p] EXCEPT !.m_State = "ShutdownPending"]
<1>1. /\ main = "Walk" /\ main' = main /\ p \in walk.todo /\ appPool[p].inTable
      /\ appPool' = [appPool EXCEPT ![p] = q] /\ UNCHANGED application
  BY DEF ShutdownAppPool, PoolInv, WalkInStep, elsewhere
<1>2. Good(appPool[p], Users(p)) /\ Users(p) \in Nat /\ appPool[p] \in AppPools
  BY UsersType DEF PoolInv, PoolsGood, PoolsType
<1>3. Good(q, Users(p))
  BY <1>1, <1>2, ShutdownGood
<1>4. /\ q.m_WorkerProcessCount = appPool[p].m_WorkerProcessCount
      /\ appPool[p].m_WorkerProcessCount \in Nat
  BY <1>2 DEF AppPools
<1> HIDE DEF q
<1>5. /\ appPool' \in [Pools -> AppPools] /\ application' \in [Applications -> Pools \cup {NoPool}]
      /\ PoolsGood'
  BY <1>1, <1>3, OnePool DEF PoolInv
<1>6. /\ walk'.pool = p /\ walk'.left = appPool[p].m_WorkerProcessCount
      /\ walk'.todo = walk.todo \ {p} /\ walk.todo \subseteq Pools
      /\ walk' \in [pool: Pools \cup {NoPool}, left: Nat, todo: SUBSET Pools]
  BY <1>4 DEF ShutdownAppPool, PoolInv, PoolsType
<1>7. /\ appPool'[p].m_WorkerProcessCount = appPool[p].m_WorkerProcessCount
      /\ \A r \in Pools : r # p => appPool'[r] = appPool[r]
  BY <1>1, <1>4 DEF PoolInv, PoolsType
<1>8. WalkInStep'
  BY <1>1, <1>4, <1>6, <1>7 DEF PoolInv, WalkInStep
<1> QED
  BY <1>5, <1>6, <1>8 DEF PoolInv, PoolsType

\* The pool of the walk changes, and keeps worker processes to be asked to leave.
LEMMA WalkPool ==
  ASSUME PoolInv, main = "Walk", main' = main, walk.pool # NoPool, NEW q, Good(q, Users(walk.pool)),
         appPool' = [appPool EXCEPT ![walk.pool] = q], UNCHANGED application,
         walk' \in [pool: Pools \cup {NoPool}, left: Nat, todo: SUBSET Pools],
         walk'.todo = walk.todo, walk'.pool \in {walk.pool, NoPool},
         walk'.pool = walk.pool => walk'.left <= q.m_WorkerProcessCount
  PROVE  PoolInv'
<1>0. PICK p \in Pools : p = walk.pool
  BY DEF PoolInv, PoolsType
<1>1. /\ appPool' \in [Pools -> AppPools] /\ application' \in [Applications -> Pools \cup {NoPool}]
      /\ PoolsGood'
  BY <1>0, OnePool DEF PoolInv
<1>2. appPool'[p] = q /\ \A r \in Pools : r # p => appPool'[r] = appPool[r]
  BY <1>0 DEF PoolInv, PoolsType
<1>3. walk.todo \subseteq Pools /\ p \notin walk.todo /\ p # NoPool /\ NoPool \notin Pools
  BY <1>0, PoolsAssumption DEF PoolInv, PoolsType, WalkInStep
<1>4. WalkInStep'
  BY <1>0, <1>2, <1>3 DEF PoolInv, WalkInStep
<1> QED
  BY <1>1, <1>4 DEF PoolInv, PoolsType

LEMMA ShutdownWorkerKeepsPools ==
  ASSUME PoolInv, ShutdownWorkerProcess
  PROVE  PoolInv'
<1> DEFINE p == walk.pool
<1>1. /\ main = "Walk" /\ main' = main /\ p # NoPool /\ walk.left > 0 /\ UNCHANGED application
      /\ walk' = [walk EXCEPT !.left = @ - 1]
  BY DEF ShutdownWorkerProcess, elsewhere
<1>2. /\ p \in Pools /\ walk.left \in Nat /\ walk.left - 1 \in Nat
      /\ walk.left <= appPool[p].m_WorkerProcessCount
      /\ appPool[p].m_WorkerProcessCount \in Nat /\ appPool \in [Pools -> AppPools]
  BY <1>1 DEF PoolInv, PoolsType, WalkInStep, AppPools
<1>3. Good(appPool[p], Users(p)) /\ Users(p) \in Nat
  BY <1>2, UsersType DEF PoolInv, PoolsGood
<1>4. /\ walk' \in [pool: Pools \cup {NoPool}, left: Nat, todo: SUBSET Pools]
      /\ walk'.todo = walk.todo /\ walk'.pool = p /\ walk'.left = walk.left - 1
  BY <1>1, <1>2, Zenon DEF PoolInv, PoolsType
<1>5. CASE UNCHANGED appPool
  <2>1. appPool' = [appPool EXCEPT ![p] = appPool[p]]
    BY <1>2, <1>5
  <2>2. walk'.left <= appPool[p].m_WorkerProcessCount
    BY <1>2, <1>4
  <2> QED
    BY <1>1, <1>3, <1>4, <2>1, <2>2, WalkPool
<1>6. CASE \E deleted \in BOOLEAN :
             PoolChanges(p, RemoveWorkerProcessFromList(appPool[p], deleted))
  <2>1. PICK deleted \in BOOLEAN :
             PoolChanges(p, RemoveWorkerProcessFromList(appPool[p], deleted))
    BY <1>6
  <2>2. appPool[p].m_WorkerProcessCount > 0
    BY <1>1, <1>2
  <2> DEFINE q == RemoveWorkerProcessFromList(appPool[p], deleted)
  <2>3. Good(q, Users(p)) /\ q.m_WorkerProcessCount = appPool[p].m_WorkerProcessCount - 1
    BY <1>3, <2>2, RemoveGood
  <2>4. appPool' = [appPool EXCEPT ![p] = q]
    BY <2>1 DEF PoolChanges
  <2> HIDE DEF q
  <2>5. walk'.left <= q.m_WorkerProcessCount
    BY <1>2, <1>4, <2>3
  <2> QED
    BY <1>1, <1>4, <2>3, <2>4, <2>5, WalkPool
<1> QED
  BY <1>5, <1>6 DEF ShutdownWorkerProcess

LEMMA ShutdownPoolDoneKeepsPools ==
  ASSUME PoolInv, ShutdownAppPoolDone
  PROVE  PoolInv'
<1> DEFINE p == walk.pool
           q == PoolShutdownDone(appPool[p])
<1>1. /\ main = "Walk" /\ main' = main /\ p # NoPool /\ UNCHANGED application
      /\ walk' = [walk EXCEPT !.pool = NoPool] /\ appPool' = [appPool EXCEPT ![p] = q]
  BY DEF ShutdownAppPoolDone, elsewhere, PoolChanges
<1>2. p \in Pools
  BY <1>1 DEF PoolInv, PoolsType
<1>3. Good(appPool[p], Users(p)) /\ Users(p) \in Nat
  BY <1>2, UsersType DEF PoolInv, PoolsGood
<1>4. Good(q, Users(p))
  BY <1>3, ShutdownDoneGood
<1>5. /\ walk' \in [pool: Pools \cup {NoPool}, left: Nat, todo: SUBSET Pools]
      /\ walk'.todo = walk.todo /\ walk'.pool = NoPool
  BY <1>1, Zenon DEF PoolInv, PoolsType
<1> HIDE DEF q
<1> QED
  BY <1>1, <1>4, <1>5, WalkPool

LEMMA InetinfoKeepsPools ==
  ASSUME PoolInv, InetinfoWorkerGone
  PROVE  PoolInv'
<1> DEFINE p == DefaultAppPool
<1>1. /\ main = "RequestStop" /\ main' = "CheckSecondary" /\ UNCHANGED <<application, walk>>
      /\ p \in Pools /\ appPool[p].m_WorkerProcessCount > 0
  BY PoolsAssumption DEF InetinfoWorkerGone, PoolInv, WalkInStep
<1>2. PICK deleted \in BOOLEAN :
        appPool' = [appPool EXCEPT ![p] = RemoveWorkerProcessFromList(appPool[p], deleted)]
  BY DEF InetinfoWorkerGone
<1>3. Good(appPool[p], Users(p)) /\ Users(p) \in Nat
  BY <1>1, UsersType DEF PoolInv, PoolsGood
<1>4. Good(RemoveWorkerProcessFromList(appPool[p], deleted), Users(p))
  BY <1>1, <1>3, RemoveGood
<1>5. /\ appPool' \in [Pools -> AppPools] /\ application' \in [Applications -> Pools \cup {NoPool}]
      /\ PoolsGood'
  BY <1>1, <1>2, <1>4, OnePool DEF PoolInv
<1>6. WalkInStep' /\ walk' \in [pool: Pools \cup {NoPool}, left: Nat, todo: SUBSET Pools]
  BY <1>1, LoopWalk
<1> QED
  BY <1>5, <1>6 DEF PoolInv, PoolsType

LEMMA TerminateKeepsPools ==
  ASSUME PoolInv, TerminateUl
  PROVE  PoolInv' /\ NoPoolLeft(appPool')
<1> DEFINE Left(p) == DereferenceTimes(appPool[p], Users(p))
<1>1. PICK survive \in [Pools -> 0..MaxWorkers] :
        /\ \A p \in Pools : survive[p] <= appPool[p].m_WorkerProcessCount
        /\ appPool' = [p \in Pools |->
             IF appPool[p].inTable THEN Terminated(Left(p), survive[p]) ELSE Left(p)]
  BY DEF TerminateUl, Users
<1>2. /\ main = "TerminateUl" /\ main' = "TerminateConfig" /\ UNCHANGED walk
      /\ application' = [a \in Applications |-> NoPool]
  BY DEF TerminateUl
<1>3. ASSUME NEW p \in Pools
      PROVE  Users(p)' = 0
  <2>1. {a \in Applications : application'[a] = p} = {}
    BY <1>2, PoolsAssumption
  <2> QED
    BY <2>1, FS_EmptySet DEF Users
<1>4. ASSUME NEW p \in Pools
      PROVE  Good(appPool'[p], 0) /\ ~appPool'[p].inTable
  <2>1. Good(appPool[p], Users(p)) /\ Users(p) \in Nat /\ appPool[p].m_WorkerProcessCount \in Nat
    BY UsersType DEF PoolInv, PoolsGood, PoolsType, AppPools
  <2>2. /\ Good(Left(p), 0) /\ Left(p).inTable = appPool[p].inTable
        /\ Left(p).m_WorkerProcessCount = appPool[p].m_WorkerProcessCount
    BY <2>1, DereferenceTimesGood
  <2>3. survive[p] \in 0 .. Left(p).m_WorkerProcessCount
    BY <1>1, <2>1, <2>2, PoolsAssumption
  <2> HIDE DEF Left
  <2>4. CASE appPool[p].inTable
    <3>1. appPool'[p] = Terminated(Left(p), survive[p])
      BY <1>1, <2>4
    <3> QED
      BY <2>2, <2>3, <2>4, <3>1, TerminatedGood
  <2>5. CASE ~appPool[p].inTable
    BY <1>1, <2>2, <2>5
  <2> QED
    BY <2>4, <2>5
<1>5. PoolsGood'
  BY <1>3, <1>4 DEF PoolsGood, Good, References, InStep, Live
<1>6. appPool' \in [Pools -> AppPools]
  <2>1. appPool' = [p \in Pools |-> appPool'[p]]
    BY <1>1
  <2> QED
    BY <1>4, <2>1 DEF Good
<1>7. application' \in [Applications -> Pools \cup {NoPool}]
  BY <1>2
<1>8. WalkInStep' /\ walk' \in [pool: Pools \cup {NoPool}, left: Nat, todo: SUBSET Pools]
  BY <1>2, LoopWalk
<1> QED
  BY <1>4, <1>5, <1>6, <1>7, <1>8 DEF PoolInv, PoolsType, NoPoolLeft

LEMMA InitializeKeepsPools ==
  ASSUME PoolInv, UlType, InitializeOther
  PROVE  PoolInv'
<1> DEFINE C == Cardinality(Applications)
           n == IF m_BackwardCompatibilityEnabled THEN 1 ELSE 0
           q == Created(NoAppPool)
           d == [q EXCEPT !.m_RefCount = @ + C + n, !.m_WorkerProcessCount = n]
<1>1. PICK configured \in SUBSET Pools :
        /\ DefaultAppPool \in configured
        /\ application' = [a \in Applications |-> DefaultAppPool]
        /\ appPool' = [p \in Pools |->
             IF p \notin configured THEN NoAppPool ELSE IF p # DefaultAppPool THEN q ELSE d]
  BY Zenon DEF InitializeOther
<1>2. /\ DefaultAppPool \in Pools /\ IsFiniteSet(Applications) /\ C \in Nat /\ n \in Nat
      /\ UNCHANGED walk /\ main \notin {"Walk"} /\ main' \notin {"Walk", "RequestStop"}
  BY PoolsAssumption, FS_CardinalityType DEF InitializeOther
<1>3. Users(DefaultAppPool)' = C
  <2>1. {a \in Applications : application'[a] = DefaultAppPool} = Applications
    BY <1>1
  <2> QED
    BY <2>1, Zenon DEF Users
<1>4. ASSUME NEW p \in Pools, p # DefaultAppPool
      PROVE  Users(p)' = 0
  <2>1. {a \in Applications : application'[a] = p} = {}
    BY <1>1, <1>4
  <2> QED
    BY <2>1, FS_EmptySet DEF Users
<1>5. /\ Good(q, 0) /\ q.inTable /\ q.m_WorkerProcessCount = 0
      /\ q \in AppPools /\ q.m_RefCount = References(q, 0) /\ InStep(q) /\ (Live(q) <=> q.m_RefCount > 0)
  BY CreatedGood DEF Good
<1>6. Good(d, C)
  <2> HIDE DEF q, C, n
  <2>1. q.m_RefCount \in Nat /\ q.m_RefCount + C + n \in Nat
    BY <1>2, <1>5 DEF AppPools
  <2>2. d \in AppPools
    BY <1>2, <1>5, <2>1, Zenon DEF AppPools
  <2>3. /\ d.m_State = q.m_State /\ d.m_RefCount = q.m_RefCount + C + n /\ d.inTable = q.inTable
        /\ d.m_WorkerProcessCount = n /\ d.leaving = q.leaving
        /\ d.m_WaitingForDemandStart = q.m_WaitingForDemandStart
    BY <1>5, Zenon DEF AppPools
  <2> HIDE DEF d
  <2>4. References(d, C) = References(q, 0) + C + n
    BY <1>2, <1>5, <2>3 DEF References, B, AppPools
  <2>5. InStep(d) /\ Live(d)
    BY <1>5, <2>3 DEF InStep, Live
  <2>6. Live(q) /\ q.m_RefCount > 0
    BY <1>5 DEF InStep, Live
  <2> QED
    BY <1>2, <1>5, <2>1, <2>2, <2>3, <2>4, <2>5, <2>6 DEF Good
<1> HIDE DEF q, d, C
<1>7. ASSUME NEW p \in Pools
      PROVE  Good(appPool'[p], Users(p)')
  <2>1. CASE p = DefaultAppPool
    BY <1>1, <1>3, <1>6, <2>1
  <2>2. CASE p # DefaultAppPool
    BY <1>1, <1>4, <1>5, <2>2, NoAppPoolGood
  <2> QED
    BY <2>1, <2>2
<1>8. PoolsGood'
  BY <1>7 DEF PoolsGood, Good, References, InStep, Live
<1>9. appPool' \in [Pools -> AppPools]
  <2>1. appPool' = [p \in Pools |-> appPool'[p]]
    BY <1>1
  <2> QED
    BY <1>7, <2>1 DEF Good
<1>10. application' \in [Applications -> Pools \cup {NoPool}]
  BY <1>1, <1>2
<1>11. WalkInStep' /\ walk' \in [pool: Pools \cup {NoPool}, left: Nat, todo: SUBSET Pools]
  BY <1>2, LoopWalk
<1> QED
  BY <1>8, <1>9, <1>10, <1>11 DEF PoolInv, PoolsType

LEMMA PoolStepKeepsPools ==
  ASSUME PoolInv, UlType, PoolStep
  PROVE  PoolInv'
  BY InitializeKeepsPools, StopKeepsPools, ShutdownPoolKeepsPools, ShutdownWorkerKeepsPools,
     ShutdownPoolDoneKeepsPools, CreateKeepsPools, DeleteKeepsPools, ModifyKeepsPools,
     DemandStartKeepsPools, WorkerKeepsPools, InetinfoKeepsPools, TerminateKeepsPools, Zenon
     DEF PoolStep

-----------------------------------------------------------------------------
(***************************************************************************)
(* The inductive invariant, and the theorems.                              *)
(***************************************************************************)
ServiceInv == StatusType /\ ThreadType /\ UlType /\ ScmServes /\ PoolInv

LEMMA ServiceInvInit == Init => ServiceInv
<1> SUFFICES ASSUME Init PROVE ServiceInv
  OBVIOUS
<1> USE DEF Init
<1>1. StatusType
  BY DEF StatusType, Statuses, Timers, ServiceStates
<1>2. ThreadType /\ ScmServes
  <2>1. <<"Start">> \in Seq(Items)
    BY DEF Items
  <2> QED
    BY <2>1 DEF ThreadType, Flags, Queues, MainSteps, Threads, Places, Monitors, ScmServes
<1>3. UlType
  BY PoolsAssumption DEF UlType
<1>4. PoolsType
  <2>1. NoAppPool \in AppPools
    BY NoAppPoolGood DEF Good
  <2>2. walk \in [pool: Pools \cup {NoPool}, left: Nat, todo: SUBSET Pools]
    BY DEF NoWalk
  <2> QED
    BY <2>1, <2>2 DEF PoolsType
<1>5. PoolsGood
  <2> SUFFICES ASSUME NEW p \in Pools PROVE Good(appPool[p], Users(p))
    BY DEF PoolsGood
  <2>1. {a \in Applications : application[a] = p} = {}
    BY PoolsAssumption
  <2>2. Users(p) = 0 /\ appPool[p] = NoAppPool
    BY <2>1, FS_EmptySet DEF Users
  <2> QED
    BY <2>2, NoAppPoolGood
<1>6. WalkInStep
  BY DEF WalkInStep, NoWalk
<1> QED
  BY <1>1, <1>2, <1>3, <1>4, <1>5, <1>6 DEF ServiceInv, PoolInv

LEMMA ServiceInvStep == ServiceInv /\ [Next]_vars => ServiceInv'
<1>1. ASSUME ServiceInv, UNCHANGED vars
      PROVE  ServiceInv'
  <2>1. PoolInv'
    BY <1>1, NoPoolChange DEF ServiceInv, vars, ulVars, serviceVars, poolVars
  <2> QED
    BY <1>1, <2>1 DEF ServiceInv, vars, ulVars, serviceVars, StatusType, ThreadType, UlType, ScmServes
<1>2. ASSUME ServiceInv, StatusStep
      PROVE  ServiceInv'
  <2>1. UlType'
    BY <1>2, StatusFrame DEF ServiceInv, UlType, ulVars
  <2> QED
    BY <1>2, <2>1, StatusTypeKept, ScmServesKept, StatusKeepsPools, Steps DEF ServiceInv
<1>3. ASSUME ServiceInv, PoolStep
      PROVE  ServiceInv'
  BY <1>3, PoolTypeKept, ScmServesKept, PoolStepKeepsPools, Steps DEF ServiceInv
<1>4. ASSUME ServiceInv, OtherStep
      PROVE  ServiceInv'
  <2>1. UlType'
    BY <1>4, OtherFrame DEF ServiceInv, UlType, ulVars
  <2> QED
    BY <1>4, <2>1, OtherTypeKept, ScmServesKept, OtherKeepsPools, Steps DEF ServiceInv
<1> QED
  BY <1>1, <1>2, <1>3, <1>4, Steps

LEMMA ServiceInvAlways == Spec => []ServiceInv
  BY ServiceInvInit, ServiceInvStep, PTL DEF Spec

\* Every variable of the service keeps its type; in particular no reference count
\* of a pool, no count of its worker processes and no count of those that leave
\* ever goes below zero (APP_POOL::Dereference, RemoveWorkerProcessFromList).
THEOREM TypeCorrect == Spec => []TypeOK
<1>1. ServiceInv => TypeOK
  BY TypeParts DEF ServiceInv, PoolInv
<1> QED
  BY <1>1, ServiceInvAlways, PTL

\* The reference count of a pool is the number of the references to it, and the
\* pool is deleted with the last one and not before (APP_POOL::Reference,
\* Dereference), for any number of pools, applications and worker processes.
THEOREM PoolRefCount == Spec => []PoolRefCountExact
<1>1. ServiceInv => PoolRefCountExact
  <2> SUFFICES ASSUME ServiceInv, NEW p \in Pools
               PROVE  /\ appPool[p].m_RefCount = PoolReferences(p)
                      /\ Live(appPool[p]) <=> appPool[p].m_RefCount > 0
    BY DEF PoolRefCountExact
  <2>1. Good(appPool[p], Users(p))
    BY DEF ServiceInv, PoolInv, PoolsGood
  <2> QED
    BY <2>1 DEF Good, References, B, PoolReferences, Users
<1> QED
  BY <1>1, ServiceInvAlways, PTL
=============================================================================
