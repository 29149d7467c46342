------------------------------ MODULE WpContext ------------------------------
(***************************************************************************)
(* WP_CONTEXT: how a worker process starts to listen, is told to shut down *)
(* and drains, with the monitor of pending requests, the idle timer and    *)
(* the waits for disconnections beside the pool of requests.               *)
(***************************************************************************)
EXTENDS WorkerRequest

\* A configuration: the sizes of the pool of requests, the restart count, the
\* ticks without work before the process asks to go; and bounds: how many
\* objects there are, how many requests clients have in processing, how many
\* disconnections are waited for, which calls may fail and how often.
Setting ==
  [desired : Nat, initial : Nat, restart : Nat, idleTime : Nat,
   maxRequests : 1 .. Cardinality(Req), maxBusy : Nat, maxDisconnects : Nat,
   faults : SUBSET FaultKinds, maxFaults : Nat]

ASSUME SettingsAssumption == Settings \subseteq Setting

\* There are finitely many request objects and threads.
ASSUME RequestAssumption == IsFiniteSet(Req) /\ NoReq \notin Req
ASSUME ThreadAssumption == IsFiniteSet(Thread)

vars == <<req, stack, pool, wp, main>>

\* NUM_INITIAL_REQUEST_POOL_ITEMS, or the restart count if that is smaller.
InitialRequests(s) ==
  IF s.restart = 0 \/ s.restart >= s.initial THEN s.initial ELSE s.restart

\* Start has been called.  _fImmediateShutdown is not initialized.
Init ==
  /\ req = [r \in Req |-> [NewRequest EXCEPT !.alive = FALSE, !._cRefs = 0]]
  /\ \E s \in Settings :
       /\ pool = [settings |-> s, sm_cRequests |-> 0, sm_cRequestsPending |-> 0,
                  sm_cRequestsServed |-> 0, sm_fAddingRequests |-> FALSE,
                  sm_cFreeRequests |-> 0, sm_FreeList |-> {}]
       /\ stack = [t \in AllThreads |->
                     IF t = Main
                       THEN <<Counted("AddPending", InitialRequests(s))>>
                       ELSE <<>>]
       /\ wp = [_fShutdown |-> FALSE, _fImmediateShutdown |-> "garbage",
                handle |-> "open", monitor |-> FALSE, idle |-> FALSE,
                _BusySignal |-> FALSE, _CurrentIdleTick |-> 0, read |-> -1, sent |-> {},
                sm_cOutstanding |-> 0, faults |-> s.maxFaults]
  /\ main = "Start"
-----------------------------------------------------------------------------
(* The timers.                                                             *)

\* Every five seconds: with nobody waiting, one request is added.
PendingRequestsMonitorHandler ==
  /\ wp.monitor /\ Idle(Monitor)
  /\ pool.sm_cRequestsPending = 0
  /\ stack' = [stack EXCEPT ![Monitor] = <<Counted("AddPending", 1)>>]
  /\ UNCHANGED <<req, pool, wp, main>>

\* Objects that are not waiting for a request: being processed, or free.
QueryCurrentRequests == wp.read - pool.sm_cRequestsPending

\* IncrementTick, every minute.  The signal is exchanged first; then the two
\* counters are read one after the other.
IdleTimeCheckCallback ==
  /\ wp.idle /\ wp.read = -1
  /\ wp' = [wp EXCEPT !._BusySignal = FALSE,
                      !._CurrentIdleTick = IF wp._BusySignal THEN 0 ELSE @,
                      !.read = IF wp._BusySignal THEN -1 ELSE pool.sm_cRequests]
  /\ UNCHANGED <<req, stack, pool, main>>

IncrementTick ==
  /\ wp.read # -1
  /\ LET limit == pool.settings.idleTime
         tick == IF QueryCurrentRequests # 0 THEN 0
                 ELSE IF wp._CurrentIdleTick < limit
                        THEN wp._CurrentIdleTick + 1 ELSE limit
     IN wp' = [wp EXCEPT !._CurrentIdleTick = tick, !.read = -1,
                         !.sent = IF tick = limit THEN @ \cup {"Idle"} ELSE @]
  /\ UNCHANGED <<req, stack, pool, main>>
-----------------------------------------------------------------------------
(* Messages from WAS, and the pipe.                                        *)

\* HandleShutdown, or PipeDisconnected with immediate = "yes".
IndicateShutdown(immediate) ==
  /\ main # "Done" /\ ~wp._fShutdown
  /\ wp' = [wp EXCEPT !._fShutdown = TRUE, !._fImmediateShutdown = immediate]
  /\ UNCHANGED <<req, stack, pool, main>>
-----------------------------------------------------------------------------
(* UlAtqWaitForDisconnect, which the core may call for a request it has.   *)

WaitForDisconnect(r) ==
  /\ req[r].alive /\ req[r].core
  /\ wp.handle # "closed"
  /\ wp.sm_cOutstanding < pool.settings.maxDisconnects
  /\ wp' = [wp EXCEPT !.sm_cOutstanding = @ + 1]
  /\ UNCHANGED <<req, stack, pool, main>>

Disconnected ==
  /\ wp.sm_cOutstanding > 0
  /\ wp' = [wp EXCEPT !.sm_cOutstanding = @ - 1]
  /\ UNCHANGED <<req, stack, pool, main>>
-----------------------------------------------------------------------------
(* The main thread: UlAtqStartListen, then UlAtqTerminate.                 *)

At(place) == main = place /\ Idle(Main)

\* The rest of Start: the two timers.
StartTimers ==
  /\ At("Start")
  /\ \/ wp' = [wp EXCEPT !.monitor = TRUE, !.idle = pool.settings.idleTime # 0] /\ main' = "Listening"
     \/ /\ CanFail("StartTimers")
        /\ \E monitor \in BOOLEAN :
             wp' = [wp EXCEPT !.monitor = monitor, !.faults = @ - 1]
        /\ main' = "StopListening"
  /\ UNCHANGED <<req, stack, pool>>

\* The wait for _hDoneEvent is over.
RunMainThreadLoop ==
  /\ At("Listening") /\ wp._fShutdown
  /\ main' = "StopListening"
  /\ UNCHANGED <<req, stack, pool, wp>>

\* HttpShutdownAppPool: no more requests come.
StopListening ==
  /\ At("StopListening")
  /\ wp' = [wp EXCEPT !.handle = "shutdown"]
  /\ main' = "StopMonitor"
  /\ UNCHANGED <<req, stack, pool>>

\* What a test of _fImmediateShutdown finds: anything, when Start has failed
\* and IndicateShutdown was never called.
Immediate ==
  CASE wp._fImmediateShutdown = "garbage" -> BOOLEAN
    [] wp._fImmediateShutdown = "yes" -> {TRUE}
    [] OTHER -> {FALSE}

\* DeleteTimerQueueTimer waits for the callback to return.
StopPendingRequestsMonitor ==
  /\ At("StopMonitor") /\ Idle(Monitor)
  /\ \E immediate \in Immediate :
       wp' = [wp EXCEPT !.monitor = FALSE,
                        !.handle = IF immediate THEN "closed" ELSE @]
  /\ main' = "Release"
  /\ UNCHANGED <<req, stack, pool>>

\* The objects on the free list are dereferenced; the others drain.
ReleaseFree ==
  /\ At("Release") /\ pool.sm_cRequests # 0
  /\ \E r \in pool.sm_FreeList :
       /\ pool' = [pool EXCEPT !.sm_FreeList = @ \ {r}]
       /\ stack' = [stack EXCEPT ![Main] = <<Call("Deref", r)>>]
  /\ UNCHANGED <<req, wp, main>>

\* Mutant of AllReleased: only the requests that wait are drained.
NoneWaiting ==
  /\ At("Release") /\ pool.sm_cRequestsPending = 0
  /\ wp' = [wp EXCEPT !.handle = "closed"]
  /\ main' = "Disconnects"
  /\ UNCHANGED <<req, stack, pool>>

\* Nothing is left: close the handle, unless that is done already.
AllReleased ==
  /\ At("Release") /\ pool.sm_cRequests = 0
  /\ wp' = [wp EXCEPT !.handle = "closed"]
  /\ main' = "Disconnects"
  /\ UNCHANGED <<req, stack, pool>>

WaitForOutstandingDisconnects ==
  /\ At("Disconnects") /\ wp.sm_cOutstanding = 0
  /\ main' = "Terminate"
  /\ UNCHANGED <<req, stack, pool, wp>>

\* WP_CONTEXT::Terminate.
Terminate ==
  /\ At("Terminate") /\ wp.read = -1
  /\ wp' = [wp EXCEPT !.idle = FALSE]
  /\ main' = "Done"
  /\ UNCHANGED <<req, stack, pool>>

MainStep ==
  \/ StartTimers \/ RunMainThreadLoop \/ StopListening
  \/ StopPendingRequestsMonitor \/ ReleaseFree \/ AllReleased
  \/ WaitForOutstandingDisconnects \/ Terminate

\* The process has ended.
Ended == main = "Done" /\ UNCHANGED vars

Next ==
  \/ Ended
  \/ \E t \in AllThreads : ThreadStep(t)
  \/ \E t \in Thread, r \in Req :
       OverlappedCompletionRoutine(t, r) \/ CoreContinues(t, r)
  \/ PendingRequestsMonitorHandler
  \/ IdleTimeCheckCallback \/ IncrementTick
  \/ \E immediate \in {"yes", "no"} : IndicateShutdown(immediate)
  \/ \E r \in Req : WaitForDisconnect(r)
  \/ Disconnected
  \/ MainStep

Spec == Init /\ [][Next]_vars
-----------------------------------------------------------------------------
Frame ==
  [fn : Calls, r : Req \cup {NoReq}, n : Int,
   res : {"None", "Ok", "MoreData", "Error"}]

\* Every variable has its type; in particular no counter becomes negative.
TypeOK ==
  /\ req \in [Req -> [alive : BOOLEAN, _ExecState : ExecState, _cRefs : Nat,
                       io : {"None", "Receive", "Call"}, core : BOOLEAN]]
  /\ stack \in [AllThreads -> Seq(Frame)]
  /\ pool \in [settings : Settings, sm_cRequests : Nat,
               sm_cRequestsPending : Nat, sm_cRequestsServed : Nat,
               sm_fAddingRequests : BOOLEAN, sm_cFreeRequests : Nat,
               sm_FreeList : SUBSET Req]
  /\ wp \in [_fShutdown : BOOLEAN,
             _fImmediateShutdown : {"garbage", "yes", "no"},
             handle : {"open", "shutdown", "closed"}, monitor : BOOLEAN,
             idle : BOOLEAN, _BusySignal : BOOLEAN, _CurrentIdleTick : Nat,
             read : Int, sent : SUBSET {"Idle", "Restart"}, sm_cOutstanding : Nat,
             faults : Nat]
  /\ main \in {"Start", "Listening", "StopListening", "StopMonitor", "Release",
              "Disconnects", "Terminate", "Done"}

Threads(r, fns) == {t \in AllThreads : Within(t, r, fns)}

\* HTTP.sys, the core, the free list or a thread will come back to r.
InUse(r) ==
  \/ req[r].io # "None" \/ req[r].core \/ r \in pool.sm_FreeList
  \/ Threads(r, {"DoWork", "Loop", "Receive", "Deref", "Free"}) # {}

Leaving(r) == Threads(r, {"Delete", "Release"}) # {}

\* A request object exists exactly as long as it is in somebody's hands.  It is
\* deleted only when no receive is outstanding on it, the W3 core has let go of
\* it, it is not on the free list and no thread holds a reference
\* (DereferenceWorkerRequest deletes at zero); and none is left with a reference
\* nobody will drop, for which ReleaseAllWorkerRequests would wait for ever.
ObjectsAccounted ==
  \A r \in Req :
    /\ ~req[r].alive \/ Leaving(r) => ~InUse(r)
    /\ req[r].alive => InUse(r) \/ Leaving(r) \/ Threads(r, {"Check"}) # {}

\* The state machine of a request is driven by one thread at a time, and by
\* none while an asynchronous call is outstanding or the object is free: there
\* is no lock, only the reference count decides who starts it over.
OneDriver ==
  \A r \in Req :
    LET drivers == Threads(r, {"DoWork", "Loop", "Receive", "Free"})
    IN /\ Cardinality(drivers) <= 1
       /\ req[r].io # "None" \/ r \in pool.sm_FreeList => drivers = {}

\* Objects that wait for a request, or whose thread is about to say otherwise.
Waiting ==
  {r \in Req : \/ req[r].io = "Receive" \/ Threads(r, {"Receive"}) # {}
               \/ /\ req[r]._ExecState = "READ"
                  /\ Threads(r, {"DoWork", "Loop"}) # {}}

Failures == pool.settings.maxFaults - wp.faults

\* What decides whether requests are added, freed and monitored is right.
\* sm_cRequestsPending is the number of objects that wait, but a failure to
\* allocate the larger buffer leaves one too many (workerrequest.cxx 491-495).  At
\* most one thread adds requests, and sm_fAddingRequests is set only while one
\* does: set for ever, neither threads nor the monitor could add any; a failed
\* allocation does leave it set (workerrequest.cxx 1601).
PoolExact ==
  LET adders == {t \in AllThreads :
                   \E i \in DOMAIN stack[t] : stack[t][i].fn = "Adding"}
  IN /\ pool.sm_cRequestsPending - Cardinality(Waiting) \in 0 .. Failures
     /\ Cardinality(adders) <= 1
     /\ pool.sm_fAddingRequests => adders # {} \/ Failures > 0

\* In a shutdown that is not immediate the handle to HTTP.sys is closed only
\* when the last request has been dealt with (CleanupOutstandingRequests).
GracefulDrain ==
  [][ wp.handle # "closed" /\ wp'.handle = "closed"
        /\ wp._fImmediateShutdown = "no" => \A r \in Req : ~InUse(r) ]_vars

\* A process that no longer takes requests because it has served its count has
\* told WAS, which replaces it: once no request waits or is being processed,
\* the message has been sent, whichever thread met the limit (DoStateStart).
RestartTold ==
  /\ main = "Listening" /\ ~wp._fShutdown /\ RestartReached
  /\ \A t \in AllThreads : Idle(t)
  /\ \A r \in Req : req[r].alive => r \in pool.sm_FreeList
  => "Restart" \in wp.sent
=============================================================================
