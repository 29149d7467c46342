---------------------------- MODULE WorkerRequest ----------------------------
(***************************************************************************)
(* The pool of UL_NATIVE_REQUEST objects of a worker process.  A request   *)
(* object waits for an HTTP request from HTTP.sys, is driven through its   *)
(* states by whichever thread its I/O completes on, and starts over when   *)
(* its last reference but one is dropped.  The counters of the pool, the   *)
(* free list and the objects are shared by all threads without a lock.     *)
(*                                                                         *)
(* A thread is a stack of calls, the innermost first.  Each step of a      *)
(* thread is one access to what other threads can see.  HTTP.sys and the   *)
(* W3 core that processes requests are external.                           *)
(***************************************************************************)
EXTENDS Integers, Sequences, FiniteSets

CONSTANTS
  Req,            \* memory for request objects
  NoReq,          \* no request
  Thread,         \* the threads of the thread pool
  Main,           \* the main thread of the worker process
  Monitor,        \* the timer thread that calls PendingRequestsMonitorHandler
  Settings,       \* the configurations: see pool.settings
  MaxFree,        \* sm_cMaxFreeRequests
  StaleReuse      \* may memory be used again while a thread still looks at it?

VARIABLES
  req,            \* the request objects
  stack,          \* the calls of each thread
  pool,           \* the static members of UL_NATIVE_REQUEST
  wp,             \* WP_CONTEXT: shutdown flags, handle, idle timer, messages
  main            \* where the main thread is

AllThreads == Thread \cup {Main, Monitor}

FaultKinds == {"Receive", "Buffer", "Allocate", "StartTimers"}
ExecState == {"START", "READ", "PROCESS", "ERROR", "CLIENT_CERT"}
Calls == {"DoWork", "Loop", "Receive", "Deref", "Check", "Delete", "Release",
          "Free", "Count", "AddPending", "Adding"}

Call(fn, r) == [fn |-> fn, r |-> r, n |-> 0, res |-> "None"]
Kick(r) == Call("DoWork", r)
Counted(fn, n) == [fn |-> fn, r |-> NoReq, n |-> n, res |-> "None"]

Idle(t) == stack[t] = <<>>
Top(t) == Head(stack[t])
Is(t, fn) == ~Idle(t) /\ Top(t).fn = fn
Return(t) == stack' = [stack EXCEPT ![t] = Tail(@)]
Continue(t, calls) == stack' = [stack EXCEPT ![t] = calls \o Tail(@)]

\* Is thread t inside one of the calls fns for request r, at any depth?
Within(t, r, fns) ==
  \E i \in DOMAIN stack[t] : stack[t][i].fn \in fns /\ stack[t][i].r = r

CanFail(f) == f \in pool.settings.faults /\ wp.faults > 0
Failed == wp' = [wp EXCEPT !.faults = @ - 1]

NewRequest ==
  [alive |-> TRUE, _ExecState |-> "START", _cRefs |-> 1, io |-> "None",
   core |-> FALSE]

\* Reset: ready for the next HTTP request.
Reset(r) == [req EXCEPT ![r]._ExecState = "START", ![r].core = FALSE]
-----------------------------------------------------------------------------
(* The state machine: DoWork and the states it drives.                     *)

\* The reference DoWork takes; on a completion, that of the I/O goes.
DoWork(t) ==
  /\ Is(t, "DoWork")
  /\ req' = [req EXCEPT ![Top(t).r]._cRefs =
               IF Top(t).res = "None" THEN @ + 1 ELSE @]
  /\ Continue(t, <<[Top(t) EXCEPT !.fn = "Loop"], Call("Deref", Top(t).r)>>)
  /\ UNCHANGED <<pool, wp, main>>

InState(t, s) == Is(t, "Loop") /\ req[Top(t).r]._ExecState = s

RestartReached ==
  pool.settings.restart # 0 /\ pool.sm_cRequestsServed >= pool.settings.restart

\* Mutant of StartRefused: the object goes without a word.
StartRefusedQuietly(t) ==
  /\ wp._fShutdown \/ RestartReached
  /\ req' = [req EXCEPT ![Top(t).r]._ExecState = "ERROR"]
  /\ UNCHANGED <<stack, pool, wp>>

\* No new request is waited for in shutdown or once enough have been served.
StartRefused(t) ==
  /\ wp._fShutdown \/ RestartReached
  /\ req' = [req EXCEPT ![Top(t).r]._ExecState = "ERROR"]
  /\ wp' = IF wp._fShutdown THEN wp ELSE [wp EXCEPT !.sent = @ \cup {"Restart"}]
  /\ UNCHANGED <<stack, pool>>

\* Mutant of StartAllowed: the receive is not counted as pending.
StartUncounted(t) ==
  /\ req' = [req EXCEPT ![Top(t).r]._ExecState = "READ",
                        ![Top(t).r]._cRefs = @ + 1]
  /\ Continue(t, <<Call("Receive", Top(t).r)>>)
  /\ UNCHANGED <<pool, wp>>

\* Mutant of StartAllowed: the receive takes no reference.
StartUnreferenced(t) ==
  /\ req' = [req EXCEPT ![Top(t).r]._ExecState = "READ"]
  /\ pool' = [pool EXCEPT !.sm_cRequestsPending = @ + 1]
  /\ Continue(t, <<Call("Receive", Top(t).r)>>)
  /\ UNCHANGED wp

\* The receive is counted and referenced before HTTP.sys is called.
StartAllowed(t) ==
  /\ req' = [req EXCEPT ![Top(t).r]._ExecState = "READ",
                        ![Top(t).r]._cRefs = @ + 1]
  /\ pool' = [pool EXCEPT !.sm_cRequestsPending = @ + 1]
  /\ Continue(t, <<Call("Receive", Top(t).r)>>)
  /\ UNCHANGED wp

DoStateStart(t) ==
  /\ InState(t, "START")
  /\ \/ StartRefused(t)
     \/ ~wp._fShutdown /\ ~RestartReached /\ StartAllowed(t)
  /\ UNCHANGED main

\* HttpReceiveHttpRequest is pending, or has failed at once.
ReceivePending(t) ==
  /\ wp.handle = "open"
  /\ req' = [req EXCEPT ![Top(t).r].io = "Receive"]
  /\ Return(t)
  /\ UNCHANGED <<pool, wp>>

\* Mutant of ReceiveFailed: a failed receive stays counted.
ReceiveFailedCounted(t) ==
  /\ IF wp.handle # "open" THEN UNCHANGED wp ELSE CanFail("Receive") /\ Failed
  /\ req' = [req EXCEPT ![Top(t).r]._ExecState = "ERROR",
                        ![Top(t).r]._cRefs = @ - 1]
  /\ Continue(t, <<Call("Loop", Top(t).r)>>)
  /\ UNCHANGED pool

ReceiveFailed(t) ==
  /\ IF wp.handle # "open" THEN UNCHANGED wp ELSE CanFail("Receive") /\ Failed
  /\ req' = [req EXCEPT ![Top(t).r]._ExecState = "ERROR",
                        ![Top(t).r]._cRefs = @ - 1]
  /\ pool' = [pool EXCEPT !.sm_cRequestsPending = @ - 1]
  /\ Continue(t, <<Call("Loop", Top(t).r)>>)

Receive(t) ==
  /\ Is(t, "Receive")
  /\ ReceivePending(t) \/ ReceiveFailed(t)
  /\ UNCHANGED main

\* The request has come.  When few are left waiting, more are added first.
ReadDone(t) ==
  LET current == pool.sm_cRequestsPending - 1
      desired == pool.settings.desired
  IN /\ pool' = [pool EXCEPT !.sm_cRequestsPending = current]
     /\ req' = [req EXCEPT ![Top(t).r]._ExecState = "PROCESS"]
     /\ IF current < desired \div 2
          THEN Continue(t, <<Counted("AddPending", desired - current), Top(t)>>)
          ELSE UNCHANGED stack
     /\ UNCHANGED wp

\* It has not: wait for another one.
ReadFailed(t) ==
  /\ pool' = [pool EXCEPT !.sm_cRequestsPending = @ - 1]
  /\ req' = Reset(Top(t).r)
  /\ UNCHANGED <<stack, wp>>

\* No memory for a large request: the object goes, but stays counted.
NoBuffer(t) ==
  /\ CanFail("Buffer") /\ Failed
  /\ req' = [req EXCEPT ![Top(t).r]._ExecState = "ERROR"]
  /\ UNCHANGED <<stack, pool>>

\* ERROR_MORE_DATA: a second, synchronous receive with a larger buffer.
DoStateRead(t) ==
  /\ InState(t, "READ")
  /\ \/ Top(t).res = "Ok" /\ ReadDone(t)
     \/ Top(t).res = "Error" /\ ReadFailed(t)
     \/ Top(t).res = "MoreData" /\ NoBuffer(t)
     \/ Top(t).res = "MoreData" /\ wp.handle # "closed" /\ ReadDone(t)
     \/ Top(t).res = "MoreData" /\ wp.handle = "closed" /\ ReadFailed(t)
  /\ UNCHANGED main

\* What the W3 core does when it is called with request r, which takes refs
\* references: it keeps the request for a thread of its own, begins another
\* asynchronous call, or is done with it.
CoreKeeps(r, refs) ==
  req' = [req EXCEPT ![r]._ExecState = "PROCESS", ![r].core = TRUE,
                     ![r]._cRefs = @ + refs]
CoreCalls(r, refs) ==
  /\ wp.handle # "closed"
  /\ \E s \in {"PROCESS", "CLIENT_CERT"} :
       req' = [req EXCEPT ![r]._ExecState = s, ![r].core = TRUE,
                          ![r].io = "Call", ![r]._cRefs = @ + refs + 1]
CoreFinishes(r, refs) ==
  req' = [req EXCEPT ![r]._ExecState = "PROCESS", ![r].core = FALSE,
                     ![r]._cRefs = @ + refs - 1]
CoreCalled(r, refs) ==
  CoreKeeps(r, refs) \/ CoreCalls(r, refs) \/ CoreFinishes(r, refs)

\* A new request gets a reference for the core's context.
DoStateProcess(t) ==
  /\ InState(t, "PROCESS")
  /\ wp' = [wp EXCEPT !._BusySignal = TRUE, !._CurrentIdleTick = 0]
  /\ CoreCalled(Top(t).r, IF req[Top(t).r].core THEN 0 ELSE 1)
  /\ Return(t)
  /\ UNCHANGED <<pool, main>>

DoStateClientCertificate(t) ==
  /\ InState(t, "CLIENT_CERT")
  /\ CoreCalled(Top(t).r, 0)
  /\ Return(t)
  /\ UNCHANGED <<pool, wp, main>>

\* The object's own reference goes; the caller's is still there.
DoStateError(t) ==
  /\ InState(t, "ERROR")
  /\ req' = [req EXCEPT ![Top(t).r]._cRefs = @ - 1]
  /\ Return(t)
  /\ UNCHANGED <<pool, wp, main>>
-----------------------------------------------------------------------------
(* The end of a reference, and what becomes of the object.                 *)

DereferenceWorkerRequest(t) ==
  /\ Is(t, "Deref")
  /\ LET r == Top(t).r
         refs == req[r]._cRefs - 1
     IN /\ req' = [req EXCEPT ![r]._cRefs = refs]
        /\ CASE refs = 0 -> Continue(t, <<Call("Delete", r)>>)
             [] refs = 1 -> Continue(t, <<Call("Check", r)>>)
             [] OTHER -> Return(t)
  /\ UNCHANGED <<pool, wp, main>>

\* One reference was left a moment ago.  The state is read only now, when
\* another thread may have deleted the object.
StartOver(t) ==
  LET r == Top(t).r
  IN /\ pool' = [pool EXCEPT !.sm_cRequestsServed =
                   IF @ < pool.settings.restart THEN @ + 1 ELSE @]
     /\ IF pool.sm_cRequestsPending > pool.settings.desired * 2
          THEN Continue(t, <<Call("Free", r)>>) /\ UNCHANGED req
          ELSE Continue(t, <<Kick(r)>>) /\ req' = Reset(r)

\* Mutant of CheckState: an object that is on its way out is started over as well.
CheckStateNever(t) ==
  /\ Is(t, "Check")
  /\ StartOver(t)
  /\ UNCHANGED <<wp, main>>

CheckState(t) ==
  /\ Is(t, "Check")
  /\ IF req[Top(t).r]._ExecState = "ERROR"
       THEN Return(t) /\ UNCHANGED <<req, pool>>
       ELSE StartOver(t)
  /\ UNCHANGED <<wp, main>>

FreeWorkerRequest(t) ==
  /\ Is(t, "Free")
  /\ LET r == Top(t).r
     IN IF pool.sm_cFreeRequests > MaxFree \/ wp._fShutdown
          THEN Continue(t, <<Call("Deref", r)>>) /\ UNCHANGED <<req, pool>>
          ELSE /\ req' = Reset(r)
               /\ pool' = [pool EXCEPT !.sm_FreeList = @ \cup {r}]
               /\ Continue(t, <<Counted("Count", pool.sm_cFreeRequests + 1)>>)
  /\ UNCHANGED <<wp, main>>

\* sm_cFreeRequests++ and -- are not interlocked: what was read is written.
CountFree(t) ==
  /\ Is(t, "Count")
  /\ pool' = [pool EXCEPT !.sm_cFreeRequests = Top(t).n]
  /\ Return(t)
  /\ UNCHANGED <<req, wp, main>>

\* The destructor, then operator delete.
RemoveFromRequestList(t) ==
  /\ Is(t, "Delete")
  /\ pool' = [pool EXCEPT !.sm_cRequests = @ - 1]
  /\ Continue(t, <<Call("Release", Top(t).r)>>)
  /\ UNCHANGED <<req, wp, main>>

ReleaseMemory(t) ==
  /\ Is(t, "Release")
  /\ req' = [req EXCEPT ![Top(t).r].alive = FALSE]
  /\ Return(t)
  /\ UNCHANGED <<pool, wp, main>>
-----------------------------------------------------------------------------
(* Adding requests to the pool.                                            *)

AddPendingRequests(t) ==
  /\ Is(t, "AddPending")
  /\ IF pool.sm_fAddingRequests
       THEN Return(t) /\ UNCHANGED pool
       ELSE /\ pool' = [pool EXCEPT !.sm_fAddingRequests = TRUE]
            /\ Continue(t, <<Counted("Adding", Top(t).n)>>)
  /\ UNCHANGED <<req, wp, main>>

\* What AllocateWorkerRequest finds: sm_cFreeRequests may say otherwise than
\* the list.
OneIsFree == pool.sm_cFreeRequests # 0 /\ pool.sm_FreeList # {}

AtBound ==
  Cardinality({r \in Req : req[r].alive}) >= pool.settings.maxRequests

Allocatable(r) ==
  /\ ~req[r].alive /\ ~AtBound
  /\ StaleReuse \/ \A t \in AllThreads : ~Within(t, r, {"Check"})

AddFromFreeList(t) ==
  /\ OneIsFree
  /\ \E r \in pool.sm_FreeList :
       /\ pool' = [pool EXCEPT !.sm_FreeList = @ \ {r}]
       /\ Continue(t, <<Counted("Count", pool.sm_cFreeRequests - 1), Kick(r),
                        Counted("Adding", Top(t).n - 1)>>)
  /\ UNCHANGED <<req, wp, main>>

AddAllocated(t) ==
  /\ ~OneIsFree
  /\ \E r \in Req :
       /\ Allocatable(r)
       /\ req' = [req EXCEPT ![r] = NewRequest]
       /\ Continue(t, <<Kick(r), Counted("Adding", Top(t).n - 1)>>)
  /\ pool' = [pool EXCEPT !.sm_cRequests = @ + 1]
  /\ UNCHANGED <<wp, main>>

\* The early return leaves sm_fAddingRequests set.
AddFailed(t) ==
  /\ ~OneIsFree
  /\ CanFail("Allocate") /\ Failed
  /\ Return(t)
  /\ main' = IF t = Main THEN "StopListening" ELSE main
  /\ UNCHANGED <<req, pool>>

AddOne(t) ==
  /\ Is(t, "Adding") /\ Top(t).n > 0
  /\ AddFromFreeList(t) \/ AddAllocated(t) \/ AddFailed(t)

\* Bound: at the limit, with no object to be had, the loop ends early.
AddDone(t) ==
  /\ Is(t, "Adding")
  /\ Top(t).n = 0 \/ (AtBound /\ ~OneIsFree)
  /\ pool' = [pool EXCEPT !.sm_fAddingRequests = FALSE]
  /\ Return(t)
  /\ UNCHANGED <<req, wp, main>>
-----------------------------------------------------------------------------
(* What HTTP.sys and the W3 core do by themselves.                         *)

\* Clients have at most maxBusy requests in processing.
MoreMayCome ==
  LET came == {r \in Req :
                 \/ req[r].alive /\ req[r]._ExecState \in {"PROCESS", "CLIENT_CERT"}
                 \/ \E t \in Thread : \E i \in DOMAIN stack[t] :
                      stack[t][i].r = r /\ stack[t][i].res \in {"Ok", "MoreData"}}
  IN Cardinality(came) < pool.settings.maxBusy

\* An asynchronous call completes on a thread of the pool.  Receives are
\* cancelled when the pool is shut down; what had arrived before may still
\* complete successfully.
Completes(r, res) ==
  \/ req[r].io = "Call" /\ res = "Ok"
  \/ req[r].io = "Receive" /\ res # "Error" /\ MoreMayCome
  \/ /\ req[r].io = "Receive" /\ res = "Error"
     /\ wp.handle # "open" \/ CanFail("Receive")

OverlappedCompletionRoutine(t, r) ==
  \E res \in {"Ok", "MoreData", "Error"} :
    /\ t \in Thread /\ Idle(t)
    /\ Completes(r, res)
    /\ req' = [req EXCEPT ![r].io = "None"]
    /\ stack' = [stack EXCEPT ![t] = <<[Kick(r) EXCEPT !.res = res]>>]
    /\ IF res = "Error" /\ wp.handle = "open" THEN Failed ELSE UNCHANGED wp
    /\ UNCHANGED <<pool, main>>

\* A thread of the core goes on with a request the core has kept.
CoreHas(r) ==
  /\ req[r].alive /\ req[r].core /\ req[r].io = "None"
  /\ \A t \in AllThreads : ~Within(t, r, {"DoWork", "Loop"})

CoreContinues(t, r) ==
  /\ t \in Thread /\ Idle(t)
  /\ CoreHas(r)
  /\ \/ CoreCalls(r, 0) /\ UNCHANGED stack
     \/ /\ req' = [req EXCEPT ![r].core = FALSE]
        /\ stack' = [stack EXCEPT ![t] = <<Call("Deref", r)>>]
  /\ UNCHANGED <<pool, wp, main>>

ThreadStep(t) ==
  \/ DoWork(t) \/ DoStateStart(t) \/ Receive(t) \/ DoStateRead(t)
  \/ DoStateProcess(t) \/ DoStateClientCertificate(t) \/ DoStateError(t)
  \/ DereferenceWorkerRequest(t) \/ CheckState(t) \/ FreeWorkerRequest(t)
  \/ CountFree(t) \/ RemoveFromRequestList(t) \/ ReleaseMemory(t)
  \/ AddPendingRequests(t) \/ AddOne(t) \/ AddDone(t)
=============================================================================
