--------------------------- MODULE WasPingProofs ---------------------------
(***************************************************************************)
(* The health monitoring of worker processes, for every number of objects  *)
(* and every setting: a running process is never left without a ping that  *)
(* is due or outstanding, and a ping failure is the failure of the ping    *)
(* that is outstanding, not of an earlier one.                             *)
(*                                                                         *)
(* Both properties speak of the moments between two work items.  Within    *)
(* one, a process may be running unwatched; then a call is pending that    *)
(* will schedule its first ping or end it.  And that a stale expiry cannot *)
(* be taken for a new one depends on the order of the queue: the item that *)
(* sends the next ping stands behind it.                                   *)
(***************************************************************************)
EXTENDS WasObjectProofs

-----------------------------------------------------------------------------
(***************************************************************************)
(* The inductive invariant.                                                *)
(***************************************************************************)
IsPing(item, w) == item = Item("SendPing", w)
IsDeadline(item, w) == item = Item("PingResponse", w)

\* No ping has been scheduled for w, nor sent.
Unpinged(r, q, w) ==
  /\ ~r.m_AwaitingPingReply
  /\ r.handle["SendPing"] = "NULL" /\ r.handle["PingResponse"] = "NULL"
  /\ \A i \in 1 .. Len(q) : ~IsPing(q[i], w) /\ ~IsDeadline(q[i], w)

\* A ping is due or outstanding, never both, and only an outstanding one has a
\* deadline.
Alternate(r) ==
  /\ r.m_AwaitingPingReply => r.handle["SendPing"] = "NULL"
  /\ ~r.m_AwaitingPingReply => r.handle["PingResponse"] = "NULL"

\* The items in the queue are those of timers that have fired, except for a deadline
\* that its reply has overtaken; the next ping, which comes behind it, has not been
\* sent.
Orderly(r, q, w) ==
  /\ \A i, j \in 1 .. Len(q) : IsPing(q[i], w) /\ IsPing(q[j], w) => i = j
  /\ \A i, j \in 1 .. Len(q) : IsDeadline(q[i], w) /\ IsDeadline(q[j], w) => i = j
  /\ \A i \in 1 .. Len(q) : IsPing(q[i], w) => r.handle["SendPing"] = "fired"
  /\ \A i \in 1 .. Len(q) : IsDeadline(q[i], w) =>
       /\ r.handle["PingResponse"] # "armed"
       /\ r.handle["PingResponse"] # "fired" =>
            /\ ~r.m_AwaitingPingReply
            /\ \A j \in 1 .. Len(q) : IsPing(q[j], w) => j > i

\* A ping is due or outstanding, and an outstanding one has a deadline unless a
\* debugger excused it.
Due(r) == r.handle["SendPing"] = "NULL" => r.m_AwaitingPingReply
Watched(r) ==
  /\ Due(r)
  /\ r.m_AwaitingPingReply /\ r.handle["PingResponse"] = "NULL" => r.m_IgnoredPingDueToDebugger

\* The call f will schedule the first ping of w, or end its running.
Attends(f, r, w) ==
  \/ f.fn \in {"StartupTail", "Shutdown", "Terminate"} /\ f.w = w
  \/ f = Ill(w, "InternalError")
  \/ f = Ill(w, "PingFailure") /\ Due(r)

Young == {"Uninitialized", "RegistrationPending", "RegistrationPendingShutdownPending"}
Gone(r) == r.m_State \in {"Free", "DeletePending"}

\* What is true of the record r of w when q is the queue and F the calls to be made.
Pinged(r, q, F, w) ==
  /\ r.m_State \in Young =>
       /\ Unpinged(r, q, w)
       /\ \A f \in F : f.fn = "StartupTail" => f.w # w
  /\ r.m_State = "Running" =>
       /\ r.m_pMessagingHandler # "NULL"
       /\ Alternate(r) /\ Orderly(r, q, w)
       /\ \A f \in F : f.fn = "StartupTail" /\ f.w = w => Unpinged(r, q, w)
       /\ Pinging => Watched(r) \/ \E f \in F : Attends(f, r, w)
  /\ r.m_TerminalIllReason # "NotIll" =>
       Gone(r) \/ \E f \in F : f.fn = "Terminate" /\ f.w = w

Calls == {stack[i] : i \in 1 .. Len(stack)}
PingInv == \A w \in WP : Pinged(wp[w], queue, Calls, w)

-----------------------------------------------------------------------------
(***************************************************************************)
(* What changes of a record, of the queue and of the calls matter.         *)
(***************************************************************************)
SamePing(s, r) ==
  /\ s.m_State = r.m_State
  /\ s.m_TerminalIllReason = r.m_TerminalIllReason
  /\ s.m_AwaitingPingReply = r.m_AwaitingPingReply
  /\ s.m_IgnoredPingDueToDebugger = r.m_IgnoredPingDueToDebugger
  /\ s.m_pMessagingHandler = "NULL" => r.m_pMessagingHandler = "NULL"
  /\ s.handle["SendPing"] = r.handle["SendPing"]
  /\ s.handle["PingResponse"] = r.handle["PingResponse"]

LEMMA SamePingTrans ==
  ASSUME NEW r, NEW s, NEW t, SamePing(s, r), SamePing(t, s)
  PROVE  SamePing(t, r)
  BY DEF SamePing

\* Nothing is asked of an object that is gone.
LEMMA GonePinged ==
  ASSUME NEW r, NEW q, NEW F, NEW w, Gone(r)
  PROVE  Pinged(r, q, F, w)
  BY DEF Gone, Pinged, Young

\* The parts of the invariant only depend on what SamePing compares.
LEMMA SameParts ==
  ASSUME NEW r, NEW s, SamePing(s, r), NEW q, NEW w
  PROVE  /\ Unpinged(r, q, w) => Unpinged(s, q, w)
         /\ Alternate(r) => Alternate(s)
         /\ Orderly(r, q, w) => Orderly(s, q, w)
         /\ Watched(r) => Watched(s)
         /\ \A f : Attends(f, r, w) => Attends(f, s, w)
         /\ Gone(r) => Gone(s)
<1>1. Unpinged(r, q, w) => Unpinged(s, q, w)
  BY DEF SamePing, Unpinged
<1>2. (Alternate(r) => Alternate(s)) /\ (Watched(r) => Watched(s)) /\ (Gone(r) => Gone(s))
  BY DEF SamePing, Alternate, Watched, Due, Gone
<1>3. Orderly(r, q, w) => Orderly(s, q, w)
  BY Zenon DEF SamePing, Orderly
<1>4. \A f : Attends(f, r, w) => Attends(f, s, w)
  BY DEF SamePing, Attends, Due
<1> QED
  BY <1>1, <1>2, <1>3, <1>4

\* A call that leaves w alone, on the way from the calls F to the calls G.
LEMMA CallPinged ==
  ASSUME NEW r, NEW s, NEW q, NEW F, NEW G, NEW w, NEW h,
         SamePing(s, r), Pinged(r, q, F, w),
         F \ {h} \subseteq G,
         \A f \in G : f.fn = "StartupTail" => f \in F,
         h.w = w => h.fn \notin {"StartupTail", "Shutdown", "Terminate", "MarkAsTerminallyIll"}
  PROVE  Pinged(s, q, G, w)
<1>1. ASSUME NEW f \in F, Attends(f, r, w)
      PROVE  f \in G /\ Attends(f, s, w)
  <2>1. h # f
    BY <1>1 DEF Attends, Ill
  <2> QED
    BY <1>1, <2>1, SameParts
<1>2. ASSUME NEW f \in F, f.fn = "Terminate", f.w = w
      PROVE  f \in G
  BY <1>2
<1>3. /\ Unpinged(r, q, w) => Unpinged(s, q, w)
      /\ Alternate(r) => Alternate(s)
      /\ Orderly(r, q, w) => Orderly(s, q, w)
      /\ Watched(r) => Watched(s)
      /\ Gone(r) => Gone(s)
  BY SameParts
<1>4. s.m_State = r.m_State /\ s.m_TerminalIllReason = r.m_TerminalIllReason
      /\ (s.m_pMessagingHandler = "NULL" => r.m_pMessagingHandler = "NULL")
  BY DEF SamePing
<1> QED
  BY <1>1, <1>2, <1>3, <1>4, Zenon DEF Pinged

\* Between two work items, a step that leaves w alone.  The queue may lose its first
\* item or gain one that has nothing to do with the pings of w.
Since(q, q2, w) ==
  \A r : /\ Unpinged(r, q, w) => Unpinged(r, q2, w)
         /\ Orderly(r, q, w) => Orderly(r, q2, w)

LEMMA IdlePinged ==
  ASSUME NEW r, NEW s, NEW q, NEW q2, NEW G, NEW w,
         SamePing(s, r), Pinged(r, q, {}, w), Since(q, q2, w),
         \A f \in G : f.fn = "StartupTail" => f.w # w
  PROVE  Pinged(s, q2, G, w)
<1>1. /\ Unpinged(r, q, w) => Unpinged(s, q2, w)
      /\ Alternate(r) => Alternate(s)
      /\ Orderly(r, q, w) => Orderly(s, q2, w)
      /\ Watched(r) => Watched(s)
      /\ Gone(r) => Gone(s)
  BY SameParts DEF Since
<1>2. s.m_State = r.m_State /\ s.m_TerminalIllReason = r.m_TerminalIllReason
      /\ (s.m_pMessagingHandler = "NULL" => r.m_pMessagingHandler = "NULL")
  BY DEF SamePing
<1> QED
  BY <1>1, <1>2, Zenon DEF Pinged

LEMMA SinceTail ==
  ASSUME NEW q \in Seq(WorkItems), q # <<>>, NEW w
  PROVE  Since(q, Tail(q), w)
<1>1. /\ Len(Tail(q)) = Len(q) - 1 /\ Len(q) \in Nat
      /\ \A i \in 1 .. Len(Tail(q)) : Tail(q)[i] = q[i + 1] /\ i + 1 \in 1 .. Len(q)
  OBVIOUS
<1> DEFINE t == Tail(q)
<1> HIDE DEF t
<1> SUFFICES ASSUME NEW r
             PROVE  /\ Unpinged(r, q, w) => Unpinged(r, t, w)
                    /\ Orderly(r, q, w) => Orderly(r, t, w)
  BY DEF Since, t
<1>2. /\ Len(t) = Len(q) - 1 /\ Len(q) \in Nat
      /\ \A i \in 1 .. Len(t) : t[i] = q[i + 1] /\ i + 1 \in 1 .. Len(q)
  BY <1>1 DEF t
<1>3. Unpinged(r, q, w) => Unpinged(r, t, w)
  BY <1>2 DEF Unpinged
<1>4. Orderly(r, q, w) => Orderly(r, t, w)
  <2> SUFFICES ASSUME Orderly(r, q, w) PROVE Orderly(r, t, w)
    OBVIOUS
  <2>1. \A i, j \in 1 .. Len(t) : IsPing(t[i], w) /\ IsPing(t[j], w) => i = j
    BY <1>2 DEF Orderly
  <2>2. \A i, j \in 1 .. Len(t) : IsDeadline(t[i], w) /\ IsDeadline(t[j], w) => i = j
    BY <1>2 DEF Orderly
  <2>3. \A i \in 1 .. Len(t) : IsPing(t[i], w) => r.handle["SendPing"] = "fired"
    BY <1>2 DEF Orderly
  <2>4. ASSUME NEW i \in 1 .. Len(t), IsDeadline(t[i], w)
        PROVE  /\ r.handle["PingResponse"] # "armed"
               /\ r.handle["PingResponse"] # "fired" =>
                    /\ ~r.m_AwaitingPingReply
                    /\ \A j \in 1 .. Len(t) : IsPing(t[j], w) => j > i
    BY <1>2, <2>4 DEF Orderly
  <2> QED
    BY <2>1, <2>2, <2>3, <2>4 DEF Orderly
<1> QED
  BY <1>3, <1>4

LEMMA SinceAppend ==
  ASSUME NEW q \in Seq(WorkItems), NEW x \in WorkItems, NEW w,
         ~IsPing(x, w), ~IsDeadline(x, w)
  PROVE  Since(q, Append(q, x), w)
<1> DEFINE t == Append(q, x)
<1>1. /\ Len(t) = Len(q) + 1 /\ Len(q) \in Nat
      /\ \A i \in 1 .. Len(t) : (i \in 1 .. Len(q) /\ t[i] = q[i]) \/ t[i] = x
  OBVIOUS
<1> HIDE DEF t
<1> SUFFICES ASSUME NEW r
             PROVE  /\ Unpinged(r, q, w) => Unpinged(r, t, w)
                    /\ Orderly(r, q, w) => Orderly(r, t, w)
  BY DEF Since, t
<1>2. \A i \in 1 .. Len(t) : IsPing(t[i], w) \/ IsDeadline(t[i], w) =>
        i \in 1 .. Len(q) /\ t[i] = q[i]
  BY <1>1
<1>3. Unpinged(r, q, w) => Unpinged(r, t, w)
  BY <1>2 DEF Unpinged
<1>4. Orderly(r, q, w) => Orderly(r, t, w)
  BY <1>2 DEF Orderly
<1> QED
  BY <1>3, <1>4

LEMMA SinceSame ==
  ASSUME NEW q, NEW w
  PROVE  Since(q, q, w)
  BY DEF Since

-----------------------------------------------------------------------------
(***************************************************************************)
(* The calls that a call makes.  None of them finishes a startup.          *)
(***************************************************************************)
Later(frames) ==
  frames \in Seq(Frames) /\ \A i \in 1 .. Len(frames) : frames[i].fn # "StartupTail"

LEMMA LaterShapes ==
  /\ Later(<<>>)
  /\ \A f \in Frames : f.fn # "StartupTail" => Later(<<f>>)
  /\ \A f, g \in Frames : f.fn # "StartupTail" /\ g.fn # "StartupTail" => Later(<<f, g>>)
<1>1. Later(<<>>)
  BY DEF Later
<1>2. ASSUME NEW f \in Frames, f.fn # "StartupTail"
      PROVE  Later(<<f>>)
  BY <1>2 DEF Later
<1>3. ASSUME NEW f \in Frames, NEW g \in Frames, f.fn # "StartupTail", g.fn # "StartupTail"
      PROVE  Later(<<f, g>>)
  <2> DEFINE s == <<f, g>>
  <2>1. s \in Seq(Frames) /\ Len(s) = 2 /\ s[1] = f /\ s[2] = g
    OBVIOUS
  <2> HIDE DEF s
  <2>2. \A i \in 1 .. Len(s) : i = 1 \/ i = 2
    BY <2>1
  <2>3. Later(s)
    BY <1>3, <2>1, <2>2 DEF Later
  <2> QED
    BY <2>3 DEF s
<1> QED
  BY <1>1, <1>2, <1>3

LEMMA LaterConcat ==
  ASSUME NEW s, NEW t, Later(s), Later(t)
  PROVE  Later(s \o t)
<1>1. s \in Seq(Frames) /\ t \in Seq(Frames)
  BY DEF Later
<1> DEFINE c == s \o t
<1>2. /\ c \in Seq(Frames) /\ Len(s) \in Nat /\ Len(t) \in Nat /\ Len(c) = Len(s) + Len(t)
      /\ \A i \in 1 .. Len(s) : c[i] = s[i]
      /\ \A i \in Len(s) + 1 .. Len(c) : c[i] = t[i - Len(s)]
  BY <1>1
<1> HIDE DEF c
<1>3. ASSUME NEW i \in 1 .. Len(c)
      PROVE  c[i].fn # "StartupTail"
  <2>1. CASE i \in 1 .. Len(s)
    BY <1>2, <2>1 DEF Later
  <2>2. CASE i > Len(s)
    <3>1. i - Len(s) \in 1 .. Len(t) /\ i \in Len(s) + 1 .. Len(c)
      BY <1>2, <2>2
    <3> QED
      BY <1>2, <3>1 DEF Later
  <2> QED
    BY <1>2, <2>1, <2>2
<1>4. Later(c)
  BY <1>2, <1>3 DEF Later
<1> QED
  BY <1>4 DEF c

LEMMA LaterCalls ==
  /\ \A fn \in WorkerProcessMethods, w \in WP : fn # "StartupTail" =>
       Call(fn, w) \in Frames /\ Call(fn, w).fn # "StartupTail" /\ Later(<<Call(fn, w)>>)
  /\ \A fn \in AppPoolMethods :
       Call(fn, NoWP) \in Frames /\ Call(fn, NoWP).fn # "StartupTail" /\ Later(<<Call(fn, NoWP)>>)
  /\ \A why \in IllnessReasons, w \in WP :
       Ill(w, why) \in Frames /\ Ill(w, why).fn # "StartupTail" /\ Later(<<Ill(w, why)>>)
<1>1. \A fn \in WorkerProcessMethods, w \in WP : fn # "StartupTail" =>
        Call(fn, w) \in Frames /\ Call(fn, w).fn # "StartupTail"
  BY WorkerFrame DEF Call
<1>2. \A fn \in AppPoolMethods : Call(fn, NoWP) \in Frames /\ Call(fn, NoWP).fn # "StartupTail"
  BY PoolFrame DEF Call, AppPoolMethods
<1>3. \A why \in IllnessReasons, w \in WP : Ill(w, why) \in Frames /\ Ill(w, why).fn # "StartupTail"
  BY IllFrame DEF Ill
<1> QED
  BY <1>1, <1>2, <1>3, LaterShapes

LEMMA LaterWalk ==
  ASSUME NEW fn \in Walks, NEW e \in WP \cup {NoWP, ListHead}
  PROVE  Later(WalkFrom(fn, e))
<1>1. CASE e = ListHead
  BY <1>1, LaterShapes DEF WalkFrom
<1>2. CASE e # ListHead
  <2>1. Call(fn, e) \in Frames /\ Call(fn, e).fn # "StartupTail"
    BY <1>2 DEF Call, Frames, Walks
  <2> QED
    BY <1>2, <2>1, LaterShapes DEF WalkFrom
<1> QED
  BY <1>1, <1>2

LEMMA LaterRelease ==
  ASSUME TypeOK, NEW w \in WP
  PROVE  Later(ReleasePredecessor(w))
<1>1. CASE wp[w].m_pWorkerProcessToReplace = NoWP
  BY <1>1, LaterShapes DEF ReleasePredecessor
<1>2. CASE wp[w].m_pWorkerProcessToReplace \in WP
  <2> DEFINE old == wp[w].m_pWorkerProcessToReplace
  <2>1. Later(<<Call("Shutdown", old), Call("DropPredecessor", w)>>)
    BY <1>2, LaterCalls, LaterShapes DEF WorkerProcessMethods
  <2> QED
    BY <1>2, <2>1, PointerAssumption DEF ReleasePredecessor
<1> QED
  BY <1>1, <1>2 DEF TypeOK, WorkerProcesses

LEMMA LaterCompleted ==
  ASSUME NEW s
  PROVE  Later(ShutdownNowCompleted(s))
  BY LaterShapes, LaterCalls DEF ShutdownNowCompleted, AppPoolMethods

LEMMA AppPoolCallLater ==
  ASSUME TypeOK, AppPoolCall
  PROVE  stack # <<>> /\ \E frames : Later(frames) /\ Return(frames)
<1>0. Later(<<>>)
  BY LaterShapes
<1>1. ASSUME ReportFailure \/ DisableTail \/ PoolTerminate
      PROVE  stack # <<>> /\ \E frames : Later(frames) /\ Return(frames)
  BY <1>0, <1>1, LaterCalls
     DEF ReportFailure, RapidFailStop, DisableTail, PoolTerminate, Calling, AppPoolMethods
<1>2. CASE DisableAppPool
  <2>1. Later(WalkFrom("ShutdownAll", FirstEntry) \o <<Call("DisableTail", NoWP)>>)
    BY ListType, LaterWalk, LaterCalls, LaterConcat DEF Walks, AppPoolMethods
  <2> QED
    BY <1>0, <1>2, <2>1 DEF DisableAppPool, Calling
<1>3. CASE ShutdownAllWorkerProcesses
  <2>1. ASSUME This \in WP
        PROVE  Later(<<Call("Shutdown", This)>> \o WalkFrom("ShutdownAll", Flink(This)))
    BY <2>1, ListType, LaterWalk, LaterCalls, LaterConcat DEF Walks, WorkerProcessMethods
  <2> QED
    BY <1>0, <1>3, <2>1 DEF ShutdownAllWorkerProcesses, Calling
<1>4. CASE ReplaceAllWorkerProcesses
  <2>1. ASSUME This \in WP
        PROVE  Later(<<Call("InitiateReplacement", This)>> \o WalkFrom("ReplaceAll", Flink(This)))
    BY <2>1, ListType, LaterWalk, LaterCalls, LaterConcat DEF Walks, WorkerProcessMethods
  <2> QED
    BY <1>0, <1>4, <2>1 DEF ReplaceAllWorkerProcesses, Calling
<1>5. CASE HandleConfigChange
  <2>1. Later(WalkFrom("ReplaceAll", FirstEntry))
    BY ListType, LaterWalk DEF Walks
  <2> QED
    BY <1>0, <1>5, <2>1 DEF HandleConfigChange, Calling
<1>6. CASE CheckShutdown
  BY <1>6, LaterCompleted DEF CheckShutdown, Calling
<1>7. CASE TerminateAll
  <2>1. ASSUME list # <<>>
        PROVE  Later(<<Call("Terminate", list[1]), Call("TerminateAll", NoWP)>>)
    <3>1. list[1] \in WP
      BY <2>1 DEF TypeOK
    <3>2. /\ Call("Terminate", list[1]) \in Frames /\ Call("Terminate", list[1]).fn # "StartupTail"
          /\ Call("TerminateAll", NoWP) \in Frames /\ Call("TerminateAll", NoWP).fn # "StartupTail"
      BY <3>1, LaterCalls DEF WorkerProcessMethods, AppPoolMethods
    <3> QED
      BY <3>2, LaterShapes
  <2> QED
    BY <1>0, <1>7, <2>1 DEF TerminateAll, Calling
<1> QED
  BY <1>1, <1>2, <1>3, <1>4, <1>5, <1>6, <1>7 DEF AppPoolCall

\* The calls pending after a return.
LEMMA CallsNext ==
  ASSUME TypeOK, stack # <<>>, NEW frames, Later(frames), Return(frames)
  PROVE  /\ Calls \ {Head(stack)} \subseteq Calls'
         /\ \A i \in 1 .. Len(frames) : frames[i] \in Calls'
         /\ \A f \in Calls' : f.fn = "StartupTail" => f \in Calls
         /\ Len(stack) = 1 => \A f \in Calls' : f.fn # "StartupTail"
         /\ Head(stack) \in Calls
<1>0. frames \in Seq(Frames)
  BY DEF Later
<1>1. /\ Len(frames) \in Nat /\ Len(stack) \in Nat \ {0}
      /\ Len(stack') = Len(frames) + Len(stack) - 1
      /\ \A i \in 1 .. Len(frames) : stack'[i] = frames[i]
      /\ \A i \in 2 .. Len(stack) : stack'[Len(frames) + i - 1] = stack[i]
      /\ \A i \in Len(frames) + 1 .. Len(stack') :
           /\ stack'[i] = stack[i - Len(frames) + 1]
           /\ i - Len(frames) + 1 \in 2 .. Len(stack)
      /\ Head(stack) = stack[1]
  BY <1>0, Pushed
<1>2. ASSUME NEW f \in Calls, f # Head(stack)
      PROVE  f \in Calls'
  <2>1. PICK i \in 1 .. Len(stack) : f = stack[i]
    BY DEF Calls
  <2>2. i \in 2 .. Len(stack)
    BY <1>1, <1>2, <2>1
  <2>3. Len(frames) + i - 1 \in 1 .. Len(stack')
    BY <1>1, <2>2
  <2> QED
    BY <1>1, <2>1, <2>2, <2>3 DEF Calls
<1>3. \A i \in 1 .. Len(frames) : frames[i] \in Calls' /\ frames[i].fn # "StartupTail"
  <2> TAKE i \in 1 .. Len(frames)
  <2>1. i \in 1 .. Len(stack') /\ stack'[i] = frames[i]
    BY <1>1
  <2> QED
    BY <2>1 DEF Calls, Later
<1>4. ASSUME NEW f \in Calls', f.fn = "StartupTail"
      PROVE  f \in Calls /\ Len(stack) # 1
  <2>1. PICK i \in 1 .. Len(stack') : f = stack'[i]
    BY DEF Calls
  <2>2. i \in Len(frames) + 1 .. Len(stack')
    BY <1>1, <1>3, <1>4, <2>1
  <2>3. PICK k \in 2 .. Len(stack) : k = i - Len(frames) + 1 /\ stack'[i] = stack[k]
    BY <1>1, <2>2
  <2>4. k \in 1 .. Len(stack) /\ Len(stack) # 1
    BY <1>1, <2>3
  <2> QED
    BY <2>1, <2>3, <2>4 DEF Calls
<1>5. Head(stack) \in Calls
  BY <1>1 DEF Calls
<1> QED
  BY <1>2, <1>3, <1>4, <1>5

-----------------------------------------------------------------------------
(***************************************************************************)
(* Calls that leave the pings of every object alone, or end it.            *)
(***************************************************************************)
LEMMA SamePingRecord ==
  ASSUME NEW r \in WorkerProcesses
  PROVE  /\ \A v : SamePing([r EXCEPT !.m_BeingReplaced = v], r)
         /\ \A v : SamePing([r EXCEPT !.m_NotifiedAppPool = v], r)
         /\ \A v : SamePing([r EXCEPT !.m_Registered = v], r)
         /\ \A v : SamePing([r EXCEPT !.m_ProcessAlive = v], r)
         /\ \A v : SamePing([r EXCEPT !.m_RefCount = v], r)
         /\ \A v : SamePing([r EXCEPT !.m_pWorkerProcessToReplace = v], r)
         /\ \A v : SamePing([r EXCEPT !.process = v], r)
         /\ SamePing([r EXCEPT !.m_pMessagingHandler = "detached"], r)
         /\ SamePing(r, r)
  BY DEF WorkerProcesses, SamePing

LEMMA SamePingField ==
  ASSUME NEW tbl \in [WP -> WorkerProcesses], NEW w \in WP, NEW v \in WP, NEW x
  PROVE  /\ SamePing([tbl EXCEPT ![w].m_BeingReplaced = x][v], tbl[v])
         /\ SamePing([tbl EXCEPT ![w].m_NotifiedAppPool = x][v], tbl[v])
         /\ SamePing([tbl EXCEPT ![w].m_Registered = x][v], tbl[v])
         /\ SamePing([tbl EXCEPT ![w].m_ProcessAlive = x][v], tbl[v])
         /\ SamePing([tbl EXCEPT ![w].m_RefCount = x][v], tbl[v])
         /\ SamePing([tbl EXCEPT ![w].m_pWorkerProcessToReplace = x][v], tbl[v])
         /\ SamePing([tbl EXCEPT ![w].process.phase = x][v], tbl[v])
         /\ SamePing([tbl EXCEPT ![w].process.inbox = x][v], tbl[v])
         /\ SamePing([tbl EXCEPT ![w].process.pipe = x][v], tbl[v])
         /\ SamePing([tbl EXCEPT ![w].m_pMessagingHandler = "detached"][v], tbl[v])
         /\ SamePing(tbl[v], tbl[v])
<1>1. tbl[w] \in WorkerProcesses /\ tbl[v] \in WorkerProcesses
  OBVIOUS
<1>2. CASE v = w
  BY <1>1, <1>2, SamePingRecord
<1>3. CASE v # w
  BY <1>1, <1>3, SamePingRecord
<1> QED
  BY <1>2, <1>3

LEMMA DereferencedPing ==
  ASSUME NEW tbl \in [WP -> WorkerProcesses], NEW w \in WP, NEW v \in WP
  PROVE  Gone(Dereferenced(tbl, w)[v]) \/ SamePing(Dereferenced(tbl, w)[v], tbl[v])
<1>1. CASE tbl[w].m_RefCount = 1
  <2>1. Dereferenced(tbl, w) = [tbl EXCEPT ![w] = NoObject]
    BY <1>1 DEF Dereferenced
  <2>2. Gone(NoObject) /\ SamePing(tbl[v], tbl[v])
    BY DEF NoObject, Gone, SamePing
  <2> QED
    BY <2>1, <2>2
<1>2. CASE tbl[w].m_RefCount # 1
  <2>1. Dereferenced(tbl, w) = [tbl EXCEPT ![w].m_RefCount = tbl[w].m_RefCount - 1]
    BY <1>2 DEF Dereferenced
  <2> QED
    BY <2>1, SamePingField
<1> QED
  BY <1>1, <1>2

\* A step that takes the queue along, ends an object or leaves its pings alone, and is
\* not one of the calls that attend it.
LEMMA QuietCall ==
  ASSUME TypeOK, PingInv, stack # <<>>, queue' = queue,
         NEW frames, Later(frames), Return(frames), NEW w \in WP,
         \/ Gone(wp'[w])
         \/ /\ SamePing(wp'[w], wp[w])
            /\ Head(stack).w = w => Head(stack).fn \notin
                 {"StartupTail", "Shutdown", "Terminate", "MarkAsTerminallyIll"}
  PROVE  Pinged(wp'[w], queue', Calls', w)
<1>1. CASE Gone(wp'[w])
  BY <1>1, GonePinged
<1>2. CASE ~Gone(wp'[w])
  <2>1. /\ Calls \ {Head(stack)} \subseteq Calls'
        /\ \A f \in Calls' : f.fn = "StartupTail" => f \in Calls
    BY CallsNext
  <2>2. Pinged(wp[w], queue, Calls, w)
    BY DEF PingInv
  <2> QED
    BY <1>2, <2>1, <2>2, CallPinged
<1> QED
  BY <1>1, <1>2

LEMMA PoolCallsPing ==
  ASSUME TypeOK, PingInv, AppPoolCall
  PROVE  PingInv'
<1>1. stack # <<>> /\ UNCHANGED <<wp, queue>>
  BY AppPoolCallLater DEF AppPoolCall, ReportFailure, DisableAppPool, DisableTail,
     ShutdownAllWorkerProcesses, ReplaceAllWorkerProcesses, HandleConfigChange, CheckShutdown,
     PoolTerminate, TerminateAll
<1>2. PICK frames : Later(frames) /\ Return(frames)
  BY AppPoolCallLater
<1>3. Head(stack).fn \notin {"StartupTail", "Shutdown", "Terminate", "MarkAsTerminallyIll"}
  BY DEF AppPoolCall, ReportFailure, DisableAppPool, DisableTail,
     ShutdownAllWorkerProcesses, ReplaceAllWorkerProcesses, HandleConfigChange, CheckShutdown,
     PoolTerminate, TerminateAll, Calling
<1>4. \A w \in WP : SamePing(wp'[w], wp[w])
  BY <1>1 DEF SamePing
<1>5. \A w \in WP : Pinged(wp'[w], queue', Calls', w)
  BY <1>1, <1>2, <1>3, <1>4, QuietCall
<1> QED
  BY <1>5 DEF PingInv

\* The calls that end or let go of an object.
LEMMA ReleasingCallsPing ==
  ASSUME TypeOK, PingInv,
         \/ Dereference \/ DetachHandler \/ TerminateTail \/ DropPredecessor \/ MarkReplaced
         \/ Terminate
  PROVE  PingInv'
<1> USE DEF WorkerProcessMethods
<1>0. wp \in [WP -> WorkerProcesses] /\ stack # <<>> /\ queue' = queue
  BY DEF TypeOK, Dereference, DetachHandler, TerminateTail, DropPredecessor, MarkReplaced,
     Terminate, Calling
<1>1. PICK w \in WP : w = This
  BY CallingWP DEF Dereference, DetachHandler, TerminateTail, DropPredecessor, MarkReplaced,
     Terminate
<1>2. PICK frames : Later(frames) /\ Return(frames)
  <2>1. Later(<<>>) /\ Later(ReleasePredecessor(w) \o <<Call("TerminateTail", w)>>)
        /\ Later(ShutdownNowCompleted(Unlinked(w)))
    BY LaterShapes, LaterCalls, LaterRelease, LaterConcat, LaterCompleted
  <2> QED
    BY <1>1, <2>1 DEF Dereference, DetachHandler, TerminateTail, DropPredecessor, MarkReplaced,
       Terminate
<1>3. ASSUME NEW v \in WP
      PROVE  Gone(wp'[v]) \/ SamePing(wp'[v], wp[v])
  <2>1. CASE Dereference
    BY <1>0, <1>1, <2>1, DereferencedPing DEF Dereference
  <2>2. CASE DetachHandler
    <3> DEFINE tbl == [wp EXCEPT ![w].m_pMessagingHandler = "detached"]
    <3>1. tbl \in [WP -> WorkerProcesses] /\ SamePing(tbl[v], wp[v]) /\ SamePing(wp[v], wp[v])
      <4>1. "detached" \in HandlerStates
        BY DEF HandlerStates
      <4>2. tbl \in [WP -> WorkerProcesses]
        BY <1>0, <4>1 DEF WorkerProcesses
      <4> QED
        BY <1>0, <4>2, SamePingField
    <3> HIDE DEF tbl
    <3>2. wp' = wp \/ wp' = Dereferenced(tbl, w)
      BY <1>1, <2>2 DEF DetachHandler, tbl
    <3> QED
      BY <3>1, <3>2, DereferencedPing, SamePingTrans
  <2>3. CASE TerminateTail
    <3> DEFINE tbl == [wp EXCEPT ![w].m_NotifiedAppPool = TRUE]
    <3>1. tbl \in [WP -> WorkerProcesses] /\ SamePing(tbl[v], wp[v])
      <4>1. tbl \in [WP -> WorkerProcesses]
        BY <1>0, FieldType
      <4> QED
        BY <1>0, <4>1, SamePingField
    <3> HIDE DEF tbl
    <3>2. wp' = Dereferenced(tbl, w)
      BY <1>1, <2>3 DEF TerminateTail, tbl
    <3> QED
      BY <3>1, <3>2, DereferencedPing, SamePingTrans
  <2>4. CASE DropPredecessor
    <3> DEFINE tbl == [wp EXCEPT ![w].m_pWorkerProcessToReplace = NoWP]
    <3>1. tbl \in [WP -> WorkerProcesses] /\ SamePing(tbl[v], wp[v]) /\ SamePing(wp[v], wp[v])
      <4>1. tbl \in [WP -> WorkerProcesses]
        BY <1>0, FieldType
      <4> QED
        BY <1>0, <4>1, SamePingField
    <3> HIDE DEF tbl
    <3>2. PICK old : old = wp[w].m_pWorkerProcessToReplace
      OBVIOUS
    <3>3. old \in WP \cup {NoWP}
      BY <1>0, <3>2 DEF WorkerProcesses
    <3>4. wp' = wp \/ (old # NoWP /\ wp' = Dereferenced(tbl, old))
      BY <1>1, <2>4, <3>2 DEF DropPredecessor, tbl
    <3> QED
      BY <3>1, <3>3, <3>4, DereferencedPing, SamePingTrans
  <2>5. CASE MarkReplaced
    BY <1>0, <1>1, <2>5, SamePingField DEF MarkReplaced
  <2>6. CASE Terminate
    <3>1. SamePing(wp[v], wp[v])
      BY <1>0, SamePingField
    <3>2. wp' = wp \/ wp' = [wp EXCEPT ![w] = Terminated(wp[w])]
      BY <1>1, <2>6 DEF Terminate
    <3>3. Gone(Terminated(wp[w]))
      BY <1>0, TerminatedEffect DEF Gone
    <3> QED
      BY <1>0, <3>1, <3>2, <3>3
  <2> QED
    BY <2>1, <2>2, <2>3, <2>4, <2>5, <2>6
<1>4. ASSUME NEW v \in WP, Head(stack).w = v,
             Head(stack).fn \in {"StartupTail", "Shutdown", "Terminate", "MarkAsTerminallyIll"}
      PROVE  Gone(wp'[v])
  <2>1. Terminate /\ v = w
    BY <1>1, <1>4 DEF Dereference, DetachHandler, TerminateTail, DropPredecessor, MarkReplaced,
       Calling, This
  <2>2. Gone(Terminated(wp[w]))
    BY <1>0, TerminatedEffect DEF Gone
  <2> QED
    BY <1>0, <1>1, <2>1, <2>2 DEF Terminate, Gone
<1>5. \A v \in WP : Pinged(wp'[v], queue', Calls', v)
  BY <1>0, <1>2, <1>3, <1>4, QuietCall
<1> QED
  BY <1>5 DEF PingInv

-----------------------------------------------------------------------------
(***************************************************************************)
(* Calls that attend an object, or make a new one.                         *)
(***************************************************************************)
LEMMA InitializePing ==
  ASSUME ObjectInv, PingInv, Initialize
  PROVE  PingInv'
<1>0. /\ stack # <<>> /\ queue' = queue /\ Head(stack).fn = "Initialize"
      /\ Calling("Initialize")
  BY DEF Initialize, Calling
<1>1. TypeOK /\ FrameInv(1) /\ Head(stack) = stack[1] /\ wp \in [WP -> WorkerProcesses]
  BY <1>0, First DEF TypeOK
<1>2. PICK w \in WP : w = This
  BY <1>0, <1>1, CallingWP DEF WorkerProcessMethods
<1>3. PICK outcome \in InitializeOutcomes :
        /\ wp' = [wp EXCEPT ![w] = Initialized(wp[w], outcome)]
        /\ Return(InitializeDone(w, outcome))
  BY <1>2 DEF Initialize
<1>4. wp[w].m_State = "Uninitialized" /\ wp[w].m_pMessagingHandler = "NULL" /\ Head(stack).w = w
  BY <1>0, <1>1, <1>2 DEF FrameInv, Founded, This
<1> DEFINE frames == InitializeDone(w, outcome)
<1>5. Later(frames) /\ Return(frames)
  BY <1>3, LaterShapes, LaterCalls DEF InitializeDone, IllnessReasons
<1> HIDE DEF frames
<1>6. ASSUME NEW v \in WP, v # w
      PROVE  Pinged(wp'[v], queue', Calls', v)
  <2>1. wp'[v] = wp[v]
    BY <1>1, <1>3, <1>6
  <2> QED
    BY <1>0, <1>1, <1>5, <2>1, QuietCall DEF SamePing
<1>7. Pinged(wp'[w], queue', Calls', w)
  <2> DEFINE s == Initialized(wp[w], outcome)
  <2>1. /\ s.m_State \in {"Uninitialized", "RegistrationPending"}
        /\ s.m_TerminalIllReason = wp[w].m_TerminalIllReason
        /\ s.m_AwaitingPingReply = wp[w].m_AwaitingPingReply
        /\ s.handle["SendPing"] = "NULL" /\ s.handle["PingResponse"] = "NULL"
    BY <1>1, <1>4 DEF Initialized, WorkerProcesses, NoHandles, Handles
  <2>2. wp'[w] = s
    BY <1>1, <1>3
  <2> HIDE DEF s
  <2>3. Pinged(wp[w], queue, Calls, w)
    BY DEF PingInv
  <2>4. /\ Calls \ {Head(stack)} \subseteq Calls'
        /\ \A f \in Calls' : f.fn = "StartupTail" => f \in Calls
    BY <1>0, <1>1, <1>5, CallsNext
  <2>5. \A f \in Calls : f.fn = "Terminate" => f \in Calls'
    BY <1>0, <2>4
  <2>6. Unpinged(wp[w], queue, w) /\ \A f \in Calls' : f.fn = "StartupTail" => f.w # w
    BY <1>4, <2>3, <2>4 DEF Pinged, Young
  <2>7. Unpinged(s, queue, w)
    BY <2>1, <2>6 DEF Unpinged
  <2>8. s.m_TerminalIllReason # "NotIll" => \E f \in Calls' : f.fn = "Terminate" /\ f.w = w
    BY <1>4, <2>1, <2>3, <2>5 DEF Pinged, Gone
  <2> QED
    BY <1>0, <2>1, <2>2, <2>6, <2>7, <2>8 DEF Pinged, Young
<1> QED
  BY <1>6, <1>7 DEF PingInv

LEMMA ShutdownPing ==
  ASSUME TypeOK, PingInv, Shutdown
  PROVE  PingInv'
<1>0. /\ stack # <<>> /\ queue' = queue /\ Head(stack).fn = "Shutdown"
      /\ Calling("Shutdown") /\ wp \in [WP -> WorkerProcesses]
  BY DEF Shutdown, Calling, TypeOK
<1>1. PICK w \in WP : w = This /\ Head(stack).w = w
  BY <1>0, CallingWP DEF WorkerProcessMethods, This
<1>2. PICK frames : Later(frames) /\ Return(frames)
  <2>1. Later(<<>>) /\ Later(ShutdownFailed(w))
    BY LaterShapes, LaterCalls DEF ShutdownFailed, IllnessReasons, WorkerProcessMethods
  <2> QED
    BY <1>1, <2>1 DEF Shutdown
<1>3. /\ \A v \in WP : v # w => wp'[v] = wp[v]
      /\ wp'[w].m_TerminalIllReason = wp[w].m_TerminalIllReason
      /\ \/ wp[w].m_State = "RegistrationPending"
            /\ wp'[w] = [wp[w] EXCEPT !.m_State = "RegistrationPendingShutdownPending"]
         \/ wp[w].m_State = "Running" /\ wp'[w].m_State = "ShutdownPending"
         \/ wp[w].m_State \notin {"RegistrationPending", "Running"} /\ wp'[w] = wp[w]
  <2>1. CASE wp[w].m_State = "RegistrationPending"
    <3>1. wp' = [wp EXCEPT ![w].m_State = "RegistrationPendingShutdownPending"]
      BY <1>1, <2>1 DEF Shutdown
    <3> QED
      BY <1>0, <2>1, <3>1 DEF WorkerProcesses
  <2>2. CASE wp[w].m_State = "Running"
    <3>1. PICK outcome : LET tbl == [wp EXCEPT ![w] = ShutdownBegun(wp[w], outcome)]
                         IN wp' = tbl \/ wp' = Referenced(tbl, w)
      BY <1>1, <2>2 DEF Shutdown
    <3> DEFINE s == ShutdownBegun(wp[w], outcome)
               tbl == [wp EXCEPT ![w] = s]
    <3>2. s.m_State = "ShutdownPending" /\ s.m_TerminalIllReason = wp[w].m_TerminalIllReason
      BY <1>0, ShutdownBegunEffect
    <3>3. wp' = tbl \/ wp' = [tbl EXCEPT ![w] = [s EXCEPT !.m_RefCount = s.m_RefCount + 1]]
      BY <1>0, <3>1 DEF Referenced
    <3>4. DOMAIN tbl = WP /\ tbl[w] = s /\ \A v \in WP : v # w => tbl[v] = wp[v]
      BY <1>0
    <3>5. LET t == [s EXCEPT !.m_RefCount = s.m_RefCount + 1]
          IN t.m_State = s.m_State /\ t.m_TerminalIllReason = s.m_TerminalIllReason
      BY <1>0 DEF ShutdownBegun, WorkerProcesses
    <3> HIDE DEF s, tbl
    <3> QED
      BY <2>2, <3>2, <3>3, <3>4, <3>5
  <2>3. CASE wp[w].m_State \notin {"RegistrationPending", "Running"}
    BY <1>1, <2>3 DEF Shutdown
  <2> QED
    BY <2>1, <2>2, <2>3
<1>4. ASSUME NEW v \in WP, v # w
      PROVE  Pinged(wp'[v], queue', Calls', v)
  BY <1>0, <1>1, <1>2, <1>3, <1>4, QuietCall DEF SamePing
<1>5. Pinged(wp'[w], queue', Calls', w)
  <2>1. Pinged(wp[w], queue, Calls, w)
    BY DEF PingInv
  <2>2. /\ Calls \ {Head(stack)} \subseteq Calls'
        /\ \A f \in Calls' : f.fn = "StartupTail" => f \in Calls
    BY <1>0, <1>2, CallsNext
  <2>3. \A f \in Calls : f.fn = "Terminate" => f \in Calls'
    BY <1>0, <2>2
  <2>4. CASE wp[w].m_State = "RegistrationPending"
             /\ wp'[w] = [wp[w] EXCEPT !.m_State = "RegistrationPendingShutdownPending"]
    <3>1. /\ wp'[w].m_State = "RegistrationPendingShutdownPending"
          /\ wp'[w].m_AwaitingPingReply = wp[w].m_AwaitingPingReply
          /\ wp'[w].handle = wp[w].handle
      BY <1>0, <2>4 DEF WorkerProcesses
    <3>2. Unpinged(wp[w], queue, w) => Unpinged(wp'[w], queue, w)
      BY <3>1 DEF Unpinged
    <3> QED
      BY <1>0, <1>3, <2>1, <2>2, <2>3, <2>4, <3>1, <3>2, Zenon DEF Pinged, Young, Gone
  <2>5. CASE wp[w].m_State = "Running" /\ wp'[w].m_State = "ShutdownPending"
    BY <1>0, <1>3, <2>1, <2>3, <2>5 DEF Pinged, Young, Gone
  <2>6. CASE wp[w].m_State \notin {"RegistrationPending", "Running"} /\ wp'[w] = wp[w]
    BY <1>0, <2>1, <2>2, <2>3, <2>6, Zenon DEF Pinged, Young, Gone
  <2> QED
    BY <1>3, <2>4, <2>5, <2>6
<1> QED
  BY <1>4, <1>5 DEF PingInv

\* The first ping is scheduled, or the process is ill.
LEMMA StartupTailPing ==
  ASSUME ObjectInv, PingInv, StartupTail
  PROVE  PingInv'
<1>0. /\ stack # <<>> /\ queue' = queue /\ Head(stack).fn = "StartupTail"
      /\ Calling("StartupTail")
  BY DEF StartupTail, Calling
<1>1. /\ TypeOK /\ FrameInv(1) /\ Head(stack) = stack[1] /\ wp \in [WP -> WorkerProcesses]
  BY <1>0, First DEF TypeOK
<1>2. PICK w \in WP : w = This /\ Head(stack).w = w
  BY <1>0, <1>1, CallingWP DEF WorkerProcessMethods, This
<1>3. Len(stack) = 1
  BY <1>0, <1>1 DEF FrameInv, Placed
<1>4. PICK frames : /\ Later(frames) /\ Return(frames)
                    /\ \/ wp[w].m_pMessagingHandler = "NULL" /\ wp' = wp
                       \/ Pinging /\ wp' = [wp EXCEPT ![w].handle["SendPing"] = "armed"]
                       \/ ~Pinging /\ wp' = wp
                       \/ frames = <<Ill(w, "InternalError")>> /\ wp' = wp
  <2>1. Later(<<>>) /\ Later(<<Ill(w, "InternalError")>>)
    BY LaterShapes, LaterCalls DEF IllnessReasons
  <2> QED
    BY <1>2, <2>1 DEF StartupTail
<1>5. ASSUME NEW v \in WP, v # w
      PROVE  Pinged(wp'[v], queue', Calls', v)
  <2>1. wp'[v] = wp[v]
    BY <1>1, <1>4, <1>5
  <2> QED
    BY <1>0, <1>1, <1>2, <1>4, <1>5, <2>1, QuietCall DEF SamePing
<1>6. Pinged(wp'[w], queue', Calls', w)
  <2>1. Pinged(wp[w], queue, Calls, w)
    BY DEF PingInv
  <2>2. /\ Calls \ {Head(stack)} \subseteq Calls'
        /\ \A f \in Calls' : f.fn # "StartupTail"
        /\ \A i \in 1 .. Len(frames) : frames[i] \in Calls'
        /\ Head(stack) \in Calls
    BY <1>0, <1>1, <1>3, <1>4, CallsNext
  <2>3. \A f \in Calls : f.fn = "Terminate" => f \in Calls'
    BY <1>0, <2>2
  <2>4. wp[w].m_State \notin Young /\ (wp[w].m_State = "Running" => Unpinged(wp[w], queue, w))
    BY <1>0, <1>2, <2>1, <2>2 DEF Pinged
  <2>5. CASE wp[w].m_State # "Running"
    <3>1. wp'[w].m_State = wp[w].m_State /\ wp'[w].m_TerminalIllReason = wp[w].m_TerminalIllReason
      BY <1>1, <1>4 DEF WorkerProcesses
    <3> QED
      BY <2>1, <2>3, <2>4, <2>5, <3>1, Zenon DEF Pinged, Gone
  <2>6. CASE wp[w].m_State = "Running" /\ wp' = wp
    <3>1. wp[w].m_pMessagingHandler # "NULL" /\ Alternate(wp[w]) /\ Orderly(wp[w], queue, w)
      BY <2>1, <2>6 DEF Pinged
    <3>2. Pinging => Ill(w, "InternalError") \in Calls'
      <4>1. CASE frames = <<Ill(w, "InternalError")>>
        <5>1. 1 \in 1 .. Len(frames) /\ frames[1] = Ill(w, "InternalError")
          BY <4>1
        <5> QED
          BY <2>2, <5>1
      <4>2. ASSUME Pinging
            PROVE  frames = <<Ill(w, "InternalError")>>
        <5>1. wp' # [wp EXCEPT ![w].handle["SendPing"] = "armed"]
          BY <1>1, <2>4, <2>6 DEF Unpinged, WorkerProcesses, Handles
        <5> QED
          BY <1>4, <3>1, <4>2, <5>1
      <4> QED
        BY <4>1, <4>2
    <3>3. Pinging => \E f \in Calls' : Attends(f, wp[w], w)
      BY <3>2 DEF Attends
    <3> QED
      BY <1>0, <2>1, <2>2, <2>3, <2>4, <2>6, <3>1, <3>3, Zenon DEF Pinged, Gone
  <2>7. CASE wp[w].m_State = "Running" /\ wp' # wp
    <3>1. wp' = [wp EXCEPT ![w].handle["SendPing"] = "armed"]
      BY <1>4, <2>7
    <3>2. /\ wp'[w].m_State = wp[w].m_State
          /\ wp'[w].m_TerminalIllReason = wp[w].m_TerminalIllReason
          /\ wp'[w].m_pMessagingHandler = wp[w].m_pMessagingHandler
          /\ wp'[w].m_AwaitingPingReply = wp[w].m_AwaitingPingReply
          /\ wp'[w].handle["SendPing"] = "armed"
          /\ wp'[w].handle["PingResponse"] = wp[w].handle["PingResponse"]
      BY <1>1, <3>1 DEF WorkerProcesses, Handles
    <3>3. Alternate(wp'[w]) /\ Watched(wp'[w])
      BY <2>4, <2>7, <3>2 DEF Unpinged, Alternate, Watched, Due
    <3>4. Orderly(wp'[w], queue, w)
      BY <2>4, <2>7 DEF Unpinged, Orderly
    <3> QED
      BY <1>0, <2>1, <2>2, <2>3, <2>4, <2>7, <3>2, <3>3, <3>4, Zenon DEF Pinged, Gone
  <2> QED
    BY <2>5, <2>6, <2>7
<1> QED
  BY <1>5, <1>6 DEF PingInv

LEMMA MarkAsTerminallyIllPing ==
  ASSUME TypeOK, PingInv, MarkAsTerminallyIll
  PROVE  PingInv'
<1>0. /\ stack # <<>> /\ queue' = queue /\ Head(stack).fn = "MarkAsTerminallyIll"
      /\ Calling("MarkAsTerminallyIll") /\ wp \in [WP -> WorkerProcesses]
  BY DEF MarkAsTerminallyIll, Calling, TypeOK
<1>1. PICK w \in WP : w = This /\ Head(stack).w = w
  BY <1>0, CallingWP DEF WorkerProcessMethods, This
<1>2. PICK why : why = Head(stack).why
  OBVIOUS
<1> DEFINE fatal == <<Call("ReportFailure", w), Call("Terminate", w)>>
<1>3. PICK frames :
        /\ Later(frames) /\ Return(frames)
        /\ \/ /\ wp' = wp
              /\ \/ wp[w].m_TerminalIllReason # "NotIll"
                 \/ wp[w].m_IgnoredPingDueToDebugger /\ why = "PingFailure"
           \/ /\ why # "InternalError"
              /\ wp' = [wp EXCEPT ![w].m_IgnoredPingDueToDebugger =
                          wp[w].m_IgnoredPingDueToDebugger \/ why = "PingFailure"]
           \/ /\ wp' = [wp EXCEPT ![w].m_TerminalIllReason = why]
              /\ frames = fatal
  <2>1. Later(<<>>)
    BY LaterShapes
  <2>2. Later(fatal)
    BY LaterCalls, LaterShapes DEF WorkerProcessMethods
  <2> HIDE DEF fatal
  <2>3. \/ /\ Return(<<>>) /\ wp' = wp
           /\ \/ wp[w].m_TerminalIllReason # "NotIll"
              \/ wp[w].m_IgnoredPingDueToDebugger /\ why = "PingFailure"
        \/ /\ Return(<<>>) /\ why # "InternalError"
           /\ wp' = [wp EXCEPT ![w].m_IgnoredPingDueToDebugger =
                       wp[w].m_IgnoredPingDueToDebugger \/ why = "PingFailure"]
        \/ Return(fatal) /\ wp' = [wp EXCEPT ![w].m_TerminalIllReason = why]
    BY <1>1, <1>2 DEF MarkAsTerminallyIll, DebuggerMatters, fatal
  <2> QED
    BY <2>1, <2>2, <2>3
<1>4. ASSUME NEW v \in WP, v # w
      PROVE  Pinged(wp'[v], queue', Calls', v)
  <2>1. wp'[v] = wp[v]
    BY <1>0, <1>3, <1>4
  <2> QED
    BY <1>0, <1>1, <1>3, <1>4, <2>1, QuietCall DEF SamePing
<1>5. Pinged(wp'[w], queue', Calls', w)
  <2>1. Pinged(wp[w], queue, Calls, w)
    BY DEF PingInv
  <2>2. /\ Calls \ {Head(stack)} \subseteq Calls'
        /\ \A f \in Calls' : f.fn = "StartupTail" => f \in Calls
        /\ \A i \in 1 .. Len(frames) : frames[i] \in Calls'
    BY <1>0, <1>3, CallsNext
  <2>3. \A f \in Calls : f.fn = "Terminate" => f \in Calls'
    BY <1>0, <2>2
  <2>4. Ill(w, "InternalError").why = "InternalError" /\ Ill(w, "PingFailure").why = "PingFailure"
    BY DEF Ill
  <2>5. ASSUME wp' = wp,
               \/ wp[w].m_TerminalIllReason # "NotIll"
               \/ wp[w].m_IgnoredPingDueToDebugger /\ why = "PingFailure"
        PROVE  Pinged(wp'[w], queue', Calls', w)
    <3>1. CASE wp[w].m_State # "Running"
      BY <1>0, <2>1, <2>2, <2>3, <2>5, <3>1, Zenon DEF Pinged, Gone
    <3>2. CASE wp[w].m_State = "Running" /\ wp[w].m_TerminalIllReason # "NotIll"
      <4>1. PICK f \in Calls : f.fn = "Terminate" /\ f.w = w
        BY <2>1, <3>2 DEF Pinged, Gone
      <4>2. f \in Calls' /\ Attends(f, wp[w], w)
        BY <2>3, <4>1 DEF Attends
      <4>3. wp[w].m_State \notin Young
        BY <3>2 DEF Young
      <4> QED
        BY <1>0, <2>1, <2>2, <2>5, <3>2, <4>1, <4>2, <4>3, Zenon DEF Pinged
    <3>3. CASE wp[w].m_State = "Running" /\ wp[w].m_TerminalIllReason = "NotIll"
      <4>1. wp[w].m_IgnoredPingDueToDebugger /\ why = "PingFailure"
        BY <2>5, <3>3
      <4>2. ASSUME NEW f \in Calls, Attends(f, wp[w], w)
            PROVE  Watched(wp[w]) \/ f \in Calls'
        <5>1. CASE f = Head(stack)
          <6>1. Due(wp[w])
            BY <1>0, <1>2, <2>4, <4>1, <4>2, <5>1 DEF Attends
          <6> QED
            BY <4>1, <6>1 DEF Watched
        <5>2. CASE f # Head(stack)
          BY <2>2, <4>2, <5>2
        <5> QED
          BY <5>1, <5>2
      <4>3. wp[w].m_State \notin Young
        BY <3>3 DEF Young
      <4> QED
        BY <1>0, <2>1, <2>2, <2>5, <3>3, <4>2, <4>3, Zenon DEF Pinged
    <3> QED
      BY <3>1, <3>2, <3>3
  <2>6. ASSUME why # "InternalError",
               wp' = [wp EXCEPT ![w].m_IgnoredPingDueToDebugger =
                          wp[w].m_IgnoredPingDueToDebugger \/ why = "PingFailure"]
        PROVE  Pinged(wp'[w], queue', Calls', w)
    <3>1. /\ wp'[w].m_State = wp[w].m_State
          /\ wp'[w].m_TerminalIllReason = wp[w].m_TerminalIllReason
          /\ wp'[w].m_pMessagingHandler = wp[w].m_pMessagingHandler
          /\ wp'[w].m_AwaitingPingReply = wp[w].m_AwaitingPingReply
          /\ wp'[w].handle = wp[w].handle
      BY <1>0, <2>6 DEF WorkerProcesses
    <3>2. wp'[w].m_IgnoredPingDueToDebugger =
            (wp[w].m_IgnoredPingDueToDebugger \/ why = "PingFailure")
      BY <1>0, <2>6, Zenon DEF WorkerProcesses
    <3>3. /\ Unpinged(wp[w], queue, w) => Unpinged(wp'[w], queue, w)
          /\ Alternate(wp[w]) => Alternate(wp'[w])
          /\ Watched(wp[w]) => Watched(wp'[w])
          /\ Gone(wp[w]) => Gone(wp'[w])
      BY <3>1, <3>2, Zenon DEF Unpinged, Alternate, Watched, Due, Gone
    <3>4. Orderly(wp[w], queue, w) => Orderly(wp'[w], queue, w)
      BY <3>1, Zenon DEF Orderly
    <3>5. ASSUME NEW f \in Calls, Attends(f, wp[w], w)
          PROVE  Watched(wp'[w]) \/ (f \in Calls' /\ Attends(f, wp'[w], w))
      <4>1. CASE f = Head(stack)
        <5>1. Due(wp[w]) /\ why = "PingFailure"
          BY <1>0, <1>2, <2>4, <2>6, <3>5, <4>1 DEF Attends
        <5> QED
          BY <3>1, <3>2, <5>1, Zenon DEF Watched, Due
      <4>2. CASE f # Head(stack)
        <5>1. Due(wp[w]) => Due(wp'[w])
          BY <3>1 DEF Due
        <5> QED
          BY <2>2, <3>5, <4>2, <5>1 DEF Attends
      <4> QED
        BY <4>1, <4>2
    <3> QED
      BY <1>0, <2>1, <2>2, <2>3, <3>1, <3>3, <3>4, <3>5, Zenon DEF Pinged
  <2>7. ASSUME wp' = [wp EXCEPT ![w].m_TerminalIllReason = why], frames = fatal
        PROVE  Pinged(wp'[w], queue', Calls', w)
    <3>1. /\ wp'[w].m_State = wp[w].m_State
          /\ wp'[w].m_pMessagingHandler = wp[w].m_pMessagingHandler
          /\ wp'[w].m_AwaitingPingReply = wp[w].m_AwaitingPingReply
          /\ wp'[w].handle = wp[w].handle
      BY <1>0, <2>7 DEF WorkerProcesses
    <3>2. Call("Terminate", w) \in Calls'
      <4>1. Len(fatal) = 2 /\ fatal[2] = Call("Terminate", w) /\ 2 \in 1 .. 2
        OBVIOUS
      <4> HIDE DEF fatal
      <4> QED
        BY <2>2, <2>7, <4>1
    <3>3. Call("Terminate", w).fn = "Terminate" /\ Call("Terminate", w).w = w
      BY DEF Call
    <3>4. Attends(Call("Terminate", w), wp'[w], w)
      BY <3>3 DEF Attends
    <3>5. /\ Unpinged(wp[w], queue, w) => Unpinged(wp'[w], queue, w)
          /\ Alternate(wp[w]) => Alternate(wp'[w])
      BY <3>1, Zenon DEF Unpinged, Alternate
    <3>6. Orderly(wp[w], queue, w) => Orderly(wp'[w], queue, w)
      BY <3>1, Zenon DEF Orderly
    <3> QED
      BY <1>0, <2>1, <2>2, <3>1, <3>2, <3>3, <3>4, <3>5, <3>6, Zenon DEF Pinged
  <2> QED
    BY <1>3, <2>5, <2>6, <2>7
<1> QED
  BY <1>4, <1>5 DEF PingInv

\* A new object has no pings: nothing of its memory's former use is in the queue.
LEMMA NewPinged ==
  ASSUME TypeOK, NEW new \in FreeMemory, NEW reason \in {"DemandStart", "Replace"},
         NEW old \in WP \cup {NoWP}, old # new, wp' = Constructed(new, reason, old)
  PROVE  /\ new \in WP /\ wp'[new].m_State = "Uninitialized"
         /\ wp'[new].m_TerminalIllReason = "NotIll"
         /\ Unpinged(wp'[new], queue, new)
         /\ \A v \in WP : v # new => SamePing(wp'[v], wp[v])
<1> DEFINE r == NewWorkerProcess(reason, old)
           tbl == [wp EXCEPT ![new] = r]
<1>1. /\ r.m_State = "Uninitialized" /\ r.m_TerminalIllReason = "NotIll"
      /\ ~r.m_AwaitingPingReply
      /\ r.handle["SendPing"] = "NULL" /\ r.handle["PingResponse"] = "NULL"
  BY DEF NewWorkerProcess, NoObject, NoHandles, Handles
<1>2. r \in WorkerProcesses
  BY NewWorkerProcessType
<1>3. wp' = IF old = NoWP THEN tbl ELSE Referenced(tbl, old)
  BY DEF Constructed
<1>4. new \in WP /\ queue \in Seq(WorkItems) /\ \A i \in DOMAIN queue : queue[i].w # new
  BY DEF FreeMemory, TypeOK
<1> HIDE DEF r
<1>5. tbl \in [WP -> WorkerProcesses] /\ tbl[new] = r /\ \A v \in WP : v # new => tbl[v] = wp[v]
  BY <1>2, <1>4 DEF TypeOK
<1> HIDE DEF tbl
<1>6. wp' = tbl \/ (old \in WP /\ wp' = [tbl EXCEPT ![old].m_RefCount = tbl[old].m_RefCount + 1])
  BY <1>3 DEF Referenced
<1>7. ASSUME NEW v \in WP
      PROVE  SamePing(wp'[v], tbl[v])
  <2>1. CASE wp' = tbl
    BY <2>1 DEF SamePing
  <2>2. CASE old \in WP /\ wp' = [tbl EXCEPT ![old].m_RefCount = tbl[old].m_RefCount + 1]
    BY <1>5, <2>2, SamePingField
  <2> QED
    BY <1>6, <2>1, <2>2
<1>8. wp'[new] = r
  BY <1>4, <1>5, <1>6
<1>9. \A i \in 1 .. Len(queue) : ~IsPing(queue[i], new) /\ ~IsDeadline(queue[i], new)
  BY <1>4 DEF IsPing, IsDeadline, Item
<1> QED
  BY <1>1, <1>4, <1>5, <1>7, <1>8, <1>9 DEF Unpinged

LEMMA InitiateReplacementPing ==
  ASSUME ObjectInv, PingInv, InitiateReplacement
  PROVE  PingInv'
<1>0. /\ stack # <<>> /\ queue' = queue /\ Head(stack).fn = "InitiateReplacement"
      /\ Calling("InitiateReplacement")
  BY DEF InitiateReplacement, Calling
<1>1. /\ TypeOK /\ FrameInv(1) /\ Head(stack) = stack[1] /\ wp \in [WP -> WorkerProcesses]
      /\ Len(stack) \in Nat
  BY <1>0, First DEF TypeOK
<1>2. PICK w \in WP : w = This /\ Head(stack).w = w
  BY <1>0, <1>1, CallingWP DEF WorkerProcessMethods, This
<1>3. CASE wp' = wp /\ (Return(<<>>) \/ Return(ReplacementRefused(w)))
  <2>1. PICK frames : Later(frames) /\ Return(frames)
    BY <1>3, LaterShapes, LaterCalls DEF ReplacementRefused, WorkerProcessMethods
  <2>2. \A v \in WP : SamePing(wp'[v], wp[v])
    BY <1>3 DEF SamePing
  <2>3. \A v \in WP : Pinged(wp'[v], queue', Calls', v)
    BY <1>0, <1>1, <2>1, <2>2, QuietCall
  <2> QED
    BY <2>3 DEF PingInv
<1>4. CASE /\ IsOkToReplaceWorkerProcess
           /\ \E new \in FreeMemory :
                /\ wp' = Constructed(new, "Replace", w)
                /\ Return(<<Call("Initialize", new), Call("MarkReplaced", w)>>)
  <2>1. PICK new \in FreeMemory :
                /\ wp' = Constructed(new, "Replace", w)
                /\ Return(<<Call("Initialize", new), Call("MarkReplaced", w)>>)
    BY <1>4
  <2>2. w # new
    BY <1>0, <1>1, <1>2, <1>4 DEF FrameInv, Founded, IsOkToReplaceWorkerProcess, FreeMemory
  <2>3. /\ new \in WP /\ wp'[new].m_State = "Uninitialized"
        /\ wp'[new].m_TerminalIllReason = "NotIll"
        /\ Unpinged(wp'[new], queue, new)
        /\ \A v \in WP : v # new => SamePing(wp'[v], wp[v])
    BY <1>1, <2>1, <2>2, NewPinged
  <2> DEFINE frames == <<Call("Initialize", new), Call("MarkReplaced", w)>>
  <2>4. Later(frames) /\ Return(frames)
    BY <2>1, <2>3, LaterShapes, LaterCalls DEF WorkerProcessMethods
  <2> HIDE DEF frames
  <2>5. ASSUME NEW v \in WP, v # new
        PROVE  Pinged(wp'[v], queue', Calls', v)
    BY <1>0, <1>1, <2>3, <2>4, <2>5, QuietCall
  <2>6. \A f \in Calls : f.fn # "StartupTail"
    <3>1. Len(stack) <= 2 /\ (Len(stack) = 2 => stack[2].fn = "ReplaceAll")
      BY <1>0, <1>1 DEF FrameInv, Placed
    <3>2. \A m \in Nat : m <= 2 => \A i \in 1 .. m : i = 1 \/ (i = 2 /\ m = 2)
      OBVIOUS
    <3>3. \A i \in 1 .. Len(stack) : i = 1 \/ (i = 2 /\ Len(stack) = 2)
      BY <1>1, <3>1, <3>2, Zenon
    <3> QED
      BY <1>0, <1>1, <3>1, <3>3 DEF Calls
  <2>7. \A f \in Calls' : f.fn # "StartupTail"
    BY <1>0, <1>1, <2>4, <2>6, CallsNext
  <2>8. Pinged(wp'[new], queue', Calls', new)
    BY <1>0, <2>3, <2>7 DEF Pinged, Young
  <2> QED
    BY <2>5, <2>8 DEF PingInv
<1> QED
  BY <1>2, <1>3, <1>4 DEF InitiateReplacement

LEMMA CallsPing ==
  ASSUME ObjectInv, PingInv, MakeCall
  PROVE  PingInv'
<1>1. TypeOK
  BY DEF ObjectInv, QuietInvariant
<1> QED
  BY <1>1, PoolCallsPing, ReleasingCallsPing, InitializePing, ShutdownPing, StartupTailPing,
     MarkAsTerminallyIllPing, InitiateReplacementPing DEF MakeCall, WorkerProcessCall

-----------------------------------------------------------------------------
(***************************************************************************)
(* Between work items.                                                     *)
(***************************************************************************)
LEMMA CallsEmpty ==
  ASSUME stack = <<>>
  PROVE  Calls = {}
<1>1. \A i \in 1 .. Len(stack) : FALSE
  OBVIOUS
<1> QED
  BY <1>1, Zenon DEF Calls

LEMMA CallsLater ==
  ASSUME Later(stack')
  PROVE  \A f \in Calls' : f.fn # "StartupTail"
  BY DEF Later, Calls

\* A step that leaves the pings of w alone.
LEMMA IdleOther ==
  ASSUME PingInv, stack = <<>>, NEW w \in WP, SamePing(wp'[w], wp[w]),
         Since(queue, queue', w), Later(stack')
  PROVE  Pinged(wp'[w], queue', Calls', w)
<1>1. Pinged(wp[w], queue, {}, w)
  BY CallsEmpty DEF PingInv
<1>2. \A f \in Calls' : f.fn # "StartupTail"
  BY CallsLater
<1> QED
  BY <1>1, <1>2, IdlePinged

LEMMA AppPoolEventPing ==
  ASSUME TypeOK, PingInv, AppPoolEvent
  PROVE  PingInv'
<1>0. stack = <<>> /\ wp' = wp /\ queue \in Seq(WorkItems)
  BY DEF TypeOK, AppPoolEvent, FlowedStart, FlowedStop, SetConfiguration, RecycleWorkerProcesses,
     PoolShutdown, DeletePool, CreatePool, DemandArrives, Idle
<1>1. ASSUME NEW w \in WP PROVE Since(queue, queue', w)
  <2>1. CASE DemandArrives
    <3> DEFINE x == Item("DemandStart", NoWP)
    <3>1. x \in WorkItems /\ ~IsPing(x, w) /\ ~IsDeadline(x, w)
      BY DEF WorkItems, Item, IsPing, IsDeadline
    <3>2. queue' = Append(queue, x)
      BY <2>1 DEF DemandArrives, Enqueue
    <3> HIDE DEF x
    <3> QED
      BY <1>0, <3>1, <3>2, SinceAppend
  <2>2. CASE ~DemandArrives
    <3>1. queue' = queue
      BY <2>2 DEF AppPoolEvent, FlowedStart, FlowedStop, SetConfiguration, RecycleWorkerProcesses,
         PoolShutdown, DeletePool, CreatePool
    <3> QED
      BY <3>1, SinceSame
  <2> QED
    BY <2>1, <2>2
<1>2. Later(stack')
  <2>0. Later(<<>>) /\ \A fn \in AppPoolMethods : Later(<<Call(fn, NoWP)>>)
    BY LaterShapes, LaterCalls
  <2>1. CASE SetConfiguration
    <3>1. PICK stop, rotate :
            /\ stop = <<>> \/ stop = <<Call("DisableAppPool", NoWP)>>
            /\ rotate = <<>> \/ rotate = <<Call("ConfigChange", NoWP)>>
            /\ stack' = stop \o rotate
      BY <2>1 DEF SetConfiguration
    <3>2. Later(stop) /\ Later(rotate)
      BY <2>0, <3>1 DEF AppPoolMethods
    <3> QED
      BY <3>1, <3>2, LaterConcat
  <2>2. CASE RecycleWorkerProcesses
    BY <2>2, ListType, LaterWalk DEF RecycleWorkerProcesses, Walks
  <2>3. CASE PoolShutdown
    <3>1. Later(WalkFrom("ShutdownAll", FirstEntry)) /\ Later(<<Call("CheckShutdown", NoWP)>>)
      BY <2>0, ListType, LaterWalk DEF Walks, AppPoolMethods
    <3> QED
      BY <2>3, <3>1, LaterConcat DEF PoolShutdown
  <2>4. CASE FlowedStart \/ FlowedStop \/ DeletePool \/ CreatePool \/ DemandArrives
    BY <1>0, <2>0, <2>4 DEF FlowedStart, FlowedStop, DeletePool, CreatePool, DemandArrives,
       AppPoolMethods
  <2> QED
    BY <2>1, <2>2, <2>3, <2>4 DEF AppPoolEvent
<1>3. \A w \in WP : SamePing(wp'[w], wp[w])
  BY <1>0 DEF SamePing
<1>4. \A w \in WP : Pinged(wp'[w], queue', Calls', w)
  BY <1>0, <1>1, <1>2, <1>3, IdleOther
<1> QED
  BY <1>4 DEF PingInv

LEMMA DemandStartPing ==
  ASSUME TypeOK, PingInv, DemandStart
  PROVE  PingInv'
<1>0. stack = <<>> /\ queue \in Seq(WorkItems) /\ queue # <<>> /\ queue' = Tail(queue)
  BY DEF TypeOK, DemandStart, Take, Idle
<1>1. \A w \in WP : Since(queue, queue', w)
  BY <1>0, SinceTail
<1>2. CASE wp' = wp /\ stack' = stack
  <2>1. Later(stack') /\ \A w \in WP : SamePing(wp'[w], wp[w])
    BY <1>0, <1>2, LaterShapes DEF SamePing
  <2>2. \A w \in WP : Pinged(wp'[w], queue', Calls', w)
    BY <1>0, <1>1, <2>1, IdleOther
  <2> QED
    BY <2>2 DEF PingInv
<1>3. CASE \E new \in FreeMemory : /\ wp' = Constructed(new, "DemandStart", NoWP)
                                   /\ stack' = <<Call("Initialize", new)>>
  <2>1. PICK new \in FreeMemory : /\ wp' = Constructed(new, "DemandStart", NoWP)
                                  /\ stack' = <<Call("Initialize", new)>>
    BY <1>3
  <2>2. NoWP # new
    BY PointerAssumption DEF FreeMemory
  <2>3. /\ new \in WP /\ wp'[new].m_State = "Uninitialized"
        /\ wp'[new].m_TerminalIllReason = "NotIll"
        /\ Unpinged(wp'[new], queue, new)
        /\ \A v \in WP : v # new => SamePing(wp'[v], wp[v])
    BY <2>1, <2>2, NewPinged
  <2>4. Later(stack')
    BY <2>1, <2>3, LaterCalls DEF WorkerProcessMethods
  <2>5. \A v \in WP : v # new => Pinged(wp'[v], queue', Calls', v)
    BY <1>0, <1>1, <2>3, <2>4, IdleOther
  <2>6. Unpinged(wp'[new], queue', new)
    BY <1>1, <2>3 DEF Since
  <2>7. Pinged(wp'[new], queue', Calls', new)
    BY <2>3, <2>4, <2>6, CallsLater DEF Pinged, Young
  <2> QED
    BY <2>5, <2>7 DEF PingInv
<1> QED
  BY <1>2, <1>3 DEF DemandStart

\* The first item is of no further consequence.
LEMMA TakenItem ==
  ASSUME TypeOK, NEW op \in Handles, Take(op)
  PROVE  /\ stack = <<>> /\ queue \in Seq(WorkItems) /\ queue # <<>> /\ queue' = Tail(queue)
         /\ Head(queue).w \in WP /\ Head(queue) = queue[1] /\ 1 \in 1 .. Len(queue)
         /\ Head(queue) = Item(op, Head(queue).w)
         /\ wp \in [WP -> WorkerProcesses]
         /\ \A v \in WP : Since(queue, queue', v)
<1>1. /\ stack = <<>> /\ queue \in Seq(WorkItems) /\ queue # <<>> /\ queue' = Tail(queue)
      /\ Head(queue).op = op /\ wp \in [WP -> WorkerProcesses]
  BY DEF Take, Idle, TypeOK
<1>2. Head(queue) \in WorkItems /\ Head(queue) = queue[1] /\ 1 \in 1 .. Len(queue)
  BY <1>1
<1>3. Head(queue).w \in WP /\ Head(queue) = Item(op, Head(queue).w)
  BY <1>1, <1>2 DEF WorkItems, Item, Handles
<1> QED
  BY <1>1, <1>2, <1>3, SinceTail

\* The calls a work item begins with.
LEMMA DoneLater ==
  ASSUME NEW w \in WP, NEW frames, Later(frames), Done(w, frames)
  PROVE  Later(stack')
  BY LaterCalls, LaterConcat DEF Done, WorkerProcessMethods

LEMMA DoneIll ==
  ASSUME NEW w \in WP, NEW why \in IllnessReasons, Done(w, <<Ill(w, why)>>)
  PROVE  Ill(w, why) \in Calls' /\ Later(stack')
<1> DEFINE f == Ill(w, why)
           g == Call("Dereference", w)
<1>1. stack' = <<f>> \o <<g>>
  BY DEF Done
<1>2. Later(<<f>>)
  BY LaterCalls
<1>3. Later(stack')
  BY <1>2, DoneLater
<1> HIDE DEF f, g
<1>4. stack'[1] = f /\ 1 \in 1 .. Len(stack')
  BY <1>1
<1>5. f \in Calls'
  BY <1>4 DEF Calls
<1> QED
  BY <1>3, <1>5 DEF f

LEMMA OtherItemsPing ==
  ASSUME TypeOK, PingInv, StartupTimerExpired \/ ShutdownTimerExpired \/ ProcessHandleSignaled
  PROVE  PingInv'
<1>1. PICK op \in Handles : Take(op)
  BY DEF StartupTimerExpired, ShutdownTimerExpired, ProcessHandleSignaled, TakeOwn, Handles
<1>2. PICK w \in WP : w = Head(queue).w
  BY <1>1, TakenItem
<1>3. stack = <<>> /\ wp \in [WP -> WorkerProcesses] /\ \A v \in WP : Since(queue, queue', v)
  BY <1>1, TakenItem
<1>4. Later(stack')
  <2>1. /\ Later(<<>>) /\ \A why \in IllnessReasons : Later(<<Ill(w, why)>>)
        /\ Later(<<Call("Terminate", w)>>)
    BY LaterShapes, LaterCalls DEF WorkerProcessMethods
  <2>2. \E frames : Later(frames) /\ Done(w, frames)
    BY <1>2, <2>1 DEF StartupTimerExpired, ShutdownTimerExpired, ProcessHandleSignaled,
       ProcessEnded, IllnessReasons
  <2> QED
    BY <2>2, DoneLater
<1>5. \A v \in WP : SamePing(wp'[v], wp[v])
  BY <1>2, <1>3, SamePingField DEF StartupTimerExpired, ShutdownTimerExpired, ProcessHandleSignaled
<1>6. \A v \in WP : Pinged(wp'[v], queue', Calls', v)
  BY <1>3, <1>4, <1>5, IdleOther
<1> QED
  BY <1>6 DEF PingInv

\* What is left in the queue once an item of w has been taken.
LEMMA TakenOnce ==
  ASSUME NEW q \in Seq(WorkItems), q # <<>>, NEW w, NEW r, Orderly(r, q, w)
  PROVE  /\ IsPing(q[1], w) =>
              /\ \A i \in 1 .. Len(Tail(q)) : ~IsPing(Tail(q)[i], w)
              /\ r.handle["SendPing"] = "fired"
              /\ r.handle["PingResponse"] # "fired" =>
                   \A i \in 1 .. Len(Tail(q)) : ~IsDeadline(Tail(q)[i], w)
         /\ IsDeadline(q[1], w) => \A i \in 1 .. Len(Tail(q)) : ~IsDeadline(Tail(q)[i], w)
<1> DEFINE t == Tail(q)
<1>1. /\ Len(q) \in Nat \ {0}
      /\ \A i \in 1 .. Len(t) : t[i] = q[i + 1] /\ i + 1 \in 1 .. Len(q) /\ i + 1 # 1 /\ ~(1 > i + 1)
      /\ 1 \in 1 .. Len(q)
  OBVIOUS
<1> HIDE DEF t
<1>2. ASSUME NEW i \in 1 .. Len(t), IsPing(q[1], w) PROVE ~IsPing(t[i], w)
  BY <1>1, <1>2 DEF Orderly
<1>3. ASSUME NEW i \in 1 .. Len(t), IsDeadline(q[1], w) PROVE ~IsDeadline(t[i], w)
  BY <1>1, <1>3 DEF Orderly
<1>4. ASSUME NEW i \in 1 .. Len(t), IsPing(q[1], w), r.handle["PingResponse"] # "fired"
      PROVE  ~IsDeadline(t[i], w)
  BY <1>1, <1>4 DEF Orderly
<1>5. IsPing(q[1], w) => r.handle["SendPing"] = "fired"
  BY <1>1 DEF Orderly
<1> QED
  BY <1>2, <1>3, <1>4, <1>5 DEF t

\* A ping is sent: there was no expiry of an earlier deadline behind it.
LEMMA SendPingPing ==
  ASSUME TypeOK, PingInv, SendPing
  PROVE  PingInv'
<1>0. "SendPing" \in Handles /\ Take("SendPing")
  BY DEF Handles, SendPing, TakeOwn
<1>1. PICK w \in WP : w = Head(queue).w
  BY <1>0, TakenItem
<1>2. /\ stack = <<>> /\ wp \in [WP -> WorkerProcesses] /\ \A v \in WP : Since(queue, queue', v)
      /\ queue \in Seq(WorkItems) /\ queue # <<>> /\ queue' = Tail(queue)
      /\ queue[1] = Item("SendPing", w) /\ 1 \in 1 .. Len(queue)
  BY <1>0, <1>1, TakenItem
<1>3. Pinged(wp[w], queue, {}, w)
  BY <1>2, CallsEmpty DEF PingInv
<1>4. wp[w].m_State \notin Young
  BY <1>2, <1>3 DEF Pinged, Unpinged, IsPing
<1>5. CASE wp[w].m_State # "Running"
  <2>1. wp' = [wp EXCEPT ![w].handle["SendPing"] = "NULL"] /\ Done(w, <<>>)
    BY <1>1, <1>5 DEF SendPing
  <2>2. Later(stack')
    BY <2>1, DoneLater, LaterShapes
  <2>3. ASSUME NEW v \in WP, v # w
        PROVE  Pinged(wp'[v], queue', Calls', v)
    <3>1. SamePing(wp'[v], wp[v])
      BY <1>2, <2>1, <2>3 DEF SamePing
    <3> QED
      BY <1>2, <2>2, <3>1, IdleOther
  <2>4. /\ wp'[w].m_State = wp[w].m_State
        /\ wp'[w].m_TerminalIllReason = wp[w].m_TerminalIllReason
    BY <1>2, <2>1 DEF WorkerProcesses
  <2>5. Pinged(wp'[w], queue', Calls', w)
    BY <1>3, <1>4, <1>5, <2>4 DEF Pinged, Gone
  <2> QED
    BY <2>3, <2>5 DEF PingInv
<1>6. CASE wp[w].m_State = "Running"
  <2>1. PICK outcome \in SendPingOutcomes :
          /\ wp' = [wp EXCEPT ![w] = PingSent(wp[w], outcome)]
          /\ Done(w, IF outcome = "ok" THEN <<>> ELSE <<Ill(w, "InternalError")>>)
    BY <1>1, <1>6 DEF SendPing
  <2>2. /\ Later(stack')
        /\ outcome # "ok" => Ill(w, "InternalError") \in Calls'
    BY <2>1, DoneLater, DoneIll, LaterShapes DEF IllnessReasons
  <2>3. ASSUME NEW v \in WP, v # w
        PROVE  Pinged(wp'[v], queue', Calls', v)
    <3>1. SamePing(wp'[v], wp[v])
      BY <1>2, <2>1, <2>3 DEF SamePing
    <3> QED
      BY <1>2, <2>2, <3>1, IdleOther
  <2>4. /\ wp[w].m_pMessagingHandler # "NULL" /\ Alternate(wp[w]) /\ Orderly(wp[w], queue, w)
        /\ wp[w].m_TerminalIllReason = "NotIll"
    BY <1>3, <1>6 DEF Pinged, Gone
  <2>5. /\ wp[w].handle["SendPing"] = "fired" /\ ~wp[w].m_AwaitingPingReply
        /\ wp[w].handle["PingResponse"] = "NULL"
        /\ \A i \in 1 .. Len(queue') : ~IsPing(queue'[i], w) /\ ~IsDeadline(queue'[i], w)
    BY <1>2, <2>4, TakenOnce DEF Alternate, IsPing
  <2> DEFINE s == PingSent(wp[w], outcome)
  <2>6. /\ s.m_State = "Running" /\ s.m_TerminalIllReason = "NotIll"
        /\ s.m_pMessagingHandler # "NULL"
        /\ s.handle["SendPing"] = "NULL"
        /\ s.handle["PingResponse"] = IF outcome = "ok" THEN "armed" ELSE "NULL"
    BY <1>2, <1>6, <2>4, <2>5 DEF PingSent, WorkerProcesses, Handles
  <2>7. s.m_AwaitingPingReply <=> outcome # "SendPing"
    <3>1. wp[w] \in WorkerProcesses
      BY <1>2
    <3>2. s.m_AwaitingPingReply = (wp[w].m_AwaitingPingReply \/ outcome # "SendPing")
      BY <3>1, Zenon DEF PingSent, WorkerProcesses
    <3> HIDE DEF s
    <3> QED
      BY <2>5, <3>2, Zenon
  <2>8. wp'[w] = s
    BY <1>2, <2>1
  <2> HIDE DEF s
  <2>9. Alternate(s) /\ Orderly(s, queue', w)
    BY <2>5, <2>6, <2>7 DEF Alternate, Orderly
  <2>10. CASE outcome = "ok"
    <3>1. Watched(s)
      BY <2>6, <2>7, <2>10 DEF Watched, Due
    <3>2. \A f \in Calls' : f.fn # "StartupTail"
      BY <2>2, CallsLater
    <3>3. Pinged(s, queue', Calls', w)
      BY <2>6, <2>9, <3>1, <3>2 DEF Pinged, Young
    <3> QED
      BY <2>3, <2>8, <3>3 DEF PingInv
  <2>11. CASE outcome # "ok"
    <3>1. Attends(Ill(w, "InternalError"), s, w)
      BY DEF Attends
    <3>2. \A f \in Calls' : f.fn # "StartupTail"
      BY <2>2, CallsLater
    <3>3. Pinged(s, queue', Calls', w)
      BY <2>2, <2>6, <2>9, <2>11, <3>1, <3>2 DEF Pinged, Young
    <3> QED
      BY <2>3, <2>8, <3>3 DEF PingInv
  <2> QED
    BY <2>10, <2>11
<1> QED
  BY <1>5, <1>6

LEMMA PingResponsePing ==
  ASSUME TypeOK, PingInv, PingResponseTimerExpired
  PROVE  PingInv'
<1>0. "PingResponse" \in Handles /\ Take("PingResponse")
  BY DEF Handles, PingResponseTimerExpired, TakeOwn
<1>1. PICK w \in WP : w = Head(queue).w
  BY <1>0, TakenItem
<1>2. /\ stack = <<>> /\ wp \in [WP -> WorkerProcesses] /\ \A v \in WP : Since(queue, queue', v)
      /\ queue \in Seq(WorkItems) /\ queue # <<>> /\ queue' = Tail(queue)
      /\ queue[1] = Item("PingResponse", w) /\ 1 \in 1 .. Len(queue)
  BY <1>0, <1>1, TakenItem
<1>3. Pinged(wp[w], queue, {}, w)
  BY <1>2, CallsEmpty DEF PingInv
<1>4. wp[w].m_State \notin Young
  BY <1>2, <1>3 DEF Pinged, Unpinged, IsDeadline
<1>5. /\ wp' = [wp EXCEPT ![w].handle["PingResponse"] = "NULL"]
      /\ Done(w, IF wp[w].m_State = "Running" /\ wp[w].m_AwaitingPingReply
                 THEN <<Ill(w, "PingFailure")>> ELSE <<>>)
  BY <1>1 DEF PingResponseTimerExpired
<1>6. /\ Later(stack')
      /\ wp[w].m_State = "Running" /\ wp[w].m_AwaitingPingReply => Ill(w, "PingFailure") \in Calls'
  BY <1>5, DoneLater, DoneIll, LaterShapes DEF IllnessReasons
<1>7. ASSUME NEW v \in WP, v # w
      PROVE  Pinged(wp'[v], queue', Calls', v)
  <2>1. SamePing(wp'[v], wp[v])
    BY <1>2, <1>5, <1>7 DEF SamePing
  <2> QED
    BY <1>2, <1>6, <2>1, IdleOther
<1>8. /\ wp'[w].m_State = wp[w].m_State
      /\ wp'[w].m_TerminalIllReason = wp[w].m_TerminalIllReason
      /\ wp'[w].m_pMessagingHandler = wp[w].m_pMessagingHandler
      /\ wp'[w].m_AwaitingPingReply = wp[w].m_AwaitingPingReply
      /\ wp'[w].handle["SendPing"] = wp[w].handle["SendPing"]
      /\ wp'[w].handle["PingResponse"] = "NULL"
  BY <1>2, <1>5 DEF WorkerProcesses, Handles
<1>9. Pinged(wp'[w], queue', Calls', w)
  <2>1. CASE wp[w].m_State # "Running"
    BY <1>3, <1>4, <1>8, <2>1 DEF Pinged, Gone
  <2>2. CASE wp[w].m_State = "Running"
    <3>1. /\ wp[w].m_pMessagingHandler # "NULL" /\ Alternate(wp[w]) /\ Orderly(wp[w], queue, w)
          /\ wp[w].m_TerminalIllReason = "NotIll" /\ (Pinging => Watched(wp[w]))
      BY <1>3, <2>2 DEF Pinged, Gone
    <3>2. Orderly(wp[w], queue', w) /\ \A i \in 1 .. Len(queue') : ~IsDeadline(queue'[i], w)
      BY <1>2, <3>1, TakenOnce DEF Since, IsDeadline
    <3>3. Alternate(wp'[w]) /\ Orderly(wp'[w], queue', w)
      BY <1>8, <3>1, <3>2 DEF Alternate, Orderly
    <3>4. Due(wp[w]) => Due(wp'[w])
      BY <1>8 DEF Due
    <3>5. wp[w].m_AwaitingPingReply /\ Due(wp'[w]) => \E f \in Calls' : Attends(f, wp'[w], w)
      BY <1>6, <2>2 DEF Attends
    <3>6. ~wp[w].m_AwaitingPingReply /\ Watched(wp[w]) => Watched(wp'[w])
      BY <1>8 DEF Watched, Due
    <3>7. Pinging => Watched(wp'[w]) \/ \E f \in Calls' : Attends(f, wp'[w], w)
      BY <3>1, <3>4, <3>5, <3>6 DEF Watched
    <3>8. \A f \in Calls' : f.fn # "StartupTail"
      BY <1>6, CallsLater
    <3> QED
      BY <1>8, <2>2, <3>1, <3>3, <3>7, <3>8 DEF Pinged, Young
  <2> QED
    BY <2>1, <2>2
<1> QED
  BY <1>7, <1>9 DEF PingInv

-----------------------------------------------------------------------------
(***************************************************************************)
(* The messages of the worker process.                                     *)
(***************************************************************************)
LEMMA MessageTaken ==
  ASSUME ObjectInv, NEW op \in PipeOps, TakeMessage(op)
  PROVE  /\ stack = <<>> /\ queue' = Tail(queue) /\ Sender \in WP
         /\ wp[Sender].m_pMessagingHandler = "attached"
         /\ wp \in [WP -> WorkerProcesses]
         /\ \A v \in WP : Since(queue, queue', v)
<1>1. TypeOK /\ queue \in Seq(WorkItems) /\ wp \in [WP -> WorkerProcesses]
  BY DEF ObjectInv, QuietInvariant, TypeOK
<1>2. stack = <<>> /\ queue # <<>> /\ queue' = Tail(queue) /\ Sender \in WP
  BY SenderLives
<1>3. wp[Sender].m_pMessagingHandler = "attached"
  BY DEF TakeMessage, Sender
<1> QED
  BY <1>1, <1>2, <1>3, SinceTail

LEMMA OtherMessagesPing ==
  ASSUME ObjectInv, PingInv, Message, ~HandleHresultOk, ~HandlePingReply
  PROVE  PingInv'
<1>0. TypeOK /\ queue \in Seq(WorkItems) /\ wp \in [WP -> WorkerProcesses] /\ Later(<<>>)
  BY LaterShapes DEF ObjectInv, QuietInvariant, TypeOK
<1>1. ASSUME stack = <<>>, Later(stack'), \A v \in WP : Since(queue, queue', v),
             \A v \in WP : SamePing(wp'[v], wp[v])
      PROVE  PingInv'
  BY <1>1, IdleOther DEF PingInv
<1>2. ASSUME wp' = wp PROVE \A v \in WP : SamePing(wp'[v], wp[v])
  BY <1>2 DEF SamePing
<1>3. CASE DropMessage
  <2>1. stack = <<>> /\ stack' = <<>> /\ wp' = wp /\ queue # <<>> /\ queue' = Tail(queue)
    BY <1>3 DEF DropMessage, Idle
  <2> QED
    BY <1>0, <1>1, <1>2, <2>1, SinceTail
<1>4. CASE ~DropMessage
  <2>1. PICK op \in PipeOps : TakeMessage(op)
    BY <1>4 DEF Message, HandleInvalid, HandleGetPid, HandleHresultBad, HandleRecycleRequest,
       HandleIdleRequest, HandleUnknownRequest, HandleShutdownRequest, HandleBrokenPipe,
       HandleIpmFault, HandleDisconnect, PipeOps
  <2>2. PICK w \in WP : w = Sender
    BY <2>1, MessageTaken
  <2>3. stack = <<>> /\ \A v \in WP : Since(queue, queue', v)
    BY <2>1, MessageTaken
  <2>4. /\ \A why \in IllnessReasons : Later(<<Ill(w, why)>>)
        /\ Later(<<Call("InitiateReplacement", w)>>) /\ Later(<<Call("Shutdown", w)>>)
        /\ Later(<<Call("DetachHandler", w)>>)
    BY LaterCalls DEF WorkerProcessMethods
  <2>5. CASE HandleInvalid \/ HandleHresultBad \/ HandleRecycleRequest \/ HandleIdleRequest
             \/ HandleUnknownRequest
    <3>1. wp' = wp /\ Later(stack')
      BY <1>0, <2>2, <2>4, <2>5 DEF HandleInvalid, HandleHresultBad, HandleRecycleRequest,
         HandleIdleRequest, HandleUnknownRequest, HandleShutdownRequest, IllnessReasons
    <3> QED
      BY <1>1, <1>2, <2>3, <3>1
  <2>6. CASE HandleGetPid
    <3>1. /\ stack' = stack \/ stack' = <<Ill(w, "Untrusted")>>
          /\ wp' = wp \/ wp' = [wp EXCEPT ![w].m_Registered = TRUE]
      BY <2>2, <2>6 DEF HandleGetPid
    <3>2. Later(stack')
      BY <1>0, <2>3, <2>4, <3>1 DEF IllnessReasons
    <3>3. \A v \in WP : SamePing(wp'[v], wp[v])
      BY <1>0, <1>2, <3>1, SamePingField
    <3> QED
      BY <1>1, <2>3, <3>2, <3>3
  <2>7. CASE HandleBrokenPipe \/ HandleIpmFault
    <3>1. PICK frames :
            /\ frames = <<>> \/ frames = <<Ill(w, "IPMError")>>
            /\ stack' = frames \o <<Call("DetachHandler", w)>>
            /\ wp' = wp
      BY <2>2, <2>7 DEF HandleBrokenPipe, HandleIpmFault, HandleDisconnect
    <3>2. Later(frames)
      BY <1>0, <2>4, <3>1 DEF IllnessReasons
    <3>3. Later(stack')
      BY <2>4, <3>1, <3>2, LaterConcat
    <3> QED
      BY <1>1, <1>2, <2>3, <3>1, <3>3
  <2> QED
    BY <1>4, <2>5, <2>6, <2>7 DEF Message
<1> QED
  BY <1>3, <1>4

\* The reply ends the wait: no other ping was due meanwhile, and the expiry of its
\* deadline, if it is still queued, stands before the next one.
LEMMA PingReplyPing ==
  ASSUME ObjectInv, PingInv, HandlePingReply
  PROVE  PingInv'
<1>1. TakeMessage("PingReply") /\ "PingReply" \in PipeOps
  BY DEF HandlePingReply, PipeOps
<1>2. PICK w \in WP : w = Sender
  BY <1>1, MessageTaken
<1>3. /\ stack = <<>> /\ wp \in [WP -> WorkerProcesses] /\ queue' = Tail(queue)
      /\ \A v \in WP : Since(queue, queue', v)
  BY <1>1, MessageTaken
<1>4. Pinged(wp[w], queue, {}, w)
  BY <1>3, CallsEmpty DEF PingInv
<1>5. CASE ~wp[w].m_AwaitingPingReply
  <2>1. wp' = wp /\ stack' = <<Ill(w, "Untrusted")>>
    BY <1>2, <1>5 DEF HandlePingReply
  <2>2. Later(stack') /\ \A v \in WP : SamePing(wp'[v], wp[v])
    BY <2>1, LaterCalls DEF SamePing, IllnessReasons
  <2> QED
    BY <1>3, <2>2, IdleOther DEF PingInv
<1>6. CASE wp[w].m_AwaitingPingReply
  <2>1. PICK failed \in MayFail("SendPingTimer") :
          /\ wp' = [wp EXCEPT ![w] = PingReplied(wp[w], failed)]
          /\ stack' = IF failed THEN <<Ill(w, "InternalError")>> ELSE <<>>
    BY <1>2, <1>6 DEF HandlePingReply
  <2>2. Later(stack')
    BY <2>1, LaterCalls, LaterShapes DEF IllnessReasons
  <2>3. failed => Ill(w, "InternalError") \in Calls'
    <3> SUFFICES ASSUME failed PROVE Ill(w, "InternalError") \in Calls'
      OBVIOUS
    <3> DEFINE f == Ill(w, "InternalError")
    <3>1. stack' = <<f>>
      BY <2>1
    <3> HIDE DEF f
    <3>2. 1 \in 1 .. Len(stack') /\ stack'[1] = f
      BY <3>1
    <3>3. f \in Calls'
      BY <3>2 DEF Calls
    <3> QED
      BY <3>3 DEF f
  <2>4. ASSUME NEW v \in WP, v # w
        PROVE  Pinged(wp'[v], queue', Calls', v)
    <3>1. SamePing(wp'[v], wp[v])
      BY <1>3, <2>1, <2>4 DEF SamePing
    <3> QED
      BY <1>3, <2>2, <3>1, IdleOther
  <2>5. wp[w].m_State \notin Young
    BY <1>4, <1>6 DEF Pinged, Unpinged
  <2> DEFINE s == PingReplied(wp[w], failed)
  <2>6. /\ s.m_State = wp[w].m_State /\ s.m_TerminalIllReason = wp[w].m_TerminalIllReason
        /\ s.m_pMessagingHandler = wp[w].m_pMessagingHandler
        /\ s.handle["PingResponse"] = "NULL"
        /\ s.handle["SendPing"] = IF failed THEN wp[w].handle["SendPing"] ELSE "armed"
    BY <1>3 DEF PingReplied, WorkerProcesses, Handles
  <2>7. ~s.m_AwaitingPingReply
    <3>1. wp[w] \in WorkerProcesses
      BY <1>3
    <3>2. s.m_AwaitingPingReply = FALSE
      BY <3>1, Zenon DEF PingReplied, WorkerProcesses
    <3> HIDE DEF s
    <3> QED
      BY <3>2
  <2>8. wp'[w] = s
    BY <1>3, <2>1
  <2> HIDE DEF s
  <2>9. CASE wp[w].m_State # "Running"
    <3>1. Pinged(s, queue', Calls', w)
      BY <1>4, <2>5, <2>6, <2>9 DEF Pinged, Gone
    <3> QED
      BY <2>4, <2>8, <3>1 DEF PingInv
  <2>10. CASE wp[w].m_State = "Running"
    <3>1. /\ wp[w].m_pMessagingHandler # "NULL" /\ Alternate(wp[w]) /\ Orderly(wp[w], queue, w)
          /\ wp[w].m_TerminalIllReason = "NotIll"
      BY <1>4, <2>10 DEF Pinged, Gone
    <3>2. Orderly(wp[w], queue', w) /\ wp[w].handle["SendPing"] = "NULL"
      BY <1>3, <1>6, <3>1 DEF Since, Alternate
    <3>3. \A i \in 1 .. Len(queue') : ~IsPing(queue'[i], w)
      BY <3>2 DEF Orderly
    <3>4. Alternate(s) /\ Orderly(s, queue', w)
      BY <2>6, <2>7, <3>2, <3>3 DEF Alternate, Orderly
    <3>5. \A f \in Calls' : f.fn # "StartupTail"
      BY <2>2, CallsLater
    <3>6. Watched(s) \/ \E f \in Calls' : Attends(f, s, w)
      BY <2>3, <2>6, <2>7 DEF Watched, Due, Attends
    <3>7. Pinged(s, queue', Calls', w)
      BY <2>6, <2>10, <3>1, <3>4, <3>5, <3>6 DEF Pinged, Young
    <3> QED
      BY <2>4, <2>8, <3>7 DEF PingInv
  <2> QED
    BY <2>9, <2>10
<1> QED
  BY <1>5, <1>6

\* A process whose start succeeded is running before its first ping is scheduled: the end
\* of its startup, or the shutdown that was waiting for it, is still to come.
Serving(r) == [r EXCEPT !.m_State = "Running",
                        !.handle = [r.handle EXCEPT !["Startup"] = "NULL"]]

LEMMA RunningPing ==
  ASSUME TypeOK, NEW w \in WP, NEW s,
         s = Serving(wp[w]) \/ s = [Serving(wp[w]) EXCEPT !.m_NotifiedAppPool = TRUE]
  PROVE  /\ s.m_State = "Running"
         /\ s.m_pMessagingHandler = wp[w].m_pMessagingHandler
         /\ s.m_TerminalIllReason = wp[w].m_TerminalIllReason
         /\ s.m_AwaitingPingReply = wp[w].m_AwaitingPingReply
         /\ s.handle["SendPing"] = wp[w].handle["SendPing"]
         /\ s.handle["PingResponse"] = wp[w].handle["PingResponse"]
<1>0. PICK r : r = Serving(wp[w])
  OBVIOUS
<1>1. wp[w] \in WorkerProcesses
  BY DEF TypeOK
<1>2. r \in WorkerProcesses
  <2> DEFINE h == [wp[w].handle EXCEPT !["Startup"] = "NULL"]
  <2>1. h \in [Handles -> HandleStates] /\ r = [wp[w] EXCEPT !.m_State = "Running", !.handle = h]
    BY <1>0, <1>1 DEF Serving, WorkerProcesses, HandleStates
  <2> HIDE DEF h
  <2> QED
    BY <1>1, <2>1 DEF WorkerProcesses, WorkerProcessStates
<1>3. /\ r.m_State = "Running"
      /\ r.m_pMessagingHandler = wp[w].m_pMessagingHandler
      /\ r.m_TerminalIllReason = wp[w].m_TerminalIllReason
      /\ r.m_AwaitingPingReply = wp[w].m_AwaitingPingReply
      /\ r.handle["SendPing"] = wp[w].handle["SendPing"]
      /\ r.handle["PingResponse"] = wp[w].handle["PingResponse"]
  BY <1>0, <1>1 DEF Serving, WorkerProcesses, Handles
<1>4. /\ s.m_State = r.m_State
      /\ s.m_pMessagingHandler = r.m_pMessagingHandler
      /\ s.m_TerminalIllReason = r.m_TerminalIllReason
      /\ s.m_AwaitingPingReply = r.m_AwaitingPingReply
      /\ s.handle = r.handle
  <2>1. CASE s = r
    BY <2>1
  <2>2. CASE s = [r EXCEPT !.m_NotifiedAppPool = TRUE]
    BY <1>2, <2>2 DEF WorkerProcesses
  <2> QED
    BY <1>0, <2>1, <2>2
<1> QED
  BY <1>3, <1>4

LEMMA HresultOkPing ==
  ASSUME ObjectInv, PingInv, HandleHresultOk
  PROVE  PingInv'
<1>1. TakeMessage("HresultOk") /\ "HresultOk" \in PipeOps /\ TypeOK
  BY DEF HandleHresultOk, PipeOps, ObjectInv, QuietInvariant
<1>2. PICK w \in WP : w = Sender
  BY <1>1, MessageTaken
<1>3. /\ stack = <<>> /\ wp \in [WP -> WorkerProcesses] /\ queue' = Tail(queue)
      /\ wp[w].m_pMessagingHandler = "attached"
      /\ \A v \in WP : Since(queue, queue', v)
  BY <1>1, <1>2, MessageTaken
<1>4. \A v \in WP : Pinged(wp[v], queue, {}, v)
  BY <1>3, CallsEmpty DEF PingInv
<1>5. CASE wp[w].m_State \notin {"RegistrationPending", "RegistrationPendingShutdownPending"}
  <2>1. wp' = wp /\ stack' = <<Ill(w, "Untrusted")>>
    BY <1>2, <1>5 DEF HandleHresultOk
  <2>2. Later(stack') /\ \A v \in WP : SamePing(wp'[v], wp[v])
    BY <2>1, LaterCalls DEF SamePing, IllnessReasons
  <2> QED
    BY <1>3, <2>2, IdleOther DEF PingInv
<1>6. CASE wp[w].m_State \in {"RegistrationPending", "RegistrationPendingShutdownPending"}
  <2> DEFINE tail == Call("StartupTail", w)
             stop == Call("Shutdown", w)
  <2>1. PICK s :
          /\ s = Serving(wp[w]) \/ s = [Serving(wp[w]) EXCEPT !.m_NotifiedAppPool = TRUE]
          /\ wp' = [wp EXCEPT ![w] = s]
          /\ stack' = <<stop>> \/ stack' = ReleasePredecessor(w) \o <<tail>>
    BY <1>2, <1>6 DEF HandleHresultOk, Serving
  <2>2. /\ s.m_State = "Running" /\ s.m_pMessagingHandler # "NULL"
        /\ s.m_TerminalIllReason = wp[w].m_TerminalIllReason
        /\ s.m_AwaitingPingReply = wp[w].m_AwaitingPingReply
        /\ s.handle["SendPing"] = wp[w].handle["SendPing"]
        /\ s.handle["PingResponse"] = wp[w].handle["PingResponse"]
    BY <1>1, <1>3, <2>1, RunningPing
  <2>3. /\ tail \in Frames /\ tail.fn = "StartupTail" /\ tail.w = w
        /\ stop \in Frames /\ stop.fn = "Shutdown" /\ stop.w = w
    BY WorkerFrame DEF WorkerProcessMethods, Call
  <2> HIDE DEF tail, stop
  <2>4. /\ \A f \in Calls' : f.fn = "StartupTail" => f.w = w
        /\ stop \in Calls' \/ tail \in Calls'
    <3>1. CASE stack' = <<stop>>
      <4>1. Len(stack') = 1 /\ stack'[1] = stop /\ \A i \in 1 .. 1 : i = 1
        BY <3>1
      <4> QED
        BY <2>3, <4>1 DEF Calls
    <3>2. CASE stack' = ReleasePredecessor(w) \o <<tail>>
      <4> DEFINE first == ReleasePredecessor(w)
      <4>1. Later(first)
        BY <1>1, LaterRelease
      <4> HIDE DEF first
      <4>2. first \in Seq(Frames) /\ stack' = first \o <<tail>>
        BY <3>2, <4>1 DEF Later, first
      <4>3. /\ Len(first) \in Nat /\ Len(stack') = Len(first) + 1
            /\ stack'[Len(first) + 1] = tail
            /\ \A i \in 1 .. Len(first) : stack'[i] = first[i]
        BY <2>3, <4>2
      <4>4. \A i \in 1 .. Len(stack') : i \in 1 .. Len(first) \/ i = Len(first) + 1
        BY <4>3
      <4>5. Len(first) + 1 \in 1 .. Len(stack')
        BY <4>3
      <4> QED
        BY <2>3, <4>1, <4>3, <4>4, <4>5 DEF Calls, Later
    <3> QED
      BY <2>1, <3>1, <3>2
  <2>5. ASSUME NEW v \in WP, v # w
        PROVE  Pinged(wp'[v], queue', Calls', v)
    <3>1. SamePing(wp'[v], wp[v])
      BY <1>3, <2>1, <2>5 DEF SamePing
    <3>2. \A f \in Calls' : f.fn = "StartupTail" => f.w # v
      BY <2>4, <2>5
    <3> QED
      BY <1>3, <1>4, <3>1, <3>2, IdlePinged
  <2>6. Unpinged(wp[w], queue', w) /\ wp[w].m_TerminalIllReason = "NotIll"
    <3>1. Unpinged(wp[w], queue, w) /\ wp[w].m_TerminalIllReason = "NotIll"
      BY <1>4, <1>6 DEF Pinged, Young, Gone
    <3> QED
      BY <1>3, <3>1 DEF Since
  <2>7. Unpinged(s, queue', w) /\ Alternate(s) /\ Orderly(s, queue', w)
    BY <2>2, <2>6 DEF Unpinged, Alternate, Orderly
  <2>8. \E f \in Calls' : Attends(f, s, w)
    BY <2>3, <2>4 DEF Attends
  <2>9. wp'[w] = s
    BY <1>3, <2>1
  <2>10. Pinged(s, queue', Calls', w)
    BY <2>2, <2>6, <2>7, <2>8 DEF Pinged, Young
  <2> QED
    BY <2>5, <2>9, <2>10 DEF PingInv
<1> QED
  BY <1>5, <1>6

LEMMA ExecuteWorkItemPing ==
  ASSUME ObjectInv, PingInv, ExecuteWorkItem
  PROVE  PingInv'
<1>1. TypeOK
  BY DEF ObjectInv, QuietInvariant
<1> QED
  BY <1>1, OtherItemsPing, SendPingPing, PingResponsePing, OtherMessagesPing, PingReplyPing,
     HresultOkPing, DemandStartPing DEF ExecuteWorkItem, WorkerProcessWorkItem

-----------------------------------------------------------------------------
(***************************************************************************)
(* The worker process and the callbacks.                                   *)
(***************************************************************************)
LEMMA ProcessStepPing ==
  ASSUME TypeOK, PingInv, NEW w \in WP, ProcessStep(w)
  PROVE  PingInv'
<1>0. /\ stack = <<>> /\ stack' = <<>> /\ Later(<<>>)
      /\ queue \in Seq(WorkItems) /\ wp \in [WP -> WorkerProcesses]
  BY LaterShapes DEF TypeOK, ProcessStep, ProcessConnects, ProcessStarts, ProcessFailsToStart,
     ProcessAnswersPing, ProcessAsks, ProcessMisbehaves, ProcessExits, ProcessCrashes, PipeBreaks,
     PipeFaults, Says, Idle
<1>1. queue' = queue \/ \E op \in PipeOps : queue' = Append(queue, Item(op, w))
  BY DEF ProcessStep, ProcessConnects, ProcessStarts, ProcessFailsToStart, ProcessAnswersPing,
     ProcessAsks, ProcessMisbehaves, ProcessExits, ProcessCrashes, PipeBreaks, PipeFaults, Says,
     Enqueue, PipeOps
<1>2. ASSUME NEW v \in WP PROVE Since(queue, queue', v)
  <2>1. CASE queue' = queue
    BY <2>1, SinceSame
  <2>2. ASSUME NEW op \in PipeOps, queue' = Append(queue, Item(op, w))
        PROVE  Since(queue, queue', v)
    <3> DEFINE x == Item(op, w)
    <3>1. x \in WorkItems /\ ~IsPing(x, v) /\ ~IsDeadline(x, v)
      BY DEF WorkItems, Item, IsPing, IsDeadline, PipeOps
    <3>2. queue' = Append(queue, x)
      BY <2>2
    <3> HIDE DEF x
    <3> QED
      BY <1>0, <3>1, <3>2, SinceAppend
  <2> QED
    BY <1>1, <2>1, <2>2
<1>3. \E x : \/ wp' = wp
             \/ wp' = [wp EXCEPT ![w].process.phase = x]
             \/ wp' = [wp EXCEPT ![w].process.inbox = x]
             \/ wp' = [wp EXCEPT ![w].process.pipe = x]
  BY DEF ProcessStep, ProcessConnects, ProcessStarts, ProcessFailsToStart, ProcessAnswersPing,
     ProcessAsks, ProcessMisbehaves, ProcessExits, ProcessCrashes, PipeBreaks, PipeFaults, Says
<1>4. \A v \in WP : SamePing(wp'[v], wp[v])
  BY <1>0, <1>3, SamePingField
<1>5. \A v \in WP : Pinged(wp'[v], queue', Calls', v)
  BY <1>0, <1>2, <1>4, IdleOther
<1> QED
  BY <1>5 DEF PingInv

\* What a callback changes of the record of its process.
LEMMA FiredPing ==
  ASSUME TypeOK, NEW w \in WP, NEW h \in Handles, Callback(w, h)
  PROVE  /\ \A v \in WP : v # w => wp'[v] = wp[v]
         /\ wp'[w].m_State = wp[w].m_State
         /\ wp'[w].m_TerminalIllReason = wp[w].m_TerminalIllReason
         /\ wp'[w].m_AwaitingPingReply = wp[w].m_AwaitingPingReply
         /\ wp'[w].m_IgnoredPingDueToDebugger = wp[w].m_IgnoredPingDueToDebugger
         /\ wp'[w].m_pMessagingHandler = wp[w].m_pMessagingHandler
         /\ \A g \in Handles : wp'[w].handle[g] = IF g = h THEN "fired" ELSE wp[w].handle[g]
<1>1. wp \in [WP -> WorkerProcesses] /\ wp[w] \in WorkerProcesses
  BY DEF TypeOK
<1> DEFINE tbl == [wp EXCEPT ![w].handle[h] = "fired"]
<1>2. /\ tbl \in [WP -> WorkerProcesses]
      /\ \A v \in WP : v # w => tbl[v] = wp[v]
      /\ tbl[w] = [wp[w] EXCEPT !.handle = [wp[w].handle EXCEPT ![h] = "fired"]]
  <2>1. tbl \in [WP -> WorkerProcesses]
    BY <1>1, FieldType DEF HandleStates
  <2>2. /\ \A v \in WP : v # w => tbl[v] = wp[v]
        /\ tbl[w] = [wp[w] EXCEPT !.handle = [wp[w].handle EXCEPT ![h] = "fired"]]
    BY <1>1
  <2> QED
    BY <2>1, <2>2
<1>3. wp' = [tbl EXCEPT ![w].m_RefCount = tbl[w].m_RefCount + 1]
  BY DEF Callback, Referenced
<1> HIDE DEF tbl
<1>4. /\ tbl[w].m_State = wp[w].m_State
      /\ tbl[w].m_TerminalIllReason = wp[w].m_TerminalIllReason
      /\ tbl[w].m_AwaitingPingReply = wp[w].m_AwaitingPingReply
      /\ tbl[w].m_IgnoredPingDueToDebugger = wp[w].m_IgnoredPingDueToDebugger
      /\ tbl[w].m_pMessagingHandler = wp[w].m_pMessagingHandler
      /\ \A g \in Handles : tbl[w].handle[g] = IF g = h THEN "fired" ELSE wp[w].handle[g]
  BY <1>1, <1>2 DEF WorkerProcesses
<1>5. \A v \in WP : v # w => wp'[v] = tbl[v]
  BY <1>2, <1>3
<1>6. PICK n : wp'[w] = [tbl[w] EXCEPT !.m_RefCount = n]
  BY <1>2, <1>3
<1>7. tbl[w] \in WorkerProcesses
  BY <1>2
<1>8. /\ wp'[w].m_State = tbl[w].m_State
      /\ wp'[w].m_TerminalIllReason = tbl[w].m_TerminalIllReason
      /\ wp'[w].m_AwaitingPingReply = tbl[w].m_AwaitingPingReply
      /\ wp'[w].m_IgnoredPingDueToDebugger = tbl[w].m_IgnoredPingDueToDebugger
      /\ wp'[w].m_pMessagingHandler = tbl[w].m_pMessagingHandler
      /\ wp'[w].handle = tbl[w].handle
  BY <1>6, <1>7 DEF WorkerProcesses
<1> QED
  BY <1>2, <1>4, <1>5, <1>8

\* The expiry of a timer that the process still has joins the queue: it is the only one
\* of its kind there, and the next ping comes last.
LEMMA OwnCallbackPing ==
  ASSUME NEW r, NEW s, NEW q \in Seq(WorkItems), NEW w \in WP, NEW h \in {"SendPing", "PingResponse"},
         Pinged(r, q, {}, w), r.handle[h] = "armed",
         s.m_State = r.m_State, s.m_TerminalIllReason = r.m_TerminalIllReason,
         s.m_AwaitingPingReply = r.m_AwaitingPingReply,
         s.m_IgnoredPingDueToDebugger = r.m_IgnoredPingDueToDebugger,
         s.m_pMessagingHandler = r.m_pMessagingHandler,
         \A g \in Handles : s.handle[g] = IF g = h THEN "fired" ELSE r.handle[g]
  PROVE  Pinged(s, Append(q, Item(h, w)), {}, w)
<1> DEFINE x == Item(h, w)
           t == Append(q, x)
<1>1. /\ Len(t) = Len(q) + 1 /\ Len(q) \in Nat /\ t[Len(t)] = x
      /\ \A i \in 1 .. Len(t) : (i \in 1 .. Len(q) /\ t[i] = q[i]) \/ (i = Len(t) /\ t[i] = x)
      /\ \A i \in 1 .. Len(q) : Len(t) > i
  OBVIOUS
<1>2. /\ h = "SendPing" => IsPing(x, w) /\ ~IsDeadline(x, w)
      /\ h = "PingResponse" => IsDeadline(x, w) /\ ~IsPing(x, w)
  BY DEF IsPing, IsDeadline, Item
<1> HIDE DEF t, x
<1>3. /\ s.handle["SendPing"] = IF h = "SendPing" THEN "fired" ELSE r.handle["SendPing"]
      /\ s.handle["PingResponse"] = IF h = "PingResponse" THEN "fired" ELSE r.handle["PingResponse"]
  BY DEF Handles
<1>4. r.m_State \notin Young
  BY DEF Pinged, Unpinged
<1>5. CASE r.m_State # "Running"
  <2>1. Pinged(s, t, {}, w)
    BY <1>4, <1>5 DEF Pinged, Gone
  <2> QED
    BY <2>1 DEF t, x
<1>6. CASE r.m_State = "Running"
  <2>1. /\ r.m_pMessagingHandler # "NULL" /\ Alternate(r) /\ Orderly(r, q, w)
        /\ r.m_TerminalIllReason = "NotIll" /\ (Pinging => Watched(r))
    BY <1>6 DEF Pinged, Gone
  <2>2. CASE h = "SendPing"
    <3>1. /\ ~r.m_AwaitingPingReply /\ r.handle["PingResponse"] = "NULL"
          /\ \A i \in 1 .. Len(q) : ~IsPing(q[i], w)
      BY <2>1, <2>2 DEF Alternate, Orderly
    <3>2. s.handle["SendPing"] = "fired" /\ s.handle["PingResponse"] = "NULL" /\ ~s.m_AwaitingPingReply
      BY <1>3, <2>2, <3>1
    <3>3. \A i \in 1 .. Len(t) : /\ IsPing(t[i], w) => i = Len(t)
                                 /\ IsDeadline(t[i], w) => i \in 1 .. Len(q) /\ t[i] = q[i]
      BY <1>1, <1>2, <2>2, <3>1
    <3>4. \A i, j \in 1 .. Len(t) : IsDeadline(t[i], w) /\ IsDeadline(t[j], w) => i = j
      BY <2>1, <3>3 DEF Orderly
    <3>5. Orderly(s, t, w)
      BY <1>1, <3>2, <3>3, <3>4 DEF Orderly
    <3>6. Alternate(s) /\ Watched(s)
      BY <3>2 DEF Alternate, Watched, Due
    <3>7. Pinged(s, t, {}, w)
      BY <1>6, <2>1, <3>5, <3>6 DEF Pinged, Young
    <3> QED
      BY <3>7 DEF t, x
  <2>3. CASE h = "PingResponse"
    <3>1. /\ r.m_AwaitingPingReply /\ r.handle["SendPing"] = "NULL"
          /\ \A i \in 1 .. Len(q) : ~IsDeadline(q[i], w)
      BY <2>1, <2>3 DEF Alternate, Orderly
    <3>2. s.handle["SendPing"] = "NULL" /\ s.handle["PingResponse"] = "fired" /\ s.m_AwaitingPingReply
      BY <1>3, <2>3, <3>1
    <3>3. \A i \in 1 .. Len(t) : /\ IsDeadline(t[i], w) => i = Len(t)
                                 /\ ~IsPing(t[i], w)
      BY <1>1, <1>2, <2>1, <2>3, <3>1 DEF Orderly
    <3>4. Orderly(s, t, w)
      BY <3>2, <3>3 DEF Orderly
    <3>5. Alternate(s) /\ Watched(s)
      BY <3>2 DEF Alternate, Watched, Due
    <3>6. Pinged(s, t, {}, w)
      BY <1>6, <2>1, <3>4, <3>5 DEF Pinged, Young
    <3> QED
      BY <3>6 DEF t, x
  <2> QED
    BY <2>2, <2>3
<1> QED
  BY <1>5, <1>6

LEMMA CallbackPing ==
  ASSUME TypeOK, PingInv, NEW w \in WP, NEW h \in Handles, Callback(w, h)
  PROVE  PingInv'
<1> DEFINE x == Item(h, w)
<1>0. /\ stack = <<>> /\ stack' = <<>> /\ Later(<<>>) /\ queue \in Seq(WorkItems)
      /\ wp[w].handle[h] = "armed" /\ queue' = Append(queue, x)
  BY LaterShapes DEF TypeOK, Callback, Idle, Enqueue
<1>1. /\ x \in WorkItems
      /\ \A v \in WP : v # w \/ h \notin {"SendPing", "PingResponse"} =>
           ~IsPing(x, v) /\ ~IsDeadline(x, v)
  BY DEF WorkItems, Item, IsPing, IsDeadline
<1> HIDE DEF x
<1>2. ASSUME NEW v \in WP, v # w \/ h \notin {"SendPing", "PingResponse"}
      PROVE  Pinged(wp'[v], queue', Calls', v)
  <2>1. Since(queue, queue', v)
    BY <1>0, <1>1, <1>2, SinceAppend
  <2>2. SamePing(wp'[v], wp[v])
    <3>1. CASE v # w
      BY <3>1, FiredPing DEF SamePing
    <3>2. CASE v = w
      <4>1. /\ wp'[w].handle["SendPing"] = wp[w].handle["SendPing"]
            /\ wp'[w].handle["PingResponse"] = wp[w].handle["PingResponse"]
        BY <1>2, <3>2, FiredPing DEF Handles
      <4> QED
        BY <3>2, <4>1, FiredPing DEF SamePing
    <3> QED
      BY <3>1, <3>2
  <2> QED
    BY <1>0, <2>1, <2>2, IdleOther
<1>3. CASE h \in {"SendPing", "PingResponse"}
  <2>1. Pinged(wp[w], queue, {}, w)
    BY <1>0, CallsEmpty DEF PingInv
  <2>2. /\ wp'[w].m_State = wp[w].m_State
        /\ wp'[w].m_TerminalIllReason = wp[w].m_TerminalIllReason
        /\ wp'[w].m_AwaitingPingReply = wp[w].m_AwaitingPingReply
        /\ wp'[w].m_IgnoredPingDueToDebugger = wp[w].m_IgnoredPingDueToDebugger
        /\ wp'[w].m_pMessagingHandler = wp[w].m_pMessagingHandler
        /\ \A g \in Handles : wp'[w].handle[g] = IF g = h THEN "fired" ELSE wp[w].handle[g]
    BY FiredPing
  <2>3. Pinged(wp'[w], Append(queue, Item(h, w)), {}, w)
    BY <1>0, <1>3, <2>1, <2>2, OwnCallbackPing
  <2>4. Calls' = {}
    <3>1. \A i \in 1 .. Len(stack') : FALSE
      BY <1>0
    <3> QED
      BY <3>1, Zenon DEF Calls
  <2>5. Pinged(wp'[w], queue', Calls', w)
    BY <1>0, <2>3, <2>4 DEF x
  <2> QED
    BY <1>2, <2>5 DEF PingInv
<1>4. CASE h \notin {"SendPing", "PingResponse"}
  BY <1>2, <1>4 DEF PingInv
<1> QED
  BY <1>3, <1>4

-----------------------------------------------------------------------------
LEMMA InitPing == Init => PingInv
<1> SUFFICES ASSUME Init, NEW w \in WP
             PROVE  Pinged(wp[w], queue, Calls, w)
  BY DEF PingInv
<1>1. Gone(wp[w])
  BY DEF Init, Gone, NoObject
<1> QED
  BY <1>1, GonePinged

LEMMA NextPing == ObjectInv /\ PingInv /\ [Next]_vars => PingInv'
<1> SUFFICES ASSUME ObjectInv, PingInv, [Next]_vars
             PROVE  PingInv'
  OBVIOUS
<1>0. TypeOK
  BY DEF ObjectInv, QuietInvariant
<1>1. CASE MakeCall
  BY <1>1, CallsPing
<1>2. CASE ExecuteWorkItem
  BY <1>2, ExecuteWorkItemPing
<1>3. CASE AppPoolEvent
  BY <1>0, <1>3, AppPoolEventPing
<1>4. CASE \E w \in WP : ProcessStep(w) \/ \E h \in Handles : Callback(w, h)
  BY <1>0, <1>4, ProcessStepPing, CallbackPing
<1>5. CASE UNCHANGED vars
  <2>1. wp' = wp /\ queue' = queue /\ stack' = stack
    BY <1>5 DEF vars
  <2>2. Calls' = Calls
    BY <2>1 DEF Calls
  <2> QED
    BY <2>1, <2>2 DEF PingInv
<1> QED
  BY <1>1, <1>2, <1>3, <1>4, <1>5 DEF Next

LEMMA IdleRunning ==
  ASSUME PingInv, Idle, NEW w \in WP, wp[w].m_State = "Running"
  PROVE  Alternate(wp[w]) /\ Orderly(wp[w], queue, w) /\ (Pinging => Watched(wp[w]))
<1>1. Pinged(wp[w], queue, {}, w)
  BY CallsEmpty DEF PingInv, Idle
<1> QED
  BY <1>1 DEF Pinged

\* Between two work items a running process is watched, whatever replies, expiries and
\* failures of timers came before: its next ping is due or one is outstanding, never both,
\* and an outstanding ping has a deadline unless a debugger excused it (BeginSendPingTimer,
\* SendPingWorkItem, PingReplyReceived).
THEOREM PingSafety == Spec => []PingMonitored
<1>1. TypeOK /\ PingInv => PingMonitored
  <2> SUFFICES ASSUME TypeOK, PingInv, Idle, Pinging,
                      NEW w \in ToSet(list), wp[w].m_State = "Running"
               PROVE  /\ wp[w].m_AwaitingPingReply <=> wp[w].handle["SendPing"] = "NULL"
                      /\ ~wp[w].m_AwaitingPingReply => wp[w].handle["PingResponse"] = "NULL"
                      /\ wp[w].m_AwaitingPingReply /\ wp[w].handle["PingResponse"] = "NULL"
                           => wp[w].m_IgnoredPingDueToDebugger
    BY DEF PingMonitored
  <2>1. w \in WP
    BY DEF TypeOK, ToSet
  <2>2. Alternate(wp[w]) /\ Watched(wp[w])
    BY <2>1, IdleRunning
  <2> QED
    BY <2>2 DEF Alternate, Watched, Due
<1>2. ObjectInv /\ PingInv => PingMonitored
  BY <1>1 DEF ObjectInv, QuietInvariant
<1> QED
  BY <1>2, InitObject, NextObject, InitPing, NextPing, PTL DEF Spec

\* A process is only declared ill for a ping whose own deadline has passed.  An expiry that
\* was queued when the reply to its ping arrived is executed before the next ping is sent,
\* because the work queue is first in, first out (PingResponseTimerExpiredWorkItem).
THEOREM PingGenuine == Spec => []PingFailureGenuine
<1>1. TypeOK /\ PingInv => PingFailureGenuine
  <2> SUFFICES ASSUME TypeOK, PingInv, Idle, queue # <<>>, Head(queue).op = "PingResponse",
                      wp[Head(queue).w].m_State = "Running",
                      wp[Head(queue).w].m_AwaitingPingReply
               PROVE  wp[Head(queue).w].handle["PingResponse"] = "fired"
    BY DEF PingFailureGenuine
  <2>1. queue \in Seq(WorkItems) /\ Head(queue) \in WorkItems /\ Head(queue) = queue[1]
        /\ 1 \in 1 .. Len(queue)
    BY DEF TypeOK
  <2>2. PICK w \in WP : Head(queue).w = w /\ queue[1] = Item("PingResponse", w)
    BY <2>1 DEF WorkItems, Item
  <2>3. Orderly(wp[w], queue, w)
    BY <2>2, IdleRunning
  <2> QED
    BY <2>1, <2>2, <2>3 DEF Orderly, IsDeadline
<1>2. ObjectInv /\ PingInv => PingFailureGenuine
  BY <1>1 DEF ObjectInv, QuietInvariant
<1> QED
  BY <1>2, InitObject, NextObject, InitPing, NextPing, PTL DEF Spec
=============================================================================
