--------------------------- MODULE WasPoolProofs ---------------------------
(***************************************************************************)
(* What an application pool promises of its processes between two work     *)
(* items, for every number of objects and every setting: a process that is *)
(* being replaced has a replacement that will relieve it, a pool that has  *)
(* room for a process has asked for the next demand or is about to, and    *)
(* the processes that are not on their way out are not too many.           *)
(*                                                                         *)
(* Within a work item none of them is true.  The old process is marked     *)
(* after its replacement has been initialized, a replacement that starts   *)
(* or ends is out of the count before the old one is told, and a pool that *)
(* picks up a larger maximum has room before it has touched a process.     *)
(* Each time a call is pending that makes up for it.                       *)
(***************************************************************************)
EXTENDS WasPingProofs

-----------------------------------------------------------------------------
(***************************************************************************)
(* The inductive invariant of a replacement.                               *)
(***************************************************************************)
Pending(fn, w) == \E f \in Calls : f.fn = fn /\ f.w = w

\* The process w is marked as being replaced, or is about to be.
Replaced(w) == wp[w].m_BeingReplaced \/ Pending("MarkReplaced", w)
Serves(w) == wp[w].m_State \in {"RegistrationPending", "Running"}

\* The process v has still to tell w to shut down.
Relieves(v, w) == Old(v) = w /\ ~wp[v].m_NotifiedAppPool /\ ~Dead(v)
Relieved(w) ==
  Serves(w) /\ Replaced(w) => Pending("Shutdown", w) \/ \E v \in WP : Relieves(v, w)

\* The call f will start v or end it.
Begins(f, v) ==
  /\ f.w = v
  /\ \/ f.fn \in {"Initialize", "Terminate"}
     \/ f.fn = "MarkAsTerminallyIll" /\ f.why \in {"InternalError", "CreateProcessFailed"}
Unborn(v) == wp[v].m_State = "Uninitialized" => ~Replaced(v) /\ \E f \in Calls : Begins(f, v)

\* The process to replace is let go of only once it has been told.
LetGo(v) == Pending("DropPredecessor", v) => Dead(v) \/ wp[v].m_NotifiedAppPool

RelayInv == \A w \in WP : Relieved(w) /\ Unborn(w) /\ LetGo(w)

-----------------------------------------------------------------------------
(***************************************************************************)
(* What a step may change.                                                 *)
(***************************************************************************)
\* The calls pending after a return.
LEMMA CallsAfter ==
  ASSUME TypeOK, stack # <<>>, NEW frames \in Seq(Frames), Return(frames)
  PROVE  /\ Calls \ {Head(stack)} \subseteq Calls'
         /\ \A i \in 1 .. Len(frames) : frames[i] \in Calls'
         /\ \A f \in Calls' : f \in Calls \/ \E i \in 1 .. Len(frames) : f = frames[i]
         /\ Head(stack) \in Calls
<1>1. /\ Len(frames) \in Nat /\ Len(stack) \in Nat \ {0}
      /\ Len(stack') = Len(frames) + Len(stack) - 1
      /\ \A i \in 1 .. Len(frames) : stack'[i] = frames[i]
      /\ \A i \in 2 .. Len(stack) : stack'[Len(frames) + i - 1] = stack[i]
      /\ \A i \in Len(frames) + 1 .. Len(stack') :
           /\ stack'[i] = stack[i - Len(frames) + 1]
           /\ i - Len(frames) + 1 \in 2 .. Len(stack)
      /\ Head(stack) = stack[1]
  BY Pushed
<1>2. ASSUME NEW f \in Calls, f # Head(stack)
      PROVE  f \in Calls'
  <2>1. PICK i \in 1 .. Len(stack) : f = stack[i]
    BY DEF Calls
  <2>2. i \in 2 .. Len(stack)
    BY <1>1, <1>2, <2>1
  <2>3. Len(frames) + i - 1 \in 1 .. Len(stack')
    BY <1>1, <2>2
  <2> QED
    BY <1>1, <2>1, <2>2, <2>3 DEF Calls
<1>3. ASSUME NEW i \in 1 .. Len(frames)
      PROVE  frames[i] \in Calls'
  <2>1. i \in 1 .. Len(stack') /\ stack'[i] = frames[i]
    BY <1>1
  <2> QED
    BY <2>1 DEF Calls
<1>4. ASSUME NEW f \in Calls'
      PROVE  f \in Calls \/ \E i \in 1 .. Len(frames) : f = frames[i]
  <2>1. PICK i \in 1 .. Len(stack') : f = stack'[i]
    BY DEF Calls
  <2>2. CASE i \in 1 .. Len(frames)
    BY <1>1, <2>1, <2>2
  <2>3. CASE i \in Len(frames) + 1 .. Len(stack')
    <3>1. PICK k \in 2 .. Len(stack) : k = i - Len(frames) + 1 /\ stack'[i] = stack[k]
      BY <1>1, <2>3
    <3>2. k \in 1 .. Len(stack)
      BY <1>1, <3>1
    <3> QED
      BY <2>1, <3>1, <3>2 DEF Calls
  <2> QED
    BY <1>1, <2>2, <2>3
<1>5. Head(stack) \in Calls
  BY <1>1 DEF Calls
<1> QED
  BY <1>2, <1>3, <1>4, <1>5

\* Calls that neither mark a process as being replaced nor let go of one.
Aside(frames) ==
  /\ frames \in Seq(Frames)
  /\ \A i \in 1 .. Len(frames) : frames[i].fn \notin {"MarkReplaced", "DropPredecessor"}

SameLife(s, r) ==
  /\ s.m_State = r.m_State
  /\ s.m_StartReason = r.m_StartReason
  /\ s.m_BeingReplaced = r.m_BeingReplaced
  /\ s.m_NotifiedAppPool = r.m_NotifiedAppPool
  /\ s.m_pWorkerProcessToReplace = r.m_pWorkerProcessToReplace

\* The step leaves v alone, deletes it after its end, or lets it let go of the process it
\* replaces after its start or end.
Unmoved(v) ==
  \/ Dead(v) /\ Dead(v)'
  \/ /\ wp'[v].m_State = wp[v].m_State
     /\ wp'[v].m_StartReason = wp[v].m_StartReason
     /\ wp'[v].m_BeingReplaced = wp[v].m_BeingReplaced
     /\ wp'[v].m_NotifiedAppPool = wp[v].m_NotifiedAppPool
     /\ Old(v)' = Old(v) \/ Dead(v) \/ wp[v].m_NotifiedAppPool

LEMMA SameUnmoved ==
  ASSUME NEW v \in WP, SameLife(wp'[v], wp[v])
  PROVE  Unmoved(v)
  BY DEF SameLife, Unmoved, Old

\* A replacement passes on: it still has to tell the old process, or the call is pending.
LEMMA RelayKept ==
  ASSUME RelayInv,
         \A w \in WP : Serves(w)' /\ Replaced(w)' =>
            Pending("Shutdown", w)' \/ (Serves(w) /\ Replaced(w)),
         \A w \in WP : Pending("Shutdown", w) /\ Serves(w)' => Pending("Shutdown", w)',
         \A v, w \in WP : Relieves(v, w) => Relieves(v, w)' \/ Pending("Shutdown", w)'
  PROVE  \A w \in WP : Relieved(w)'
<1> SUFFICES ASSUME NEW w \in WP, Serves(w)', Replaced(w)', ~Pending("Shutdown", w)'
             PROVE  \E v \in WP : Relieves(v, w)'
  BY DEF Relieved
<1>1. Serves(w) /\ Replaced(w) /\ ~Pending("Shutdown", w)
  OBVIOUS
<1>2. PICK v \in WP : Relieves(v, w)
  BY <1>1 DEF RelayInv, Relieved
<1> QED
  BY <1>2

\* What is replaced, begun and let go of when no new call says otherwise.
LEMMA UnmovedRelay ==
  ASSUME RelayInv, \A v \in WP : Unmoved(v),
         \A f \in Calls' : f.fn \in {"MarkReplaced", "DropPredecessor"} => f \in Calls
  PROVE  /\ \A w \in WP : Serves(w)' /\ Replaced(w)' => Serves(w) /\ Replaced(w)
         /\ \A v, w \in WP : Relieves(v, w) => Relieves(v, w)'
         /\ \A w \in WP : wp'[w].m_State = "Uninitialized" =>
              wp[w].m_State = "Uninitialized" /\ ~Replaced(w)'
         /\ \A w \in WP : LetGo(w)'
<1>1. ASSUME NEW fn \in {"MarkReplaced", "DropPredecessor"}, NEW w \in WP, Pending(fn, w)'
      PROVE  Pending(fn, w)
  BY <1>1 DEF Pending
<1>2. ASSUME NEW w \in WP, ~Dead(w)'
      PROVE  /\ wp'[w].m_State = wp[w].m_State
             /\ Replaced(w)' => Replaced(w)
  BY <1>1, <1>2 DEF Unmoved, Replaced
<1>3. ASSUME NEW w \in WP, Serves(w)', Replaced(w)'
      PROVE  Serves(w) /\ Replaced(w)
  BY <1>2, <1>3 DEF Serves, Dead
<1>4. ASSUME NEW v \in WP, NEW w \in WP, Relieves(v, w)
      PROVE  Relieves(v, w)'
  BY <1>4 DEF Relieves, Unmoved, Dead
<1>5. ASSUME NEW w \in WP, wp'[w].m_State = "Uninitialized"
      PROVE  wp[w].m_State = "Uninitialized" /\ ~Replaced(w)'
  BY <1>2, <1>5 DEF Dead, RelayInv, Unborn
<1>6. ASSUME NEW w \in WP
      PROVE  LetGo(w)'
  <2> SUFFICES ASSUME Pending("DropPredecessor", w)', ~Dead(w)'
               PROVE  wp'[w].m_NotifiedAppPool
    BY DEF LetGo
  <2>1. Dead(w) \/ wp[w].m_NotifiedAppPool
    BY <1>1 DEF RelayInv, LetGo
  <2> QED
    BY <2>1 DEF Unmoved, Dead
<1> QED
  BY <1>3, <1>4, <1>5, <1>6

\* A call other than Shutdown that moves no object.
LEMMA AsideCall ==
  ASSUME TypeOK, RelayInv, stack # <<>>, NEW frames, Aside(frames), Return(frames),
         \A v \in WP : Unmoved(v), Head(stack).fn # "Shutdown",
         \A v \in WP : wp'[v].m_State = "Uninitialized" /\ Begins(Head(stack), v) =>
            \E f \in Calls' : Begins(f, v)
  PROVE  RelayInv'
<1>0. frames \in Seq(Frames)
  BY DEF Aside
<1>1. /\ Calls \ {Head(stack)} \subseteq Calls'
      /\ \A f \in Calls' : f \in Calls \/ \E i \in 1 .. Len(frames) : f = frames[i]
  BY <1>0, CallsAfter
<1>2. \A f \in Calls' : f.fn \in {"MarkReplaced", "DropPredecessor"} => f \in Calls
  BY <1>1 DEF Aside
<1>3. /\ \A w \in WP : Serves(w)' /\ Replaced(w)' => Serves(w) /\ Replaced(w)
      /\ \A v, w \in WP : Relieves(v, w) => Relieves(v, w)'
      /\ \A w \in WP : wp'[w].m_State = "Uninitialized" =>
           wp[w].m_State = "Uninitialized" /\ ~Replaced(w)'
      /\ \A w \in WP : LetGo(w)'
  BY <1>2, UnmovedRelay
<1>4. \A w \in WP : Pending("Shutdown", w) => Pending("Shutdown", w)'
  BY <1>1 DEF Pending
<1>5. \A w \in WP : Relieved(w)'
  BY <1>3, <1>4, RelayKept
<1>6. ASSUME NEW w \in WP, wp'[w].m_State = "Uninitialized"
      PROVE  \E f \in Calls' : Begins(f, w)
  <2>1. PICK f \in Calls : Begins(f, w)
    BY <1>3, <1>6 DEF RelayInv, Unborn
  <2>2. CASE f = Head(stack)
    BY <1>6, <2>1, <2>2
  <2>3. CASE f # Head(stack)
    BY <1>1, <2>1, <2>3
  <2> QED
    BY <2>2, <2>3
<1>7. \A w \in WP : Unborn(w)'
  BY <1>3, <1>6 DEF Unborn
<1> QED
  BY <1>3, <1>5, <1>7 DEF RelayInv

\* Between two work items nothing is pending: every object has been started.
LEMMA IdleRelay ==
  ASSUME RelayInv, stack = <<>>, NEW w \in WP
  PROVE  /\ wp[w].m_State # "Uninitialized"
         /\ \A fn : ~Pending(fn, w)
         /\ Serves(w) /\ wp[w].m_BeingReplaced => \E v \in WP : Relieves(v, w)
<1>1. Calls = {}
  BY CallsEmpty
<1> QED
  BY <1>1 DEF RelayInv, Pending, Unborn, Relieved, Replaced

LEMMA AsideIdle ==
  ASSUME RelayInv, stack = <<>>, Aside(stack'), \A v \in WP : Unmoved(v)
  PROVE  RelayInv'
<1>1. \A f \in Calls' : f.fn \notin {"MarkReplaced", "DropPredecessor"}
  BY DEF Aside, Calls
<1>2. /\ \A w \in WP : Serves(w)' /\ Replaced(w)' => Serves(w) /\ Replaced(w)
      /\ \A v, w \in WP : Relieves(v, w) => Relieves(v, w)'
      /\ \A w \in WP : wp'[w].m_State = "Uninitialized" =>
           wp[w].m_State = "Uninitialized" /\ ~Replaced(w)'
      /\ \A w \in WP : LetGo(w)'
  BY <1>1, UnmovedRelay
<1>3. \A w \in WP : Relieved(w)'
  BY <1>2, IdleRelay, RelayKept
<1>4. \A w \in WP : Unborn(w)'
  BY <1>2, IdleRelay DEF Unborn
<1> QED
  BY <1>2, <1>3, <1>4 DEF RelayInv

-----------------------------------------------------------------------------
(***************************************************************************)
(* The calls that calls make.                                              *)
(***************************************************************************)
LEMMA AsideShapes ==
  /\ Aside(<<>>)
  /\ \A f \in Frames : f.fn \notin {"MarkReplaced", "DropPredecessor"} => Aside(<<f>>)
  /\ \A f, g \in Frames :
       /\ f.fn \notin {"MarkReplaced", "DropPredecessor"}
       /\ g.fn \notin {"MarkReplaced", "DropPredecessor"}
       => Aside(<<f, g>>)
<1>1. Aside(<<>>)
  BY DEF Aside
<1>2. ASSUME NEW f \in Frames, f.fn \notin {"MarkReplaced", "DropPredecessor"}
      PROVE  Aside(<<f>>)
  BY <1>2 DEF Aside
<1>3. ASSUME NEW f \in Frames, NEW g \in Frames,
             f.fn \notin {"MarkReplaced", "DropPredecessor"},
             g.fn \notin {"MarkReplaced", "DropPredecessor"}
      PROVE  Aside(<<f, g>>)
  <2> DEFINE s == <<f, g>>
  <2>1. s \in Seq(Frames) /\ Len(s) = 2 /\ s[1] = f /\ s[2] = g
    OBVIOUS
  <2> HIDE DEF s
  <2>2. \A i \in 1 .. Len(s) : i = 1 \/ i = 2
    BY <2>1
  <2>3. Aside(s)
    BY <1>3, <2>1, <2>2 DEF Aside
  <2> QED
    BY <2>3 DEF s
<1> QED
  BY <1>1, <1>2, <1>3

LEMMA AsideConcat ==
  ASSUME NEW s, NEW t, Aside(s), Aside(t)
  PROVE  Aside(s \o t)
<1>1. s \in Seq(Frames) /\ t \in Seq(Frames)
  BY DEF Aside
<1> DEFINE c == s \o t
<1>2. /\ c \in Seq(Frames) /\ Len(s) \in Nat /\ Len(t) \in Nat /\ Len(c) = Len(s) + Len(t)
      /\ \A i \in 1 .. Len(s) : c[i] = s[i]
      /\ \A i \in Len(s) + 1 .. Len(c) : c[i] = t[i - Len(s)]
  BY <1>1
<1> HIDE DEF c
<1>3. ASSUME NEW i \in 1 .. Len(c)
      PROVE  c[i].fn \notin {"MarkReplaced", "DropPredecessor"}
  <2>1. CASE i \in 1 .. Len(s)
    BY <1>2, <2>1 DEF Aside
  <2>2. CASE i > Len(s)
    <3>1. i - Len(s) \in 1 .. Len(t) /\ i \in Len(s) + 1 .. Len(c)
      BY <1>2, <2>2
    <3> QED
      BY <1>2, <3>1 DEF Aside
  <2> QED
    BY <1>2, <2>1, <2>2
<1>4. Aside(c)
  BY <1>2, <1>3 DEF Aside
<1> QED
  BY <1>4 DEF c

LEMMA AsideCalls ==
  /\ \A fn \in WorkerProcessMethods \ {"MarkReplaced", "DropPredecessor"}, w \in WP :
       Call(fn, w) \in Frames /\ Call(fn, w).fn = fn /\ Aside(<<Call(fn, w)>>)
  /\ \A fn \in AppPoolMethods :
       Call(fn, NoWP) \in Frames /\ Call(fn, NoWP).fn = fn /\ Aside(<<Call(fn, NoWP)>>)
  /\ \A why \in IllnessReasons, w \in WP :
       /\ Ill(w, why) \in Frames /\ Ill(w, why).fn = "MarkAsTerminallyIll"
       /\ Aside(<<Ill(w, why)>>)
<1>1. \A fn \in WorkerProcessMethods, w \in WP : Call(fn, w) \in Frames /\ Call(fn, w).fn = fn
  BY WorkerFrame DEF Call
<1>2. \A fn \in AppPoolMethods : Call(fn, NoWP) \in Frames /\ Call(fn, NoWP).fn = fn
  BY PoolFrame DEF Call
<1>3. \A why \in IllnessReasons, w \in WP :
        Ill(w, why) \in Frames /\ Ill(w, why).fn = "MarkAsTerminallyIll"
  BY IllFrame DEF Ill
<1>4. \A fn \in AppPoolMethods : fn \notin {"MarkReplaced", "DropPredecessor"}
  BY DEF AppPoolMethods
<1> QED
  BY <1>1, <1>2, <1>3, <1>4, AsideShapes

LEMMA AsideWalk ==
  ASSUME NEW fn \in Walks, NEW e \in WP \cup {NoWP, ListHead}
  PROVE  Aside(WalkFrom(fn, e))
<1>1. CASE e = ListHead
  BY <1>1, AsideShapes DEF WalkFrom
<1>2. CASE e # ListHead
  <2>1. Call(fn, e) \in Frames /\ Call(fn, e).fn \notin {"MarkReplaced", "DropPredecessor"}
    BY <1>2 DEF Call, Frames, Walks
  <2> QED
    BY <1>2, <2>1, AsideShapes DEF WalkFrom
<1> QED
  BY <1>1, <1>2

LEMMA AsideCompleted ==
  ASSUME NEW s
  PROVE  Aside(ShutdownNowCompleted(s))
  BY AsideShapes, AsideCalls DEF ShutdownNowCompleted, AppPoolMethods

LEMMA AppPoolCallAside ==
  ASSUME TypeOK, AppPoolCall
  PROVE  stack # <<>> /\ \E frames : Aside(frames) /\ Return(frames)
<1>0. Aside(<<>>)
  BY AsideShapes
<1>1. ASSUME ReportFailure \/ DisableTail \/ PoolTerminate
      PROVE  stack # <<>> /\ \E frames : Aside(frames) /\ Return(frames)
  BY <1>0, <1>1, AsideCalls
     DEF ReportFailure, RapidFailStop, DisableTail, PoolTerminate, Calling, AppPoolMethods
<1>2. CASE DisableAppPool
  <2>1. Aside(WalkFrom("ShutdownAll", FirstEntry) \o <<Call("DisableTail", NoWP)>>)
    BY ListType, AsideWalk, AsideCalls, AsideConcat DEF Walks, AppPoolMethods
  <2> QED
    BY <1>0, <1>2, <2>1 DEF DisableAppPool, Calling
<1>3. CASE ShutdownAllWorkerProcesses
  <2>1. ASSUME This \in WP
        PROVE  Aside(<<Call("Shutdown", This)>> \o WalkFrom("ShutdownAll", Flink(This)))
    BY <2>1, ListType, AsideWalk, AsideCalls, AsideConcat DEF Walks, WorkerProcessMethods
  <2> QED
    BY <1>0, <1>3, <2>1 DEF ShutdownAllWorkerProcesses, Calling
<1>4. CASE ReplaceAllWorkerProcesses
  <2>1. ASSUME This \in WP
        PROVE  Aside(<<Call("InitiateReplacement", This)>> \o WalkFrom("ReplaceAll", Flink(This)))
    BY <2>1, ListType, AsideWalk, AsideCalls, AsideConcat DEF Walks, WorkerProcessMethods
  <2> QED
    BY <1>0, <1>4, <2>1 DEF ReplaceAllWorkerProcesses, Calling
<1>5. CASE HandleConfigChange
  <2>1. Aside(WalkFrom("ReplaceAll", FirstEntry))
    BY ListType, AsideWalk DEF Walks
  <2> QED
    BY <1>0, <1>5, <2>1 DEF HandleConfigChange, Calling
<1>6. CASE CheckShutdown
  BY <1>6, AsideCompleted DEF CheckShutdown, Calling
<1>7. CASE TerminateAll
  <2>1. ASSUME list # <<>>
        PROVE  Aside(<<Call("Terminate", list[1]), Call("TerminateAll", NoWP)>>)
    <3>1. list[1] \in WP
      BY <2>1 DEF TypeOK
    <3>2. /\ Call("Terminate", list[1]) \in Frames /\ Call("Terminate", list[1]).fn = "Terminate"
          /\ Call("TerminateAll", NoWP) \in Frames /\ Call("TerminateAll", NoWP).fn = "TerminateAll"
      BY <3>1, AsideCalls DEF WorkerProcessMethods, AppPoolMethods
    <3> QED
      BY <3>2, AsideShapes
  <2> QED
    BY <1>0, <1>7, <2>1 DEF TerminateAll, Calling
<1> QED
  BY <1>1, <1>2, <1>3, <1>4, <1>5, <1>6, <1>7 DEF AppPoolCall

-----------------------------------------------------------------------------
(***************************************************************************)
(* The calls.                                                              *)
(***************************************************************************)
LEMMA SameLifeRecord ==
  ASSUME NEW r \in WorkerProcesses
  PROVE  /\ \A v : SameLife([r EXCEPT !.m_TerminalIllReason = v], r)
         /\ \A v : SameLife([r EXCEPT !.m_Registered = v], r)
         /\ \A v : SameLife([r EXCEPT !.m_ProcessAlive = v], r)
         /\ \A v : SameLife([r EXCEPT !.m_IgnoredPingDueToDebugger = v], r)
         /\ \A v : SameLife([r EXCEPT !.m_RefCount = v], r)
         /\ \A v : SameLife([r EXCEPT !.m_pMessagingHandler = v], r)
         /\ \A v : SameLife([r EXCEPT !.handle = v], r)
         /\ \A v : SameLife([r EXCEPT !.process = v], r)
         /\ SameLife(r, r)
  BY DEF WorkerProcesses, SameLife

LEMMA SameLifeField ==
  ASSUME NEW tbl \in [WP -> WorkerProcesses], NEW w \in WP, NEW v \in WP, NEW x
  PROVE  /\ SameLife([tbl EXCEPT ![w].m_TerminalIllReason = x][v], tbl[v])
         /\ SameLife([tbl EXCEPT ![w].m_Registered = x][v], tbl[v])
         /\ SameLife([tbl EXCEPT ![w].m_ProcessAlive = x][v], tbl[v])
         /\ SameLife([tbl EXCEPT ![w].m_IgnoredPingDueToDebugger = x][v], tbl[v])
         /\ SameLife([tbl EXCEPT ![w].m_RefCount = x][v], tbl[v])
         /\ SameLife([tbl EXCEPT ![w].m_pMessagingHandler = x][v], tbl[v])
         /\ \A h : SameLife([tbl EXCEPT ![w].handle[h] = x][v], tbl[v])
         /\ SameLife([tbl EXCEPT ![w].process.phase = x][v], tbl[v])
         /\ SameLife([tbl EXCEPT ![w].process.inbox = x][v], tbl[v])
         /\ SameLife([tbl EXCEPT ![w].process.pipe = x][v], tbl[v])
         /\ SameLife(tbl[v], tbl[v])
<1>1. tbl[w] \in WorkerProcesses /\ tbl[v] \in WorkerProcesses
  OBVIOUS
<1>2. CASE v = w
  BY <1>1, <1>2, SameLifeRecord
<1>3. CASE v # w
  BY <1>1, <1>3, SameLifeRecord
<1> QED
  BY <1>2, <1>3

LEMMA DereferencedLife ==
  ASSUME NEW tbl \in [WP -> WorkerProcesses], NEW w \in WP, NEW v \in WP
  PROVE  \/ v = w /\ Dereferenced(tbl, w)[v].m_State = "Free"
         \/ SameLife(Dereferenced(tbl, w)[v], tbl[v])
<1>1. CASE tbl[w].m_RefCount = 1
  <2>1. Dereferenced(tbl, w) = [tbl EXCEPT ![w] = NoObject]
    BY <1>1 DEF Dereferenced
  <2>2. NoObject.m_State = "Free" /\ SameLife(tbl[v], tbl[v])
    BY DEF NoObject, SameLife
  <2> QED
    BY <2>1, <2>2
<1>2. CASE tbl[w].m_RefCount # 1
  <2>1. Dereferenced(tbl, w) = [tbl EXCEPT ![w].m_RefCount = tbl[w].m_RefCount - 1]
    BY <1>2 DEF Dereferenced
  <2> QED
    BY <2>1, SameLifeField
<1> QED
  BY <1>1, <1>2

\* Only a terminated object is deleted: the list refers to the others.
LEMMA FreedDead ==
  ASSUME ObjectInv, ObjectInv', list' = list, NEW v \in WP, wp'[v].m_State = "Free"
  PROVE  Dead(v) /\ Dead(v)'
<1>1. Dead(v)'
  BY DEF Dead
<1>2. ~Terminating(v)'
  <2> SUFFICES ASSUME NEW i \in 1 .. Len(stack'), At(i, "TerminateTail", v)'
               PROVE  FALSE
    BY DEF Terminating
  <2>1. FrameInv(i)'
    BY DEF ObjectInv, FramesInv
  <2> QED
    BY <2>1 DEF FrameInv, Founded, At
<1>3. ~InList(v)'
  BY <1>1, <1>2 DEF ObjectInv, ListInv, Membership
<1>4. ~InList(v)
  BY <1>3 DEF InList
<1> QED
  BY <1>1, <1>4 DEF ObjectInv, ListInv, Membership

\* The calls that let go of an object move none.
LEMMA ReleasingUnmoved ==
  ASSUME ObjectInv, ObjectInv', RelayInv,
         Dereference \/ DetachHandler \/ TerminateTail \/ DropPredecessor, NEW v \in WP
  PROVE  Unmoved(v)
<1> USE DEF WorkerProcessMethods
<1>0. TypeOK /\ wp \in [WP -> WorkerProcesses] /\ stack # <<>>
  BY DEF ObjectInv, QuietInvariant, TypeOK, Dereference, DetachHandler, TerminateTail,
     DropPredecessor, Calling
<1>1. PICK w \in WP : w = This
  BY <1>0, CallingWP DEF Dereference, DetachHandler, TerminateTail, DropPredecessor
<1>2. CASE Dereference
  <2>1. wp' = Dereferenced(wp, w) /\ list' = list
    BY <1>1, <1>2 DEF Dereference
  <2>2. wp'[v].m_State = "Free" \/ SameLife(wp'[v], wp[v])
    BY <1>0, <2>1, DereferencedLife
  <2> QED
    BY <2>1, <2>2, FreedDead, SameUnmoved DEF Unmoved
<1>3. CASE DetachHandler
  <2> DEFINE tbl == [wp EXCEPT ![w].m_pMessagingHandler = "detached"]
  <2>1. tbl \in [WP -> WorkerProcesses] /\ SameLife(tbl[v], wp[v]) /\ SameLife(wp[v], wp[v])
    <3>1. "detached" \in HandlerStates
      BY DEF HandlerStates
    <3>2. tbl \in [WP -> WorkerProcesses]
      BY <1>0, <3>1 DEF WorkerProcesses
    <3> QED
      BY <1>0, <3>2, SameLifeField
  <2> HIDE DEF tbl
  <2>2. (wp' = wp \/ wp' = Dereferenced(tbl, w)) /\ list' = list
    BY <1>1, <1>3 DEF DetachHandler, tbl
  <2>3. wp'[v].m_State = "Free" \/ SameLife(wp'[v], tbl[v]) \/ wp' = wp
    BY <2>1, <2>2, DereferencedLife
  <2>4. wp'[v].m_State = "Free" \/ SameLife(wp'[v], wp[v])
    BY <2>1, <2>3 DEF SameLife
  <2> QED
    BY <2>2, <2>4, FreedDead, SameUnmoved DEF Unmoved
<1>4. CASE TerminateTail
  <2> DEFINE tbl == [wp EXCEPT ![w].m_NotifiedAppPool = TRUE]
  <2>1. tbl \in [WP -> WorkerProcesses] /\ tbl[w].m_State = wp[w].m_State
        /\ (v # w => tbl[v] = wp[v])
    <3>1. tbl \in [WP -> WorkerProcesses]
      BY <1>0, FieldType
    <3> QED
      BY <1>0, <3>1 DEF WorkerProcesses
  <2> HIDE DEF tbl
  <2>2. wp' = Dereferenced(tbl, w)
    BY <1>1, <1>4 DEF TerminateTail, tbl
  <2>3. (v = w /\ wp'[v].m_State = "Free") \/ SameLife(wp'[v], tbl[v])
    BY <2>1, <2>2, DereferencedLife
  <2>4. CASE v = w
    <3>1. Dead(w)
      BY <1>0, <1>1, <1>4, First DEF TerminateTail, Calling, This, FrameInv, Founded, Dead
    <3>2. Dead(v)'
      BY <2>1, <2>3, <2>4, <3>1 DEF SameLife, Dead
    <3> QED
      BY <2>4, <3>1, <3>2 DEF Unmoved
  <2>5. CASE v # w
    BY <2>1, <2>3, <2>5, SameUnmoved
  <2> QED
    BY <2>4, <2>5
<1>5. CASE DropPredecessor
  <2> DEFINE tbl == [wp EXCEPT ![w].m_pWorkerProcessToReplace = NoWP]
  <2>1. /\ tbl \in [WP -> WorkerProcesses]
        /\ tbl[w].m_State = wp[w].m_State
        /\ tbl[w].m_StartReason = wp[w].m_StartReason
        /\ tbl[w].m_BeingReplaced = wp[w].m_BeingReplaced
        /\ tbl[w].m_NotifiedAppPool = wp[w].m_NotifiedAppPool
        /\ v # w => tbl[v] = wp[v]
    <3>1. tbl \in [WP -> WorkerProcesses]
      BY <1>0, FieldType
    <3> QED
      BY <1>0, <3>1 DEF WorkerProcesses
  <2> HIDE DEF tbl
  <2>2. PICK old : old = wp[w].m_pWorkerProcessToReplace
    OBVIOUS
  <2>3. old \in WP \cup {NoWP}
    BY <1>0, <2>2 DEF WorkerProcesses
  <2>4. (wp' = wp \/ (old # NoWP /\ wp' = Dereferenced(tbl, old))) /\ list' = list
    BY <1>1, <1>5, <2>2 DEF DropPredecessor, tbl
  <2>5. wp'[v].m_State = "Free" \/ SameLife(wp'[v], tbl[v]) \/ wp' = wp
    BY <2>1, <2>3, <2>4, DereferencedLife
  <2>6. Dead(w) \/ wp[w].m_NotifiedAppPool
    <3>1. Head(stack) \in Calls /\ Head(stack).fn = "DropPredecessor" /\ Head(stack).w = w
      BY <1>0, <1>1, <1>5, First DEF DropPredecessor, Calling, This, Calls
    <3> QED
      BY <3>1 DEF RelayInv, LetGo, Pending
  <2>7. CASE wp'[v].m_State = "Free"
    BY <2>4, <2>7, FreedDead DEF Unmoved
  <2>8. CASE wp' = wp
    BY <2>8 DEF Unmoved, Old
  <2>9. CASE SameLife(wp'[v], tbl[v])
    BY <2>1, <2>6, <2>9 DEF SameLife, Unmoved, Old
  <2> QED
    BY <2>5, <2>7, <2>8, <2>9
<1> QED
  BY <1>2, <1>3, <1>4, <1>5

LEMMA ReleasingRelay ==
  ASSUME ObjectInv, ObjectInv', RelayInv,
         Dereference \/ DetachHandler \/ TerminateTail \/ DropPredecessor
  PROVE  RelayInv'
<1>0. TypeOK /\ stack # <<>>
  BY DEF ObjectInv, QuietInvariant, Dereference, DetachHandler, TerminateTail,
     DropPredecessor, Calling
<1>1. PICK frames : Aside(frames) /\ Return(frames)
  BY AsideShapes, AsideCompleted DEF Dereference, DetachHandler, TerminateTail, DropPredecessor
<1>2. Head(stack).fn \in {"Dereference", "DetachHandler", "TerminateTail", "DropPredecessor"}
  BY DEF Dereference, DetachHandler, TerminateTail, DropPredecessor, Calling
<1>3. \A v \in WP : ~Begins(Head(stack), v)
  BY <1>2 DEF Begins
<1>4. \A v \in WP : Unmoved(v)
  BY ReleasingUnmoved
<1> QED
  BY <1>0, <1>1, <1>2, <1>3, <1>4, AsideCall

LEMMA PoolCallsRelay ==
  ASSUME TypeOK, RelayInv, AppPoolCall
  PROVE  RelayInv'
<1>1. stack # <<>> /\ wp' = wp
  BY AppPoolCallAside DEF AppPoolCall, ReportFailure, DisableAppPool, DisableTail,
     ShutdownAllWorkerProcesses, ReplaceAllWorkerProcesses, HandleConfigChange, CheckShutdown,
     PoolTerminate, TerminateAll
<1>2. PICK frames : Aside(frames) /\ Return(frames)
  BY AppPoolCallAside
<1>3. Head(stack).fn \notin {"Shutdown", "Initialize", "Terminate", "MarkAsTerminallyIll"}
  BY DEF AppPoolCall, ReportFailure, DisableAppPool, DisableTail,
     ShutdownAllWorkerProcesses, ReplaceAllWorkerProcesses, HandleConfigChange, CheckShutdown,
     PoolTerminate, TerminateAll, Calling
<1>4. \A v \in WP : ~Begins(Head(stack), v)
  BY <1>3 DEF Begins
<1>5. \A v \in WP : Unmoved(v)
  BY <1>1 DEF Unmoved, Old
<1> QED
  BY <1>1, <1>2, <1>3, <1>4, <1>5, AsideCall

LEMMA StartupTailRelay ==
  ASSUME TypeOK, RelayInv, StartupTail
  PROVE  RelayInv'
<1>0. /\ stack # <<>> /\ Head(stack).fn = "StartupTail" /\ Calling("StartupTail")
      /\ wp \in [WP -> WorkerProcesses]
  BY DEF StartupTail, Calling, TypeOK
<1>1. PICK w \in WP : w = This
  BY <1>0, CallingWP DEF WorkerProcessMethods
<1>2. /\ wp' = wp \/ wp' = [wp EXCEPT ![w].handle["SendPing"] = "armed"]
      /\ Return(<<>>) \/ Return(<<Ill(w, "InternalError")>>)
  BY <1>1 DEF StartupTail
<1>3. PICK frames : Aside(frames) /\ Return(frames)
  BY <1>2, AsideShapes, AsideCalls DEF IllnessReasons
<1>4. ASSUME NEW v \in WP PROVE SameLife(wp'[v], wp[v])
  <2>1. /\ SameLife(wp[v], wp[v])
        /\ SameLife([wp EXCEPT ![w].handle["SendPing"] = "armed"][v], wp[v])
    BY <1>0, SameLifeField
  <2> QED
    BY <1>2, <2>1, Zenon
<1>5. \A v \in WP : ~Begins(Head(stack), v)
  BY <1>0 DEF Begins
<1> QED
  BY <1>0, <1>3, <1>4, <1>5, SameUnmoved, AsideCall

\* The mark itself was announced by the pending call.
LEMMA MarkReplacedRelay ==
  ASSUME TypeOK, RelayInv, MarkReplaced
  PROVE  RelayInv'
<1>0. /\ stack # <<>> /\ Head(stack).fn = "MarkReplaced" /\ Calling("MarkReplaced")
      /\ wp \in [WP -> WorkerProcesses] /\ Return(<<>>) /\ <<>> \in Seq(Frames)
  BY DEF MarkReplaced, Calling, TypeOK
<1>1. PICK w \in WP : w = This /\ Head(stack).w = w
  BY <1>0, CallingWP DEF WorkerProcessMethods, This
<1>2. /\ Calls \ {Head(stack)} \subseteq Calls' /\ Head(stack) \in Calls
      /\ \A f \in Calls' : f \in Calls
  <2>1. \A i \in 1 .. Len(<<>>) : FALSE
    OBVIOUS
  <2> QED
    BY <1>0, <2>1, CallsAfter
<1>3. wp' = wp \/ wp' = [wp EXCEPT ![w].m_BeingReplaced = TRUE]
  BY <1>1 DEF MarkReplaced
<1>4. Replaced(w)
  BY <1>0, <1>1, <1>2 DEF Replaced, Pending
<1>5. \A v \in WP : /\ wp'[v].m_State = wp[v].m_State
                    /\ wp'[v].m_NotifiedAppPool = wp[v].m_NotifiedAppPool
                    /\ Old(v)' = Old(v)
  BY <1>0, <1>3 DEF WorkerProcesses, Old
<1>6. \A v \in WP : v # w => wp'[v].m_BeingReplaced = wp[v].m_BeingReplaced
  BY <1>0, <1>3
<1>7. \A v \in WP : /\ Pending("Shutdown", v) => Pending("Shutdown", v)'
                    /\ Pending("DropPredecessor", v)' => Pending("DropPredecessor", v)
                    /\ Pending("MarkReplaced", v)' => Pending("MarkReplaced", v)
  BY <1>0, <1>2 DEF Pending
<1>8. \A v \in WP : Replaced(v)' => Replaced(v)
  BY <1>4, <1>6, <1>7 DEF Replaced
<1>9. \A v \in WP : (Serves(v)' => Serves(v)) /\ (Dead(v) <=> Dead(v)')
  BY <1>5 DEF Serves, Dead
<1>10. \A v, x \in WP : Relieves(v, x) => Relieves(v, x)'
  BY <1>5, <1>9 DEF Relieves
<1>11. \A v \in WP : Relieved(v)'
  BY <1>7, <1>8, <1>9, <1>10, RelayKept
<1>12. \A v \in WP : \A f : Begins(f, v) => f # Head(stack)
  BY <1>0 DEF Begins
<1>13. \A v \in WP : Unborn(v)'
  BY <1>2, <1>5, <1>8, <1>12 DEF Unborn, RelayInv
<1>14. \A v \in WP : LetGo(v)'
  BY <1>5, <1>7, <1>9 DEF LetGo, RelayInv
<1> QED
  BY <1>11, <1>13, <1>14 DEF RelayInv

\* An object that could not be started is terminated.
LEMMA MarkAsTerminallyIllRelay ==
  ASSUME TypeOK, PingInv, RelayInv, MarkAsTerminallyIll
  PROVE  RelayInv'
<1>0. /\ stack # <<>> /\ Head(stack).fn = "MarkAsTerminallyIll"
      /\ Calling("MarkAsTerminallyIll") /\ wp \in [WP -> WorkerProcesses]
  BY DEF MarkAsTerminallyIll, Calling, TypeOK
<1>1. PICK w \in WP : w = This /\ Head(stack).w = w
  BY <1>0, CallingWP DEF WorkerProcessMethods, This
<1>2. PICK why : why = Head(stack).why
  OBVIOUS
<1> DEFINE fatal == <<Call("ReportFailure", w), Call("Terminate", w)>>
<1>3. /\ Call("ReportFailure", w) \in Frames /\ Call("ReportFailure", w).fn = "ReportFailure"
      /\ Call("Terminate", w) \in Frames /\ Call("Terminate", w).fn = "Terminate"
      /\ Call("Terminate", w).w = w
  BY AsideCalls DEF WorkerProcessMethods, Call
<1>4. Aside(fatal) /\ Aside(<<>>) /\ Len(fatal) = 2 /\ fatal[2] = Call("Terminate", w)
  BY <1>3, AsideShapes
<1> HIDE DEF fatal
<1>5. PICK frames :
        /\ Aside(frames) /\ Return(frames)
        /\ \/ frames = fatal
           \/ wp[w].m_TerminalIllReason # "NotIll"
           \/ why \notin {"InternalError", "CreateProcessFailed"}
        /\ \/ wp' = wp
           \/ wp' = [wp EXCEPT ![w].m_IgnoredPingDueToDebugger =
                       wp[w].m_IgnoredPingDueToDebugger \/ why = "PingFailure"]
           \/ wp' = [wp EXCEPT ![w].m_TerminalIllReason = why]
  <2>1. \/ /\ Return(<<>>) /\ wp' = wp
           /\ \/ wp[w].m_TerminalIllReason # "NotIll"
              \/ wp[w].m_IgnoredPingDueToDebugger /\ why = "PingFailure"
        \/ /\ Return(<<>>) /\ why \notin {"InternalError", "CreateProcessFailed"}
           /\ wp' = [wp EXCEPT ![w].m_IgnoredPingDueToDebugger =
                       wp[w].m_IgnoredPingDueToDebugger \/ why = "PingFailure"]
        \/ Return(fatal) /\ wp' = [wp EXCEPT ![w].m_TerminalIllReason = why]
    BY <1>1, <1>2 DEF MarkAsTerminallyIll, DebuggerMatters, fatal
  <2> QED
    BY <1>4, <2>1
<1>6. \A v \in WP : SameLife(wp'[v], wp[v])
  BY <1>0, <1>5, SameLifeField
<1>7. /\ Calls \ {Head(stack)} \subseteq Calls'
      /\ \A i \in 1 .. Len(frames) : frames[i] \in Calls'
  BY <1>0, <1>5, CallsAfter DEF Aside
<1>8. ASSUME NEW v \in WP, wp'[v].m_State = "Uninitialized", Begins(Head(stack), v)
      PROVE  \E f \in Calls' : Begins(f, v)
  <2>1. v = w /\ why \in {"InternalError", "CreateProcessFailed"}
    BY <1>0, <1>1, <1>2, <1>8 DEF Begins
  <2>2. CASE frames = fatal
    <3>1. Call("Terminate", w) \in Calls'
      BY <1>4, <1>7, <2>2
    <3> QED
      BY <1>3, <2>1, <3>1 DEF Begins
  <2>3. CASE wp[w].m_TerminalIllReason # "NotIll"
    <3>1. wp[w].m_State = "Uninitialized"
      BY <1>6, <1>8, <2>1 DEF SameLife
    <3>2. PICK f \in Calls : f.fn = "Terminate" /\ f.w = w
      BY <2>3, <3>1 DEF PingInv, Pinged, Gone
    <3>3. f \in Calls'
      BY <1>0, <1>7, <3>2
    <3> QED
      BY <2>1, <3>2, <3>3 DEF Begins
  <2> QED
    BY <1>5, <2>1, <2>2, <2>3
<1> QED
  BY <1>0, <1>5, <1>6, <1>8, SameUnmoved, AsideCall

LEMMA InitializeRelay ==
  ASSUME ObjectInv, RelayInv, Initialize
  PROVE  RelayInv'
<1>0. stack # <<>> /\ Head(stack).fn = "Initialize" /\ Calling("Initialize")
  BY DEF Initialize, Calling
<1>1. TypeOK /\ FrameInv(1) /\ Head(stack) = stack[1] /\ wp \in [WP -> WorkerProcesses]
  BY <1>0, First DEF TypeOK
<1>2. PICK w \in WP : w = This
  BY <1>0, <1>1, CallingWP DEF WorkerProcessMethods
<1>3. PICK outcome \in InitializeOutcomes :
        /\ wp' = [wp EXCEPT ![w] = Initialized(wp[w], outcome)]
        /\ Return(InitializeDone(w, outcome))
  BY <1>2 DEF Initialize
<1>4. wp[w].m_State = "Uninitialized" /\ Head(stack).w = w
  BY <1>0, <1>1, <1>2 DEF FrameInv, Founded, This
<1> DEFINE frames == InitializeDone(w, outcome)
<1>5. /\ Aside(frames) /\ Return(frames)
      /\ outcome # "ok" => \E why \in {"InternalError", "CreateProcessFailed"} :
                              frames = <<Ill(w, why)>>
  BY <1>3, AsideShapes, AsideCalls DEF InitializeDone, IllnessReasons
<1> HIDE DEF frames
<1>6. /\ Calls \ {Head(stack)} \subseteq Calls'
      /\ \A i \in 1 .. Len(frames) : frames[i] \in Calls'
      /\ \A f \in Calls' : f \in Calls \/ \E i \in 1 .. Len(frames) : f = frames[i]
  BY <1>0, <1>1, <1>5, CallsAfter DEF Aside
<1> DEFINE s == Initialized(wp[w], outcome)
<1>7. /\ s.m_State = (IF outcome = "ok" THEN "RegistrationPending" ELSE "Uninitialized")
      /\ s.m_BeingReplaced = wp[w].m_BeingReplaced
      /\ s.m_NotifiedAppPool = wp[w].m_NotifiedAppPool
      /\ s.m_pWorkerProcessToReplace = wp[w].m_pWorkerProcessToReplace
  BY <1>1, <1>4 DEF Initialized, WorkerProcesses
<1>8. wp'[w] = s /\ \A v \in WP : v # w => wp'[v] = wp[v]
  BY <1>1, <1>3
<1> HIDE DEF s
<1>9. \A v \in WP : /\ Pending("Shutdown", v) => Pending("Shutdown", v)'
                    /\ Pending("DropPredecessor", v)' => Pending("DropPredecessor", v)
                    /\ Pending("MarkReplaced", v)' => Pending("MarkReplaced", v)
  BY <1>0, <1>5, <1>6 DEF Pending, Aside
<1>10. \A v \in WP : Replaced(v)' => Replaced(v)
  BY <1>7, <1>8, <1>9 DEF Replaced
<1>11. ~Replaced(w)
  BY <1>4 DEF RelayInv, Unborn
<1>12. \A v \in WP : /\ Dead(v) <=> Dead(v)'
                     /\ v # w => (Serves(v)' => Serves(v))
                     /\ wp'[v].m_NotifiedAppPool = wp[v].m_NotifiedAppPool
                     /\ Old(v)' = Old(v)
  BY <1>4, <1>7, <1>8 DEF Dead, Serves, Old
<1>13. \A v, x \in WP : Relieves(v, x) => Relieves(v, x)'
  BY <1>12 DEF Relieves
<1>14. \A v \in WP : Relieved(v)'
  BY <1>9, <1>10, <1>11, <1>12, <1>13, RelayKept
<1>15. ASSUME NEW v \in WP, wp'[v].m_State = "Uninitialized"
       PROVE  ~Replaced(v)' /\ \E f \in Calls' : Begins(f, v)
  <2>1. CASE v = w
    <3>1. PICK why \in {"InternalError", "CreateProcessFailed"} : frames = <<Ill(w, why)>>
      BY <1>5, <1>7, <1>8, <1>15, <2>1
    <3> DEFINE g == Ill(w, why)
    <3>2. Begins(g, w)
      BY DEF Begins, Ill
    <3>3. frames = <<g>>
      BY <3>1
    <3> HIDE DEF g
    <3>4. g \in Calls'
      BY <1>6, <3>3
    <3> QED
      BY <1>10, <1>11, <2>1, <3>2, <3>4
  <2>2. CASE v # w
    <3>1. wp[v].m_State = "Uninitialized"
      BY <1>8, <1>15, <2>2
    <3>2. PICK f \in Calls : Begins(f, v)
      BY <3>1 DEF RelayInv, Unborn
    <3>3. f \in Calls'
      BY <1>4, <1>6, <2>2, <3>2 DEF Begins
    <3> QED
      BY <1>10, <3>1, <3>2, <3>3 DEF RelayInv, Unborn
  <2> QED
    BY <2>1, <2>2
<1>16. \A v \in WP : Unborn(v)'
  BY <1>15 DEF Unborn
<1>17. \A v \in WP : LetGo(v)'
  BY <1>9, <1>12 DEF LetGo, RelayInv
<1> QED
  BY <1>14, <1>16, <1>17 DEF RelayInv

\* What Shutdown does to its object: afterwards it does not serve.
LEMMA ShutdownLife ==
  ASSUME TypeOK, Shutdown, NEW w \in WP, w = This
  PROVE  /\ \A v \in WP : v # w => wp'[v] = wp[v]
         /\ wp'[w].m_State =
              IF wp[w].m_State = "RegistrationPending" THEN "RegistrationPendingShutdownPending"
              ELSE IF wp[w].m_State = "Running" THEN "ShutdownPending" ELSE wp[w].m_State
         /\ wp'[w].m_StartReason = wp[w].m_StartReason
         /\ wp'[w].m_BeingReplaced = wp[w].m_BeingReplaced
         /\ wp'[w].m_NotifiedAppPool = wp[w].m_NotifiedAppPool
         /\ wp'[w].m_pWorkerProcessToReplace = wp[w].m_pWorkerProcessToReplace
<1>0. wp \in [WP -> WorkerProcesses]
  BY DEF TypeOK
<1>1. CASE wp[w].m_State = "RegistrationPending"
  <2>1. wp' = [wp EXCEPT ![w].m_State = "RegistrationPendingShutdownPending"]
    BY <1>1 DEF Shutdown
  <2> QED
    BY <1>0, <1>1, <2>1 DEF WorkerProcesses
<1>2. CASE wp[w].m_State = "Running"
  <2>1. PICK outcome : LET tbl == [wp EXCEPT ![w] = ShutdownBegun(wp[w], outcome)]
                       IN wp' = tbl \/ wp' = Referenced(tbl, w)
    BY <1>2 DEF Shutdown
  <2> DEFINE s == ShutdownBegun(wp[w], outcome)
             tbl == [wp EXCEPT ![w] = s]
  <2>2. /\ s.m_State = "ShutdownPending"
        /\ s.m_StartReason = wp[w].m_StartReason
        /\ s.m_BeingReplaced = wp[w].m_BeingReplaced
        /\ s.m_NotifiedAppPool = wp[w].m_NotifiedAppPool
        /\ s.m_pWorkerProcessToReplace = wp[w].m_pWorkerProcessToReplace
    BY <1>0 DEF ShutdownBegun, WorkerProcesses
  <2>3. wp' = tbl \/ wp' = [tbl EXCEPT ![w] = [s EXCEPT !.m_RefCount = s.m_RefCount + 1]]
    BY <1>0, <2>1 DEF Referenced
  <2>4. DOMAIN tbl = WP /\ tbl[w] = s /\ \A v \in WP : v # w => tbl[v] = wp[v]
    BY <1>0
  <2>5. SameLife([s EXCEPT !.m_RefCount = s.m_RefCount + 1], s)
    BY <1>0 DEF ShutdownBegun, WorkerProcesses, SameLife
  <2> DEFINE t == [s EXCEPT !.m_RefCount = s.m_RefCount + 1]
  <2> HIDE DEF s, tbl, t
  <2>6. wp' = tbl \/ wp' = [tbl EXCEPT ![w] = t]
    BY <2>3 DEF t
  <2>7. SameLife(s, s) /\ SameLife(t, s)
    BY <2>5 DEF SameLife, t
  <2>8. (wp'[w] = s \/ wp'[w] = t) /\ \A v \in WP : v # w => wp'[v] = wp[v]
    BY <2>4, <2>6
  <2>9. SameLife(wp'[w], s)
    BY <2>7, <2>8, Zenon
  <2> QED
    BY <1>2, <2>2, <2>8, <2>9 DEF SameLife
<1>3. CASE wp[w].m_State \notin {"RegistrationPending", "Running"}
  BY <1>3 DEF Shutdown
<1> QED
  BY <1>1, <1>2, <1>3

LEMMA ShutdownRelay ==
  ASSUME TypeOK, RelayInv, Shutdown
  PROVE  RelayInv'
<1>0. stack # <<>> /\ Head(stack).fn = "Shutdown" /\ Calling("Shutdown")
  BY DEF Shutdown, Calling
<1>1. PICK w \in WP : w = This /\ Head(stack).w = w
  BY <1>0, CallingWP DEF WorkerProcessMethods, This
<1>2. PICK frames : Aside(frames) /\ Return(frames)
  <2>1. Aside(<<>>) /\ Aside(ShutdownFailed(w))
    BY AsideShapes, AsideCalls DEF ShutdownFailed, IllnessReasons, WorkerProcessMethods
  <2>2. Return(<<>>) \/ Return(ShutdownFailed(w))
    BY <1>1 DEF Shutdown
  <2> QED
    BY <2>1, <2>2
<1>3. /\ Calls \ {Head(stack)} \subseteq Calls'
      /\ \A f \in Calls' : f \in Calls \/ \E i \in 1 .. Len(frames) : f = frames[i]
  BY <1>0, <1>2, CallsAfter DEF Aside
<1>4. /\ \A v \in WP : v # w => wp'[v] = wp[v]
      /\ wp'[w].m_State =
           IF wp[w].m_State = "RegistrationPending" THEN "RegistrationPendingShutdownPending"
           ELSE IF wp[w].m_State = "Running" THEN "ShutdownPending" ELSE wp[w].m_State
      /\ wp'[w].m_BeingReplaced = wp[w].m_BeingReplaced
      /\ wp'[w].m_NotifiedAppPool = wp[w].m_NotifiedAppPool
      /\ wp'[w].m_pWorkerProcessToReplace = wp[w].m_pWorkerProcessToReplace
  BY <1>1, ShutdownLife
<1>5. \A v \in WP : /\ v # w => (Pending("Shutdown", v) => Pending("Shutdown", v)')
                    /\ Pending("DropPredecessor", v)' => Pending("DropPredecessor", v)
                    /\ Pending("MarkReplaced", v)' => Pending("MarkReplaced", v)
  BY <1>0, <1>1, <1>2, <1>3 DEF Pending, Aside
<1>6. \A v \in WP : Replaced(v)' => Replaced(v)
  BY <1>4, <1>5 DEF Replaced
<1>7. ~Serves(w)'
  BY <1>4 DEF Serves
<1>8. \A v \in WP : /\ Dead(v) <=> Dead(v)'
                    /\ Serves(v)' => Serves(v)
                    /\ wp'[v].m_NotifiedAppPool = wp[v].m_NotifiedAppPool
                    /\ Old(v)' = Old(v)
                    /\ wp'[v].m_State = "Uninitialized" => wp[v].m_State = "Uninitialized"
  BY <1>4, <1>7 DEF Dead, Serves, Old
<1>9. \A v, x \in WP : Relieves(v, x) => Relieves(v, x)'
  BY <1>8 DEF Relieves
<1>10. \A v \in WP : Relieved(v)'
  BY <1>5, <1>6, <1>7, <1>8, <1>9, RelayKept
<1>11. \A v \in WP : \A f : Begins(f, v) => f # Head(stack)
  BY <1>0 DEF Begins
<1>12. \A v \in WP : Unborn(v)'
  BY <1>3, <1>6, <1>8, <1>11 DEF Unborn, RelayInv
<1>13. \A v \in WP : LetGo(v)'
  BY <1>5, <1>8 DEF LetGo, RelayInv
<1> QED
  BY <1>10, <1>12, <1>13 DEF RelayInv

\* A replacement that ends tells the old process first.
LEMMA TerminateRelay ==
  ASSUME TypeOK, RelayInv, Terminate
  PROVE  RelayInv'
<1>0. /\ stack # <<>> /\ Head(stack).fn = "Terminate" /\ Calling("Terminate")
      /\ wp \in [WP -> WorkerProcesses]
  BY DEF Terminate, Calling, TypeOK
<1>1. PICK w \in WP : w = This /\ Head(stack).w = w
  BY <1>0, CallingWP DEF WorkerProcessMethods, This
<1>2. CASE wp[w].m_State = "DeletePending"
  <2>1. wp' = wp /\ Return(<<>>)
    BY <1>1, <1>2 DEF Terminate
  <2>2. \A v \in WP : Unmoved(v)
    BY <2>1 DEF Unmoved, Old
  <2>3. \A v \in WP : wp'[v].m_State = "Uninitialized" => ~Begins(Head(stack), v)
    BY <1>1, <1>2, <2>1 DEF Begins
  <2> QED
    BY <1>0, <2>1, <2>2, <2>3, AsideShapes, AsideCall
<1>3. CASE wp[w].m_State # "DeletePending"
  <2> DEFINE last == Call("TerminateTail", w)
             frames == ReleasePredecessor(w) \o <<last>>
             s == Terminated(wp[w])
  <2>1. last \in Frames /\ last.fn = "TerminateTail"
    BY AsideCalls DEF WorkerProcessMethods
  <2>2. wp' = [wp EXCEPT ![w] = s] /\ Return(frames)
    BY <1>1, <1>3 DEF Terminate
  <2>3. s.m_State = "DeletePending"
    BY <1>0, TerminatedEffect
  <2>4. wp'[w] = s /\ \A v \in WP : v # w => wp'[v] = wp[v]
    BY <1>0, <2>2
  <2> HIDE DEF last, s
  <2>5. /\ frames \in Seq(Frames)
        /\ Old(w) = NoWP => Len(frames) = 1 /\ frames[1] = last
        /\ Old(w) # NoWP =>
             /\ Len(frames) = 3 /\ frames[1] = Call("Shutdown", Old(w))
             /\ frames[2] = Call("DropPredecessor", w) /\ frames[3] = last
    BY <2>1, ReleaseShape
  <2> HIDE DEF frames
  <2>6. /\ Calls \ {Head(stack)} \subseteq Calls'
        /\ \A i \in 1 .. Len(frames) : frames[i] \in Calls'
        /\ \A f \in Calls' : f \in Calls \/ \E i \in 1 .. Len(frames) : f = frames[i]
    BY <1>0, <2>2, <2>5, CallsAfter
  <2>7. /\ \A x : Call("Shutdown", x).fn = "Shutdown" /\ Call("Shutdown", x).w = x
        /\ Call("DropPredecessor", w).fn = "DropPredecessor" /\ Call("DropPredecessor", w).w = w
    BY DEF Call
  <2>8. \A f \in Calls' : \/ f \in Calls \/ f = last \/ f.fn = "Shutdown"
                          \/ f.fn = "DropPredecessor" /\ f.w = w
    <3> TAKE f \in Calls'
    <3>1. ASSUME NEW i \in 1 .. Len(frames), f = frames[i]
          PROVE  f = last \/ f.fn = "Shutdown" \/ (f.fn = "DropPredecessor" /\ f.w = w)
      <4>1. CASE Old(w) = NoWP
        BY <2>5, <3>1, <4>1
      <4>2. CASE Old(w) # NoWP
        <5>0. Len(frames) = 3 /\ \A m \in 1 .. 3 : m = 1 \/ m = 2 \/ m = 3
          BY <2>5, <4>2
        <5>1. i = 1 \/ i = 2 \/ i = 3
          BY <5>0, <3>1, Zenon
        <5> QED
          BY <2>5, <2>7, <3>1, <4>2, <5>1
      <4> QED
        BY <4>1, <4>2
    <3> QED
      BY <2>6, <3>1
  <2>9. \A v \in WP : /\ Pending("Shutdown", v) => Pending("Shutdown", v)'
                      /\ Pending("DropPredecessor", v)' => v = w \/ Pending("DropPredecessor", v)
                      /\ Pending("MarkReplaced", v)' => Pending("MarkReplaced", v)
    BY <1>0, <2>1, <2>6, <2>8 DEF Pending
  <2>10. Dead(w)' /\ ~Serves(w)' /\ wp'[w].m_State # "Uninitialized"
    BY <2>3, <2>4 DEF Dead, Serves
  <2>11. \A v \in WP : v # w => /\ Dead(v) <=> Dead(v)'
                                /\ Serves(v)' => Serves(v)
                                /\ Replaced(v)' => Replaced(v)
    BY <2>4, <2>9 DEF Dead, Serves, Replaced
  <2>12. ASSUME NEW v \in WP, NEW x \in WP, Relieves(v, x)
         PROVE  Relieves(v, x)' \/ Pending("Shutdown", x)'
    <3>1. CASE v = w
      <4>1. Old(w) = x /\ x # NoWP
        BY <2>12, <3>1, PointerAssumption DEF Relieves
      <4>2. Call("Shutdown", x) \in Calls'
        BY <2>5, <2>6, <4>1
      <4> QED
        BY <2>7, <4>2 DEF Pending
    <3>2. CASE v # w
      BY <2>4, <2>11, <2>12, <3>2 DEF Relieves, Old
    <3> QED
      BY <3>1, <3>2
  <2>13. \A v \in WP : Relieved(v)'
    BY <2>9, <2>10, <2>11, <2>12, RelayKept
  <2>14. \A v \in WP : \A f : v # w /\ Begins(f, v) => f # Head(stack)
    BY <1>1 DEF Begins
  <2>15. \A v \in WP : Unborn(v)'
    BY <2>4, <2>6, <2>10, <2>11, <2>14 DEF Unborn, RelayInv
  <2>16. \A v \in WP : LetGo(v)'
    BY <2>4, <2>9, <2>10, <2>11 DEF LetGo, RelayInv
  <2> QED
    BY <2>13, <2>15, <2>16 DEF RelayInv
<1> QED
  BY <1>2, <1>3

-----------------------------------------------------------------------------
(***************************************************************************)
(* A new object.                                                           *)
(***************************************************************************)
LEMMA NewLife ==
  ASSUME TypeOK, NEW new \in FreeMemory, NEW reason \in {"DemandStart", "Replace"},
         NEW old \in WP \cup {NoWP}, old # new, wp' = Constructed(new, reason, old)
  PROVE  /\ new \in WP /\ Dead(new)
         /\ wp'[new].m_State = "Uninitialized" /\ wp'[new].m_StartReason = reason
         /\ ~wp'[new].m_BeingReplaced /\ ~wp'[new].m_NotifiedAppPool
         /\ wp'[new].m_pWorkerProcessToReplace = old
         /\ \A v \in WP : v # new => SameLife(wp'[v], wp[v])
<1> DEFINE r == NewWorkerProcess(reason, old)
           tbl == [wp EXCEPT ![new] = r]
<1>1. /\ r.m_State = "Uninitialized" /\ r.m_StartReason = reason
      /\ ~r.m_BeingReplaced /\ ~r.m_NotifiedAppPool
      /\ r.m_pWorkerProcessToReplace = old
  BY DEF NewWorkerProcess, NoObject
<1>2. r \in WorkerProcesses
  BY NewWorkerProcessType
<1>3. wp' = IF old = NoWP THEN tbl ELSE Referenced(tbl, old)
  BY DEF Constructed
<1>4. new \in WP /\ Dead(new)
  BY DEF FreeMemory, Dead
<1> HIDE DEF r
<1>5. tbl \in [WP -> WorkerProcesses] /\ tbl[new] = r /\ \A v \in WP : v # new => tbl[v] = wp[v]
  BY <1>2, <1>4 DEF TypeOK
<1> HIDE DEF tbl
<1>6. wp' = tbl \/ (old \in WP /\ wp' = [tbl EXCEPT ![old].m_RefCount = tbl[old].m_RefCount + 1])
  BY <1>3 DEF Referenced
<1>7. ASSUME NEW v \in WP
      PROVE  SameLife(wp'[v], tbl[v])
  <2>1. CASE wp' = tbl
    BY <2>1 DEF SameLife
  <2>2. CASE old \in WP /\ wp' = [tbl EXCEPT ![old].m_RefCount = tbl[old].m_RefCount + 1]
    <3>1. SameLife([tbl EXCEPT ![old].m_RefCount = tbl[old].m_RefCount + 1][v], tbl[v])
      BY <1>5, <2>2, SameLifeField
    <3> QED
      BY <2>2, <3>1, Zenon
  <2> QED
    BY <1>6, <2>1, <2>2
<1>8. wp'[new] = r
  BY <1>4, <1>5, <1>6
<1> QED
  BY <1>1, <1>4, <1>5, <1>7, <1>8

\* A process that is replaced is relieved by the new object; nothing else is pending.
LEMMA ReplacementRelay ==
  ASSUME TypeOK, RelayInv, NEW w \in WP, NEW new \in FreeMemory, w # new,
         wp' = Constructed(new, "Replace", w),
         \A f \in Calls' : f = Call("Initialize", new) \/ f = Call("MarkReplaced", w)
                           \/ f.fn = "ReplaceAll",
         Call("Initialize", new) \in Calls',
         \A f \in Calls : f.fn \in {"InitiateReplacement", "ReplaceAll"}
  PROVE  RelayInv'
<1>1. /\ new \in WP /\ Dead(new)
      /\ wp'[new].m_State = "Uninitialized"
      /\ ~wp'[new].m_BeingReplaced /\ ~wp'[new].m_NotifiedAppPool
      /\ wp'[new].m_pWorkerProcessToReplace = w
      /\ \A v \in WP : v # new => SameLife(wp'[v], wp[v])
  BY NewLife
<1>2. /\ Call("Initialize", new).fn = "Initialize" /\ Call("Initialize", new).w = new
      /\ Call("MarkReplaced", w).fn = "MarkReplaced" /\ Call("MarkReplaced", w).w = w
  BY DEF Call
<1>3. \A v \in WP : \A fn : Pending(fn, v) => fn \in {"InitiateReplacement", "ReplaceAll"}
  BY DEF Pending
<1>4. \A v \in WP : /\ ~Pending("Shutdown", v) /\ ~Pending("MarkReplaced", v)
                    /\ ~Pending("DropPredecessor", v)'
                    /\ v # w => ~Pending("MarkReplaced", v)'
  BY <1>2, <1>3 DEF Pending
<1>5. \A v \in WP : wp[v].m_State # "Uninitialized"
  BY DEF RelayInv, Unborn, Begins
<1>6. ASSUME NEW v \in WP PROVE Relieved(v)'
  <2>1. CASE v = w
    <3>1. Relieves(new, w)'
      BY <1>1 DEF Relieves, Old, Dead
    <3> QED
      BY <1>1, <2>1, <3>1 DEF Relieved
  <2>2. CASE v = new
    BY <1>1, <2>2 DEF Relieved, Serves
  <2>3. CASE v # w /\ v # new
    <3> SUFFICES ASSUME Serves(v)', Replaced(v)'
                 PROVE  \E x \in WP : Relieves(x, v)'
      BY DEF Relieved
    <3>1. Serves(v) /\ Replaced(v)
      BY <1>1, <1>4, <2>3 DEF SameLife, Serves, Replaced
    <3>2. PICK x \in WP : Relieves(x, v)
      BY <1>4, <3>1 DEF RelayInv, Relieved
    <3>3. x # new
      BY <1>1, <3>2 DEF Relieves
    <3>4. Relieves(x, v)'
      BY <1>1, <3>2, <3>3 DEF Relieves, SameLife, Old, Dead
    <3> QED
      BY <3>4
  <2> QED
    BY <2>1, <2>2, <2>3
<1>7. ASSUME NEW v \in WP PROVE Unborn(v)'
  <2>1. CASE v = new
    BY <1>1, <1>2, <1>4, <2>1 DEF Unborn, Replaced, Begins
  <2>2. CASE v # new
    BY <1>1, <1>5, <2>2 DEF Unborn, SameLife
  <2> QED
    BY <2>1, <2>2
<1>8. \A v \in WP : LetGo(v)'
  BY <1>4 DEF LetGo
<1> QED
  BY <1>6, <1>7, <1>8 DEF RelayInv

LEMMA InitiateReplacementRelay ==
  ASSUME ObjectInv, RelayInv, InitiateReplacement
  PROVE  RelayInv'
<1>0. /\ stack # <<>> /\ Head(stack).fn = "InitiateReplacement"
      /\ Calling("InitiateReplacement")
  BY DEF InitiateReplacement, Calling
<1>1. /\ TypeOK /\ FrameInv(1) /\ Head(stack) = stack[1] /\ Len(stack) \in Nat
  BY <1>0, First DEF TypeOK
<1>2. PICK w \in WP : w = This /\ Head(stack).w = w
  BY <1>0, <1>1, CallingWP DEF WorkerProcessMethods, This
<1>3. CASE wp' = wp /\ (Return(<<>>) \/ Return(ReplacementRefused(w)))
  <2>1. PICK frames : Aside(frames) /\ Return(frames)
    BY <1>3, AsideShapes, AsideCalls DEF ReplacementRefused, WorkerProcessMethods
  <2>2. \A v \in WP : Unmoved(v) /\ ~Begins(Head(stack), v)
    BY <1>0, <1>3 DEF Unmoved, Old, Begins
  <2> QED
    BY <1>0, <1>1, <2>1, <2>2, AsideCall
<1>4. CASE /\ IsOkToReplaceWorkerProcess
           /\ \E new \in FreeMemory :
                /\ wp' = Constructed(new, "Replace", w)
                /\ Return(<<Call("Initialize", new), Call("MarkReplaced", w)>>)
  <2>1. PICK new \in FreeMemory :
                /\ wp' = Constructed(new, "Replace", w)
                /\ Return(<<Call("Initialize", new), Call("MarkReplaced", w)>>)
    BY <1>4
  <2>2. w # new /\ new \in WP
    BY <1>0, <1>1, <1>2, <1>4 DEF FrameInv, Founded, IsOkToReplaceWorkerProcess, FreeMemory
  <2>3. Len(stack) <= 2 /\ (Len(stack) = 2 => stack[2].fn = "ReplaceAll")
    BY <1>0, <1>1 DEF FrameInv, Placed
  <2>4. \A m \in Nat : m <= 2 => \A i \in 1 .. m : i = 1 \/ (i = 2 /\ m = 2)
    OBVIOUS
  <2>5. \A i \in 1 .. Len(stack) : i = 1 \/ (i = 2 /\ Len(stack) = 2)
    BY <1>1, <2>3, <2>4, Zenon
  <2>6. \A f \in Calls : f.fn \in {"InitiateReplacement", "ReplaceAll"}
    BY <1>0, <1>1, <2>3, <2>5 DEF Calls
  <2> DEFINE f1 == Call("Initialize", new)
             f2 == Call("MarkReplaced", w)
             t == Tail(stack)
  <2>7. f1 \in Frames /\ f2 \in Frames /\ stack' = <<f1, f2>> \o t
    BY <2>1, <2>2, WorkerFrame DEF WorkerProcessMethods, Call, Return
  <2>8. t \in Seq(Frames) /\ Len(t) \in Nat /\ \A i \in 1 .. Len(t) : t[i].fn = "ReplaceAll"
    <3>1. /\ stack \in Seq(Frames) /\ t \in Seq(Frames) /\ Len(t) = Len(stack) - 1
          /\ \A i \in 1 .. Len(t) : t[i] = stack[i + 1]
      BY <1>0, <1>1 DEF TypeOK
    <3>2. \A i \in 1 .. Len(t) : i + 1 = 2 /\ Len(stack) = 2
      BY <1>1, <2>3, <3>1
    <3> QED
      BY <1>1, <2>3, <3>1, <3>2
  <2> HIDE DEF f1, f2, t
  <2>9. /\ Len(stack') = 2 + Len(t) /\ stack'[1] = f1 /\ stack'[2] = f2
        /\ \A i \in 3 .. Len(stack') : i - 2 \in 1 .. Len(t) /\ stack'[i] = t[i - 2]
        /\ \A i \in 1 .. Len(stack') : i = 1 \/ i = 2 \/ i \in 3 .. Len(stack')
        /\ 1 \in 1 .. Len(stack')
    BY <2>7, <2>8
  <2>10. \A f \in Calls' : f = f1 \/ f = f2 \/ f.fn = "ReplaceAll"
    BY <2>8, <2>9 DEF Calls
  <2>11. f1 \in Calls'
    BY <2>9 DEF Calls
  <2> QED
    BY <1>1, <2>1, <2>2, <2>6, <2>10, <2>11, ReplacementRelay DEF f1, f2
<1> QED
  BY <1>2, <1>3, <1>4 DEF InitiateReplacement

LEMMA CallsRelay ==
  ASSUME ObjectInv, ObjectInv', PingInv, RelayInv, MakeCall
  PROVE  RelayInv'
<1>1. TypeOK
  BY DEF ObjectInv, QuietInvariant
<1> QED
  BY <1>1, PoolCallsRelay, ReleasingRelay, InitializeRelay, ShutdownRelay, StartupTailRelay,
     MarkAsTerminallyIllRelay, TerminateRelay, MarkReplacedRelay, InitiateReplacementRelay
     DEF MakeCall, WorkerProcessCall

-----------------------------------------------------------------------------
(***************************************************************************)
(* Between work items.                                                     *)
(***************************************************************************)
LEMMA AppPoolEventRelay ==
  ASSUME TypeOK, RelayInv, AppPoolEvent
  PROVE  RelayInv'
<1>0. stack = <<>> /\ wp' = wp
  BY DEF AppPoolEvent, FlowedStart, FlowedStop, SetConfiguration, RecycleWorkerProcesses,
     PoolShutdown, DeletePool, CreatePool, DemandArrives, Idle
<1>1. Aside(stack')
  <2>0. Aside(<<>>) /\ \A fn \in AppPoolMethods : Aside(<<Call(fn, NoWP)>>)
    BY AsideShapes, AsideCalls
  <2>1. CASE SetConfiguration
    <3>1. PICK stop, rotate :
            /\ stop = <<>> \/ stop = <<Call("DisableAppPool", NoWP)>>
            /\ rotate = <<>> \/ rotate = <<Call("ConfigChange", NoWP)>>
            /\ stack' = stop \o rotate
      BY <2>1 DEF SetConfiguration
    <3>2. Aside(stop) /\ Aside(rotate)
      BY <2>0, <3>1 DEF AppPoolMethods
    <3> QED
      BY <3>1, <3>2, AsideConcat
  <2>2. CASE RecycleWorkerProcesses
    BY <2>2, ListType, AsideWalk DEF RecycleWorkerProcesses, Walks
  <2>3. CASE PoolShutdown
    <3>1. Aside(WalkFrom("ShutdownAll", FirstEntry)) /\ Aside(<<Call("CheckShutdown", NoWP)>>)
      BY <2>0, ListType, AsideWalk DEF Walks, AppPoolMethods
    <3> QED
      BY <2>3, <3>1, AsideConcat DEF PoolShutdown
  <2>4. CASE FlowedStart \/ FlowedStop \/ DeletePool \/ CreatePool \/ DemandArrives
    BY <1>0, <2>0, <2>4 DEF FlowedStart, FlowedStop, DeletePool, CreatePool, DemandArrives,
       AppPoolMethods
  <2> QED
    BY <2>1, <2>2, <2>3, <2>4 DEF AppPoolEvent
<1>2. \A w \in WP : Unmoved(w)
  BY <1>0 DEF Unmoved, Old
<1> QED
  BY <1>0, <1>1, <1>2, AsideIdle

LEMMA DemandStartRelay ==
  ASSUME TypeOK, RelayInv, DemandStart
  PROVE  RelayInv'
<1>0. stack = <<>>
  BY DEF DemandStart, Take, Idle
<1>1. CASE wp' = wp /\ stack' = stack
  <2>1. Aside(stack') /\ \A w \in WP : Unmoved(w)
    BY <1>0, <1>1, AsideShapes DEF Unmoved, Old
  <2> QED
    BY <1>0, <2>1, AsideIdle
<1>2. CASE \E new \in FreeMemory : /\ wp' = Constructed(new, "DemandStart", NoWP)
                                   /\ stack' = <<Call("Initialize", new)>>
  <2>1. PICK new \in FreeMemory : /\ wp' = Constructed(new, "DemandStart", NoWP)
                                  /\ stack' = <<Call("Initialize", new)>>
    BY <1>2
  <2>2. NoWP # new
    BY PointerAssumption DEF FreeMemory
  <2>3. /\ new \in WP /\ Dead(new)
        /\ wp'[new].m_State = "Uninitialized" /\ ~wp'[new].m_BeingReplaced
        /\ \A v \in WP : v # new => SameLife(wp'[v], wp[v])
    BY <2>1, <2>2, NewLife
  <2> DEFINE f == Call("Initialize", new)
  <2>4. f.fn = "Initialize" /\ f.w = new /\ stack' = <<f>>
    BY <2>1 DEF Call
  <2> HIDE DEF f
  <2>5. f \in Calls' /\ \A g \in Calls' : g = f
    BY <2>4 DEF Calls
  <2>6. \A v \in WP : ~Pending("MarkReplaced", v)' /\ ~Pending("DropPredecessor", v)'
    BY <2>4, <2>5 DEF Pending
  <2>7. ASSUME NEW v \in WP PROVE Relieved(v)'
    <3>1. CASE v = new
      BY <2>3, <3>1 DEF Relieved, Serves
    <3>2. CASE v # new
      <4> SUFFICES ASSUME Serves(v)', Replaced(v)'
                   PROVE  \E x \in WP : Relieves(x, v)'
        BY DEF Relieved
      <4>1. Serves(v) /\ wp[v].m_BeingReplaced
        BY <2>3, <2>6, <3>2 DEF SameLife, Serves, Replaced
      <4>2. PICK x \in WP : Relieves(x, v)
        BY <1>0, <4>1, IdleRelay
      <4>3. x # new
        BY <2>3, <4>2 DEF Relieves
      <4>4. Relieves(x, v)'
        BY <2>3, <4>2, <4>3 DEF Relieves, SameLife, Old, Dead
      <4> QED
        BY <4>4
    <3> QED
      BY <3>1, <3>2
  <2>8. ASSUME NEW v \in WP PROVE Unborn(v)'
    <3>1. CASE v = new
      BY <2>3, <2>4, <2>5, <2>6, <3>1 DEF Unborn, Replaced, Begins
    <3>2. CASE v # new
      BY <1>0, <2>3, <3>2, IdleRelay DEF Unborn, SameLife
    <3> QED
      BY <3>1, <3>2
  <2>9. \A v \in WP : LetGo(v)'
    BY <2>6 DEF LetGo
  <2> QED
    BY <2>7, <2>8, <2>9 DEF RelayInv
<1> QED
  BY <1>1, <1>2 DEF DemandStart

LEMMA DoneAside ==
  ASSUME NEW w \in WP, NEW frames, Aside(frames), Done(w, frames)
  PROVE  Aside(stack')
  BY AsideCalls, AsideConcat DEF Done, WorkerProcessMethods

\* The work items of a worker process leave its life as it is, and their calls move it.
LEMMA WorkItemsLife ==
  ASSUME TypeOK, WorkerProcessWorkItem
  PROVE  stack = <<>> /\ \A v \in WP : SameLife(wp'[v], wp[v])
<1>1. PICK op \in Handles : Take(op)
  BY DEF WorkerProcessWorkItem, StartupTimerExpired, ShutdownTimerExpired, ProcessHandleSignaled,
     SendPing, PingResponseTimerExpired, TakeOwn, Handles
<1>2. PICK w \in WP : w = Head(queue).w
  BY <1>1, TakenItem
<1>3. stack = <<>> /\ wp \in [WP -> WorkerProcesses]
  BY <1>1, TakenItem
<1>6. ASSUME NEW v \in WP PROVE SameLife(wp'[v], wp[v])
  <2>1. CASE SendPing
    <3>1. CASE wp[w].m_State = "Running"
      <4>1. PICK outcome : wp' = [wp EXCEPT ![w] = PingSent(wp[w], outcome)]
        BY <1>2, <2>1, <3>1 DEF SendPing
      <4> DEFINE s == PingSent(wp[w], outcome)
      <4>2. SameLife(s, wp[w])
        BY <1>3 DEF PingSent, WorkerProcesses, SameLife
      <4> HIDE DEF s
      <4>3. wp' = [wp EXCEPT ![w] = s]
        BY <4>1 DEF s
      <4>4. SameLife(wp[v], wp[v])
        BY DEF SameLife
      <4> QED
        BY <1>3, <4>2, <4>3, <4>4
    <3>2. CASE wp[w].m_State # "Running"
      <4>1. wp' = [wp EXCEPT ![w].handle["SendPing"] = "NULL"]
        BY <1>2, <2>1, <3>2 DEF SendPing
      <4> QED
        BY <1>3, <4>1, SameLifeField
    <3> QED
      BY <3>1, <3>2
  <2>2. CASE StartupTimerExpired \/ ShutdownTimerExpired
    BY <1>3, <2>2, SameLifeField DEF StartupTimerExpired, ShutdownTimerExpired
  <2>3. CASE ProcessHandleSignaled
    BY <1>2, <1>3, <2>3, SameLifeField DEF ProcessHandleSignaled
  <2>4. CASE PingResponseTimerExpired
    BY <1>2, <1>3, <2>4, SameLifeField DEF PingResponseTimerExpired
  <2> QED
    BY <2>1, <2>2, <2>3, <2>4 DEF WorkerProcessWorkItem
<1> QED
  BY <1>3, <1>6

LEMMA WorkItemsRelay ==
  ASSUME TypeOK, RelayInv, WorkerProcessWorkItem
  PROVE  RelayInv'
<1>1. PICK op \in Handles : Take(op)
  BY DEF WorkerProcessWorkItem, StartupTimerExpired, ShutdownTimerExpired, ProcessHandleSignaled,
     SendPing, PingResponseTimerExpired, TakeOwn, Handles
<1>2. PICK w \in WP : w = Head(queue).w
  BY <1>1, TakenItem
<1>4. /\ Aside(<<>>) /\ \A why \in IllnessReasons : Aside(<<Ill(w, why)>>)
      /\ Aside(<<Call("Terminate", w)>>)
  BY AsideShapes, AsideCalls DEF WorkerProcessMethods
<1>5. \E frames : Aside(frames) /\ Done(w, frames)
  BY <1>2, <1>4 DEF WorkerProcessWorkItem, StartupTimerExpired, ShutdownTimerExpired,
     ProcessHandleSignaled, SendPing, PingResponseTimerExpired, ProcessEnded, IllnessReasons
<1>7. Aside(stack')
  BY <1>5, DoneAside
<1> QED
  BY <1>7, WorkItemsLife, SameUnmoved, AsideIdle

\* So do the messages, but for that of a start.
LEMMA OtherMessagesLife ==
  ASSUME ObjectInv, Message, ~HandleHresultOk
  PROVE  /\ stack = <<>> /\ pool' = pool /\ list' = list
         /\ \A v \in WP : SameLife(wp'[v], wp[v])
         /\ \/ stack' = <<>>
            \/ \E w \in WP :
                 /\ w = Sender
                 /\ \/ \E why \in IllnessReasons :
                         \/ stack' = <<Ill(w, why)>>
                         \/ stack' = <<Ill(w, why)>> \o <<Call("DetachHandler", w)>>
                    \/ stack' = <<>> \o <<Call("DetachHandler", w)>>
                    \/ stack' = <<Call("Shutdown", w)>>
                    \/ stack' = <<Call("InitiateReplacement", w)>> /\ wp[w].m_State = "Running"
<1>0. wp \in [WP -> WorkerProcesses]
  BY DEF ObjectInv, QuietInvariant, TypeOK
<1>1. ASSUME wp' = wp PROVE \A v \in WP : SameLife(wp'[v], wp[v])
  BY <1>1 DEF SameLife
<1>2. CASE DropMessage
  BY <1>1, <1>2 DEF DropMessage, Idle
<1>3. CASE ~DropMessage
  <2>1. PICK op \in PipeOps : TakeMessage(op)
    BY <1>3 DEF Message, HandleInvalid, HandleGetPid, HandleHresultBad, HandleRecycleRequest,
       HandleIdleRequest, HandleUnknownRequest, HandleShutdownRequest, HandleBrokenPipe,
       HandleIpmFault, HandleDisconnect, HandlePingReply, PipeOps
  <2>2. PICK w \in WP : w = Sender
    BY <2>1, MessageTaken
  <2>3. stack = <<>>
    BY <2>1, MessageTaken
  <2>4. {"Untrusted", "PassedBadHresult", "IPMError", "InternalError"} \subseteq IllnessReasons
    BY DEF IllnessReasons
  <2>5. CASE HandleInvalid \/ HandleHresultBad
    BY <1>1, <2>2, <2>3, <2>4, <2>5 DEF HandleInvalid, HandleHresultBad
  <2>9. CASE HandleRecycleRequest \/ HandleIdleRequest \/ HandleUnknownRequest
    BY <1>1, <2>2, <2>3, <2>4, <2>9 DEF HandleRecycleRequest,
       HandleIdleRequest, HandleUnknownRequest, HandleShutdownRequest
  <2>6. CASE HandleGetPid
    <3>1. /\ stack' = stack \/ stack' = <<Ill(w, "Untrusted")>>
          /\ wp' = wp \/ wp' = [wp EXCEPT ![w].m_Registered = TRUE]
          /\ pool' = pool /\ list' = list
      BY <2>2, <2>6 DEF HandleGetPid
    <3>3. \A v \in WP : SameLife(wp'[v], wp[v])
      BY <1>0, <1>1, <3>1, SameLifeField
    <3> QED
      BY <2>2, <2>3, <2>4, <3>1, <3>3
  <2>7. CASE HandleBrokenPipe \/ HandleIpmFault
    <3>1. PICK frames :
            /\ frames = <<>> \/ frames = <<Ill(w, "IPMError")>>
            /\ stack' = frames \o <<Call("DetachHandler", w)>>
            /\ wp' = wp /\ pool' = pool /\ list' = list
      BY <2>2, <2>7 DEF HandleBrokenPipe, HandleIpmFault, HandleDisconnect
    <3> QED
      BY <1>1, <2>2, <2>3, <2>4, <3>1
  <2>8. CASE HandlePingReply
    <3>1. PICK failed :
            /\ stack' = <<Ill(w, "Untrusted")>> \/ stack' = <<>> \/ stack' = <<Ill(w, "InternalError")>>
            /\ wp' = wp \/ wp' = [wp EXCEPT ![w] = PingReplied(wp[w], failed)]
            /\ pool' = pool /\ list' = list
      BY <2>2, <2>8 DEF HandlePingReply
    <3> DEFINE s == PingReplied(wp[w], failed)
    <3>3. SameLife(s, wp[w]) /\ \A v \in WP : SameLife(wp[v], wp[v])
      BY <1>0 DEF PingReplied, WorkerProcesses, SameLife
    <3> HIDE DEF s
    <3>4. wp' = wp \/ wp' = [wp EXCEPT ![w] = s]
      BY <3>1 DEF s
    <3>5. \A v \in WP : SameLife(wp'[v], wp[v])
      BY <1>0, <3>3, <3>4
    <3> QED
      BY <2>2, <2>3, <2>4, <3>1, <3>5
  <2> QED
    BY <1>3, <2>5, <2>6, <2>7, <2>8, <2>9 DEF Message
<1> QED
  BY <1>2, <1>3

LEMMA OtherMessagesRelay ==
  ASSUME ObjectInv, RelayInv, Message, ~HandleHresultOk
  PROVE  RelayInv'
<1>1. ASSUME NEW w \in WP
      PROVE  /\ \A why \in IllnessReasons : Aside(<<Ill(w, why)>>)
             /\ Aside(<<Call("InitiateReplacement", w)>>) /\ Aside(<<Call("Shutdown", w)>>)
             /\ Aside(<<Call("DetachHandler", w)>>)
  BY AsideCalls DEF WorkerProcessMethods
<1>2. Aside(<<>>)
  BY AsideShapes
<1>3. Aside(stack')
  BY <1>1, <1>2, OtherMessagesLife, AsideConcat
<1> QED
  BY <1>3, OtherMessagesLife, SameUnmoved, AsideIdle

LEMMA ProcessStepLife ==
  ASSUME TypeOK, NEW w \in WP, ProcessStep(w)
  PROVE  /\ stack = <<>> /\ stack' = <<>> /\ pool' = pool /\ list' = list
         /\ \A v \in WP : SameLife(wp'[v], wp[v])
<1>0. stack = <<>> /\ stack' = <<>> /\ pool' = pool /\ list' = list /\ wp \in [WP -> WorkerProcesses]
  BY DEF TypeOK, ProcessStep, ProcessConnects, ProcessStarts, ProcessFailsToStart,
     ProcessAnswersPing, ProcessAsks, ProcessMisbehaves, ProcessExits, ProcessCrashes, PipeBreaks,
     PipeFaults, Says, Idle
<1>1. \E x : \/ wp' = wp
             \/ wp' = [wp EXCEPT ![w].process.phase = x]
             \/ wp' = [wp EXCEPT ![w].process.inbox = x]
             \/ wp' = [wp EXCEPT ![w].process.pipe = x]
  BY DEF ProcessStep, ProcessConnects, ProcessStarts, ProcessFailsToStart, ProcessAnswersPing,
     ProcessAsks, ProcessMisbehaves, ProcessExits, ProcessCrashes, PipeBreaks, PipeFaults, Says
<1>2. \A v \in WP : SameLife(wp'[v], wp[v])
  BY <1>0, <1>1, SameLifeField
<1> QED
  BY <1>0, <1>2

LEMMA CallbackLife ==
  ASSUME TypeOK, NEW w \in WP, NEW h \in Handles, Callback(w, h)
  PROVE  /\ stack = <<>> /\ stack' = <<>> /\ pool' = pool /\ list' = list
         /\ \A v \in WP : SameLife(wp'[v], wp[v])
<1>0. stack = <<>> /\ stack' = <<>> /\ pool' = pool /\ list' = list /\ wp \in [WP -> WorkerProcesses]
  BY DEF TypeOK, Callback, Idle
<1> DEFINE tbl == [wp EXCEPT ![w].handle[h] = "fired"]
<1>1. tbl \in [WP -> WorkerProcesses]
  BY <1>0, FieldType DEF HandleStates
<1>2. \A v \in WP : SameLife(tbl[v], wp[v])
  BY <1>0, SameLifeField
<1>3. wp' = [tbl EXCEPT ![w].m_RefCount = tbl[w].m_RefCount + 1]
  BY DEF Callback, Referenced
<1> HIDE DEF tbl
<1>4. \A v \in WP : SameLife(wp'[v], tbl[v])
  BY <1>1, <1>3, SameLifeField
<1>5. \A v \in WP : SameLife(wp'[v], wp[v])
  BY <1>2, <1>4 DEF SameLife
<1> QED
  BY <1>0, <1>5

\* The process itself and the callbacks.
LEMMA OthersRelay ==
  ASSUME TypeOK, RelayInv, NEW w \in WP, ProcessStep(w) \/ \E h \in Handles : Callback(w, h)
  PROVE  RelayInv'
  BY ProcessStepLife, CallbackLife, AsideShapes, SameUnmoved, AsideIdle

\* What the start of a process changes of its record.
LEMMA ServingLife ==
  ASSUME TypeOK, NEW w \in WP, NEW s,
         s = Serving(wp[w]) \/ s = [Serving(wp[w]) EXCEPT !.m_NotifiedAppPool = TRUE]
  PROVE  /\ s.m_State = "Running"
         /\ s.m_StartReason = wp[w].m_StartReason
         /\ s.m_BeingReplaced = wp[w].m_BeingReplaced
         /\ s.m_pWorkerProcessToReplace = wp[w].m_pWorkerProcessToReplace
         /\ s = Serving(wp[w]) => s.m_NotifiedAppPool = wp[w].m_NotifiedAppPool
         /\ s = [Serving(wp[w]) EXCEPT !.m_NotifiedAppPool = TRUE] => s.m_NotifiedAppPool
<1>0. PICK r : r = Serving(wp[w])
  OBVIOUS
<1>1. wp[w] \in WorkerProcesses
  BY DEF TypeOK
<1>2. r \in WorkerProcesses
  <2> DEFINE h == [wp[w].handle EXCEPT !["Startup"] = "NULL"]
  <2>1. h \in [Handles -> HandleStates] /\ r = [wp[w] EXCEPT !.m_State = "Running", !.handle = h]
    BY <1>0, <1>1 DEF Serving, WorkerProcesses, HandleStates
  <2> HIDE DEF h
  <2> QED
    BY <1>1, <2>1 DEF WorkerProcesses, WorkerProcessStates
<1>3. /\ r.m_State = "Running"
      /\ r.m_StartReason = wp[w].m_StartReason
      /\ r.m_BeingReplaced = wp[w].m_BeingReplaced
      /\ r.m_pWorkerProcessToReplace = wp[w].m_pWorkerProcessToReplace
      /\ r.m_NotifiedAppPool = wp[w].m_NotifiedAppPool
  BY <1>0, <1>1 DEF Serving, WorkerProcesses
<1>4. CASE s = r
  BY <1>0, <1>1, <1>2, <1>3, <1>4 DEF WorkerProcesses
<1>5. CASE s = [r EXCEPT !.m_NotifiedAppPool = TRUE]
  <2>1. /\ s.m_State = r.m_State /\ s.m_StartReason = r.m_StartReason
        /\ s.m_BeingReplaced = r.m_BeingReplaced
        /\ s.m_pWorkerProcessToReplace = r.m_pWorkerProcessToReplace
        /\ s.m_NotifiedAppPool
    BY <1>2, <1>5 DEF WorkerProcesses
  <2> QED
    BY <1>0, <1>3, <2>1
<1> QED
  BY <1>0, <1>4, <1>5

\* A replacement that has started tells the old process.
LEMMA HresultOkRelay ==
  ASSUME ObjectInv, RelayInv, HandleHresultOk
  PROVE  RelayInv'
<1>1. TakeMessage("HresultOk") /\ "HresultOk" \in PipeOps /\ TypeOK
  BY DEF HandleHresultOk, PipeOps, ObjectInv, QuietInvariant
<1>2. PICK w \in WP : w = Sender
  BY <1>1, MessageTaken
<1>3. stack = <<>> /\ wp \in [WP -> WorkerProcesses]
  BY <1>1, MessageTaken
<1>4. \A v \in WP : /\ wp[v].m_State # "Uninitialized"
                    /\ \A fn : ~Pending(fn, v)
  BY <1>3, IdleRelay
<1>5. CASE wp[w].m_State \notin {"RegistrationPending", "RegistrationPendingShutdownPending"}
  <2>1. wp' = wp /\ stack' = <<Ill(w, "Untrusted")>>
    BY <1>2, <1>5 DEF HandleHresultOk
  <2>2. Aside(stack') /\ \A v \in WP : Unmoved(v)
    BY <2>1, AsideCalls DEF Unmoved, Old, IllnessReasons
  <2> QED
    BY <1>3, <2>2, AsideIdle
<1>6. CASE wp[w].m_State \in {"RegistrationPending", "RegistrationPendingShutdownPending"}
  <2> DEFINE tail == Call("StartupTail", w)
             stop == Call("Shutdown", w)
  <2>1. PICK s :
          /\ wp' = [wp EXCEPT ![w] = s]
          /\ \/ s = Serving(wp[w]) /\ stack' = <<stop>>
             \/ /\ s = [Serving(wp[w]) EXCEPT !.m_NotifiedAppPool = TRUE]
                /\ stack' = ReleasePredecessor(w) \o <<tail>>
                /\ wp[w].m_State = "RegistrationPending"
    BY <1>2, <1>6 DEF HandleHresultOk, Serving
  <2>2. /\ s.m_State = "Running"
        /\ s.m_BeingReplaced = wp[w].m_BeingReplaced
        /\ s.m_pWorkerProcessToReplace = wp[w].m_pWorkerProcessToReplace
        /\ s = Serving(wp[w]) => s.m_NotifiedAppPool = wp[w].m_NotifiedAppPool
        /\ s = [Serving(wp[w]) EXCEPT !.m_NotifiedAppPool = TRUE] => s.m_NotifiedAppPool
    BY <1>1, <2>1, ServingLife
  <2>3. /\ tail \in Frames /\ tail.fn = "StartupTail" /\ tail.w = w
        /\ stop \in Frames /\ stop.fn = "Shutdown" /\ stop.w = w
    BY WorkerFrame DEF WorkerProcessMethods, Call
  <2> HIDE DEF tail, stop
  <2>4. wp'[w] = s /\ \A v \in WP : v # w => wp'[v] = wp[v]
    BY <1>3, <2>1
  <2>5. \A v \in WP : /\ Old(v)' = Old(v)
                      /\ wp'[v].m_State # "Uninitialized"
                      /\ wp'[v].m_BeingReplaced = wp[v].m_BeingReplaced
                      /\ Dead(v)' <=> Dead(v)
                      /\ v # w => (Serves(v)' <=> Serves(v))
    BY <1>4, <1>6, <2>2, <2>4 DEF Old, Dead, Serves
  <2>6. \A v \in WP : Unborn(v)'
    BY <2>5 DEF Unborn
  <2>7. CASE s = Serving(wp[w]) /\ stack' = <<stop>>
    <3>1. stop \in Calls' /\ \A g \in Calls' : g = stop
      BY <2>7 DEF Calls
    <3>2. \A v \in WP : ~Pending("MarkReplaced", v)' /\ ~Pending("DropPredecessor", v)'
      BY <2>3, <3>1 DEF Pending
    <3>3. Pending("Shutdown", w)'
      BY <2>3, <3>1 DEF Pending
    <3>4. \A v \in WP : wp'[v].m_NotifiedAppPool = wp[v].m_NotifiedAppPool
      BY <2>2, <2>4, <2>7
    <3>5. \A v, x \in WP : Relieves(v, x) => Relieves(v, x)'
      BY <2>5, <3>4 DEF Relieves
    <3>6. \A v \in WP : Replaced(v)' => Replaced(v)
      BY <2>5, <3>2 DEF Replaced
    <3>7. \A v \in WP : Relieved(v)'
      BY <1>4, <2>5, <3>3, <3>5, <3>6, RelayKept
    <3>8. \A v \in WP : LetGo(v)'
      BY <3>2 DEF LetGo
    <3> QED
      BY <2>6, <3>7, <3>8 DEF RelayInv
  <2>8. CASE /\ s = [Serving(wp[w]) EXCEPT !.m_NotifiedAppPool = TRUE]
             /\ stack' = ReleasePredecessor(w) \o <<tail>>
             /\ wp[w].m_State = "RegistrationPending"
    <3>1. /\ Old(w) = NoWP => Len(stack') = 1 /\ stack'[1] = tail
          /\ Old(w) # NoWP =>
               /\ Len(stack') = 3 /\ stack'[1] = Call("Shutdown", Old(w))
               /\ stack'[2] = Call("DropPredecessor", w) /\ stack'[3] = tail
      BY <1>1, <2>3, <2>8, ReleaseShape
    <3>2. /\ \A x : Call("Shutdown", x).fn = "Shutdown" /\ Call("Shutdown", x).w = x
          /\ Call("DropPredecessor", w).fn = "DropPredecessor" /\ Call("DropPredecessor", w).w = w
      BY DEF Call
    <3>3. /\ \A m \in 1 .. 3 : m = 1 \/ m = 2 \/ m = 3
          /\ \A m \in 1 .. 1 : m = 1
          /\ 1 \in 1 .. 3
      OBVIOUS
    <3>4. \A g \in Calls' : g = tail \/ g.fn = "Shutdown" \/ (g.fn = "DropPredecessor" /\ g.w = w)
      <4> SUFFICES ASSUME NEW i \in 1 .. Len(stack')
                   PROVE  \/ stack'[i] = tail \/ stack'[i].fn = "Shutdown"
                          \/ stack'[i].fn = "DropPredecessor" /\ stack'[i].w = w
        BY DEF Calls
      <4>1. CASE Old(w) = NoWP
        <5>1. i = 1
          BY <3>1, <3>3, <4>1, Zenon
        <5> QED
          BY <3>1, <4>1, <5>1
      <4>2. CASE Old(w) # NoWP
        <5>1. i = 1 \/ i = 2 \/ i = 3
          BY <3>1, <3>3, <4>2, Zenon
        <5> QED
          BY <3>1, <3>2, <4>2, <5>1
      <4> QED
        BY <4>1, <4>2
    <3>5. \A v \in WP : /\ ~Pending("MarkReplaced", v)'
                        /\ Pending("DropPredecessor", v)' => v = w
      BY <2>3, <3>4 DEF Pending
    <3>6. \A v \in WP : LetGo(v)'
      BY <2>2, <2>4, <2>8, <3>5 DEF LetGo
    <3>7. \A v \in WP : Replaced(v)' => Replaced(v)
      BY <2>5, <3>5 DEF Replaced
    <3>8. Serves(w)
      BY <2>8 DEF Serves
    <3>9. ASSUME NEW v \in WP, NEW x \in WP, Relieves(v, x)
          PROVE  Relieves(v, x)' \/ Pending("Shutdown", x)'
      <4>1. CASE v = w
        <5>1. Old(w) = x /\ x # NoWP
          BY <3>9, <4>1, PointerAssumption DEF Relieves
        <5>2. Call("Shutdown", x) \in Calls'
          BY <3>1, <3>3, <5>1 DEF Calls
        <5> QED
          BY <3>2, <5>2 DEF Pending
      <4>2. CASE v # w
        BY <2>4, <2>5, <3>9, <4>2 DEF Relieves
      <4> QED
        BY <4>1, <4>2
    <3>10. \A v \in WP : Relieved(v)'
      BY <1>4, <2>5, <3>7, <3>8, <3>9, RelayKept
    <3> QED
      BY <2>6, <3>6, <3>10 DEF RelayInv
  <2> QED
    BY <2>1, <2>7, <2>8
<1> QED
  BY <1>5, <1>6

-----------------------------------------------------------------------------
LEMMA InitRelay == Init => RelayInv
<1> SUFFICES ASSUME Init, NEW w \in WP
             PROVE  Relieved(w) /\ Unborn(w) /\ LetGo(w)
  BY DEF RelayInv
<1>1. wp[w].m_State = "Free" /\ stack = <<>>
  BY DEF Init, NoObject
<1>2. Calls = {}
  BY <1>1, CallsEmpty
<1> QED
  BY <1>1, <1>2 DEF Relieved, Unborn, LetGo, Serves, Pending

LEMMA NextRelay == ObjectInv /\ PingInv /\ RelayInv /\ [Next]_vars => RelayInv'
<1> SUFFICES ASSUME ObjectInv, PingInv, RelayInv, [Next]_vars
             PROVE  RelayInv'
  OBVIOUS
<1>0. TypeOK /\ ObjectInv'
  BY NextObject DEF ObjectInv, QuietInvariant
<1>1. CASE MakeCall
  BY <1>0, <1>1, CallsRelay
<1>2. CASE ExecuteWorkItem
  BY <1>0, <1>2, WorkItemsRelay, OtherMessagesRelay, HresultOkRelay, DemandStartRelay
     DEF ExecuteWorkItem
<1>3. CASE AppPoolEvent
  BY <1>0, <1>3, AppPoolEventRelay
<1>4. CASE \E w \in WP : ProcessStep(w) \/ \E h \in Handles : Callback(w, h)
  BY <1>0, <1>4, OthersRelay
<1>5. CASE UNCHANGED vars
  <2>1. wp' = wp /\ stack' = stack
    BY <1>5 DEF vars
  <2>2. Calls' = Calls
    BY <2>1 DEF Calls
  <2> QED
    BY <2>1, <2>2 DEF RelayInv, Relieved, Unborn, LetGo, Serves, Replaced, Pending, Relieves,
       Old, Dead
<1> QED
  BY <1>1, <1>2, <1>3, <1>4, <1>5 DEF Next

\* Between two work items a process that is being replaced and has not been told to shut down
\* has a replacement in the list of the pool that will tell it, whether that replacement starts,
\* fails to start or is itself terminated (InitiateReplacement, WorkerProcessStartupSucceeded,
\* Terminate): the mark m_BeingReplaced, which keeps the process from being replaced again and
\* out of the count of the pool, never outlives its replacement.
THEOREM ReplacementSafety == Spec => []ReplacementPending
<1>1. ObjectInv /\ RelayInv => ReplacementPending
  <2> SUFFICES ASSUME ObjectInv, RelayInv, Idle, NEW w \in ToSet(list), wp[w].m_BeingReplaced,
                      wp[w].m_State \in {"RegistrationPending", "Running"}
               PROVE  \E v \in ToSet(list) : /\ wp[v].m_pWorkerProcessToReplace = w
                                             /\ ~wp[v].m_NotifiedAppPool
    BY DEF ReplacementPending
  <2>1. w \in WP
    BY DEF ObjectInv, QuietInvariant, TypeOK, ToSet
  <2>2. PICK v \in WP : Relieves(v, w)
    BY <2>1, IdleRelay DEF Idle, Serves
  <2>3. v \in ToSet(list)
    BY <2>1, <2>2, PointerAssumption DEF Relieves, ObjectInv, ListInv, Successors, InList
  <2> QED
    BY <2>2, <2>3 DEF Relieves, Old
<1> QED
  BY <1>1, InitObject, NextObject, InitPing, NextPing, InitRelay, NextRelay, PTL DEF Spec

-----------------------------------------------------------------------------
(***************************************************************************)
(* The inductive invariant of the wait for a demand.                       *)
(***************************************************************************)
Room == Len(list) < pool.m_MaxProcessesToLaunch

\* The calls after which the process they are made on is on its way out.
Leads == {"Shutdown", "InitiateReplacement", "MarkReplaced", "Terminate"}

\* The pool will look for room again when w has started or is removed.
Rearms(w) == \/ wp[w].m_StartReason = "DemandStart" /\ ~wp[w].m_NotifiedAppPool
             \/ IsGoingAwaySoon(w)
Settling(w) == InList(w) /\ (Rearms(w) \/ \E f \in Calls : f.fn \in Leads /\ f.w = w)

Walking == \E f \in Calls : f.fn = "ReplaceAll" /\ f.w \in WP
Reason == pool.m_WaitingForDemandStart \/ Walking \/ \E w \in WP : Settling(w)

\* A pool that stays running and has room for a process has a reason to do nothing.
Armed == ~Covered /\ Room => Reason
Roomy == pool.m_State = "Running" => pool.m_MaxProcessesToLaunch >= 1
\* A process that is to be replaced is in the list.
Summoned == \A f \in Calls : f.fn = "InitiateReplacement" => InList(f.w) \/ Covered

DemandInv == Armed /\ Roomy /\ Summoned

-----------------------------------------------------------------------------
(***************************************************************************)
(* What keeps a reason.                                                    *)
(***************************************************************************)
\* A call keeps the reasons there are when it leaves the list and the wait alone and the
\* call itself was not one.
LEMMA ArmedCall ==
  ASSUME TypeOK, MakeCall, Armed, NEW frames \in Seq(Frames), Return(frames),
         list' = list,
         pool'.m_MaxProcessesToLaunch = pool.m_MaxProcessesToLaunch,
         pool.m_WaitingForDemandStart => pool'.m_WaitingForDemandStart,
         \A v \in WP : InList(v) /\ Rearms(v) => Rearms(v)',
         Head(stack).fn # "ReplaceAll",
         \A v \in WP : Head(stack).fn \in Leads /\ Head(stack).w = v /\ InList(v) => Settling(v)'
  PROVE  Armed'
<1> SUFFICES ASSUME ~Covered', Room'
             PROVE  Reason'
  BY DEF Armed
<1>1. ~Covered
  BY CoveredStays
<1>2. Reason
  BY <1>1 DEF Armed, Room
<1>3. stack # <<>>
  BY CallsReturn
<1>4. Calls \ {Head(stack)} \subseteq Calls'
  BY <1>3, CallsAfter
<1>5. \A v \in WP : InList(v) <=> InList(v)'
  BY DEF InList
<1>6. CASE pool.m_WaitingForDemandStart
  BY <1>6 DEF Reason
<1>7. CASE Walking
  BY <1>4, <1>7 DEF Reason, Walking
<1>8. ASSUME NEW w \in WP, Settling(w)
      PROVE  Reason'
  <2>1. CASE Rearms(w)
    BY <1>5, <1>8, <2>1 DEF Reason, Settling
  <2>2. ASSUME NEW f \in Calls, f.fn \in Leads, f.w = w
        PROVE  Reason'
    <3>1. CASE f = Head(stack)
      BY <1>8, <2>2, <3>1 DEF Reason, Settling
    <3>2. CASE f # Head(stack)
      BY <1>4, <1>5, <1>8, <2>2, <3>2 DEF Reason, Settling
    <3> QED
      BY <3>1, <3>2
  <2> QED
    BY <1>8, <2>1, <2>2 DEF Settling
<1> QED
  BY <1>2, <1>6, <1>7, <1>8 DEF Reason

\* No call but that of the replacing loop replaces a process.
LEMMA SummonedCall ==
  ASSUME ObjectInv, MakeCall, NEW frames \in Seq(Frames), Return(frames),
         \A i \in 1 .. Len(frames) : frames[i].fn = "InitiateReplacement" =>
            InList(frames[i].w)' \/ Covered'
  PROVE  Summoned'
<1>1. TypeOK /\ stack # <<>>
  BY CallsReturn DEF ObjectInv, QuietInvariant
<1>2. /\ Len(frames) \in Nat /\ Len(stack) \in Nat
      /\ Len(stack') = Len(frames) + Len(stack) - 1
      /\ \A i \in 1 .. Len(frames) : stack'[i] = frames[i]
      /\ \A i \in Len(frames) + 1 .. Len(stack') :
           /\ stack'[i] = stack[i - Len(frames) + 1]
           /\ i - Len(frames) + 1 \in 2 .. Len(stack)
  BY <1>1, Pushed
<1> SUFFICES ASSUME NEW f \in Calls', f.fn = "InitiateReplacement"
             PROVE  InList(f.w)' \/ Covered'
  BY DEF Summoned
<1>5. PICK i \in 1 .. Len(stack') : f = stack'[i]
  BY DEF Calls
<1>3. CASE i \in 1 .. Len(frames)
  <2>1. f = frames[i]
    BY <1>2, <1>3, <1>5
  <2> QED
    BY <1>3, <2>1
<1>4. CASE i \in Len(frames) + 1 .. Len(stack')
  <2>1. PICK k \in 2 .. Len(stack) : stack'[i] = stack[k]
    BY <1>2, <1>4
  <2>2. k \in 1 .. Len(stack) /\ k # 1
    BY <1>2, <2>1
  <2>3. stack[k].fn # "InitiateReplacement"
    BY <2>2 DEF ObjectInv, FramesInv, FrameInv, Placed
  <2> QED
    BY <1>5, <2>1, <2>3
<1> QED
  BY <1>2, <1>3, <1>4, <1>5

\* Calls that replace no process.
Unreplacing(frames) ==
  frames \in Seq(Frames) /\ \A i \in 1 .. Len(frames) : frames[i].fn # "InitiateReplacement"

LEMMA UnreplacingShapes ==
  /\ Unreplacing(<<>>)
  /\ \A f \in Frames : f.fn # "InitiateReplacement" => Unreplacing(<<f>>)
  /\ \A f, g \in Frames :
       f.fn # "InitiateReplacement" /\ g.fn # "InitiateReplacement" => Unreplacing(<<f, g>>)
<1>1. Unreplacing(<<>>)
  BY DEF Unreplacing
<1>2. ASSUME NEW f \in Frames, f.fn # "InitiateReplacement"
      PROVE  Unreplacing(<<f>>)
  BY <1>2 DEF Unreplacing
<1>3. ASSUME NEW f \in Frames, NEW g \in Frames,
             f.fn # "InitiateReplacement", g.fn # "InitiateReplacement"
      PROVE  Unreplacing(<<f, g>>)
  <2> DEFINE s == <<f, g>>
  <2>1. s \in Seq(Frames) /\ Len(s) = 2 /\ s[1] = f /\ s[2] = g
    OBVIOUS
  <2> HIDE DEF s
  <2>2. \A i \in 1 .. Len(s) : i = 1 \/ i = 2
    BY <2>1
  <2>3. Unreplacing(s)
    BY <1>3, <2>1, <2>2 DEF Unreplacing
  <2> QED
    BY <2>3 DEF s
<1> QED
  BY <1>1, <1>2, <1>3

LEMMA UnreplacingConcat ==
  ASSUME NEW s, NEW t, Unreplacing(s), Unreplacing(t)
  PROVE  Unreplacing(s \o t)
<1>1. s \in Seq(Frames) /\ t \in Seq(Frames)
  BY DEF Unreplacing
<1> DEFINE c == s \o t
<1>2. /\ c \in Seq(Frames) /\ Len(s) \in Nat /\ Len(t) \in Nat /\ Len(c) = Len(s) + Len(t)
      /\ \A i \in 1 .. Len(s) : c[i] = s[i]
      /\ \A i \in Len(s) + 1 .. Len(c) : c[i] = t[i - Len(s)]
  BY <1>1
<1> HIDE DEF c
<1>3. ASSUME NEW i \in 1 .. Len(c)
      PROVE  c[i].fn # "InitiateReplacement"
  <2>1. CASE i \in 1 .. Len(s)
    BY <1>2, <2>1 DEF Unreplacing
  <2>2. CASE i > Len(s)
    <3>1. i - Len(s) \in 1 .. Len(t) /\ i \in Len(s) + 1 .. Len(c)
      BY <1>2, <2>2
    <3> QED
      BY <1>2, <3>1 DEF Unreplacing
  <2> QED
    BY <1>2, <2>1, <2>2
<1>4. Unreplacing(c)
  BY <1>2, <1>3 DEF Unreplacing
<1> QED
  BY <1>4 DEF c

LEMMA UnreplacingCalls ==
  /\ \A fn \in WorkerProcessMethods \ {"InitiateReplacement"}, w \in WP :
       Unreplacing(<<Call(fn, w)>>)
  /\ \A fn \in AppPoolMethods : Unreplacing(<<Call(fn, NoWP)>>)
  /\ \A why \in IllnessReasons, w \in WP : Unreplacing(<<Ill(w, why)>>)
  /\ \A fn \in Walks, e \in WP \cup {NoWP, ListHead} : Unreplacing(WalkFrom(fn, e))
<1>1. \A fn \in WorkerProcessMethods, w \in WP : Call(fn, w) \in Frames /\ Call(fn, w).fn = fn
  BY WorkerFrame DEF Call
<1>2. \A fn \in AppPoolMethods : /\ Call(fn, NoWP) \in Frames /\ Call(fn, NoWP).fn = fn
                                 /\ fn # "InitiateReplacement"
  BY PoolFrame DEF Call, AppPoolMethods
<1>3. \A why \in IllnessReasons, w \in WP :
        Ill(w, why) \in Frames /\ Ill(w, why).fn = "MarkAsTerminallyIll"
  BY IllFrame DEF Ill
<1>4. ASSUME NEW fn \in Walks, NEW e \in WP \cup {NoWP, ListHead}
      PROVE  Unreplacing(WalkFrom(fn, e))
  <2>1. CASE e = ListHead
    BY <2>1, UnreplacingShapes DEF WalkFrom
  <2>2. CASE e # ListHead
    <3>1. Call(fn, e) \in Frames /\ Call(fn, e).fn # "InitiateReplacement"
      BY <2>2 DEF Call, Frames, Walks
    <3> QED
      BY <2>2, <3>1, UnreplacingShapes DEF WalkFrom
  <2> QED
    BY <2>1, <2>2
<1> QED
  BY <1>1, <1>2, <1>3, <1>4, UnreplacingShapes

\* A call that keeps the settings, the list and every reason.
LEMMA DemandCall ==
  ASSUME ObjectInv, MakeCall, DemandInv, NEW frames, Unreplacing(frames), Return(frames),
         list' = list,
         pool'.m_MaxProcessesToLaunch = pool.m_MaxProcessesToLaunch,
         pool.m_WaitingForDemandStart => pool'.m_WaitingForDemandStart,
         \A v \in WP : InList(v) /\ Rearms(v) => Rearms(v)',
         Head(stack).fn # "ReplaceAll",
         \A v \in WP : Head(stack).fn \in Leads /\ Head(stack).w = v /\ InList(v) => Settling(v)'
  PROVE  DemandInv'
<1>1. TypeOK /\ frames \in Seq(Frames)
  BY DEF ObjectInv, QuietInvariant, Unreplacing
<1>2. Armed'
  BY <1>1, ArmedCall DEF DemandInv
<1>3. Summoned'
  BY <1>1, SummonedCall DEF Unreplacing
<1>4. Roomy'
  BY <1>1, CallsPoolState DEF DemandInv, Roomy
<1> QED
  BY <1>2, <1>3, <1>4 DEF DemandInv

-----------------------------------------------------------------------------
(***************************************************************************)
(* The calls on the pool.                                                  *)
(***************************************************************************)
LEMMA PoolFields ==
  ASSUME NEW p \in AppPools, NEW x
  PROVE  /\ [p EXCEPT !.m_State = x].m_MaxProcessesToLaunch = p.m_MaxProcessesToLaunch
         /\ [p EXCEPT !.m_State = x].m_WaitingForDemandStart = p.m_WaitingForDemandStart
         /\ [p EXCEPT !.m_RecentWorkerProcessFailures = x].m_MaxProcessesToLaunch
              = p.m_MaxProcessesToLaunch
         /\ [p EXCEPT !.m_RecentWorkerProcessFailures = x].m_WaitingForDemandStart
              = p.m_WaitingForDemandStart
         /\ [p EXCEPT !.m_WaitingForDemandStart = x].m_MaxProcessesToLaunch
              = p.m_MaxProcessesToLaunch
         /\ [p EXCEPT !.m_WaitingForDemandStart = x].m_WaitingForDemandStart = x
         /\ [p EXCEPT !.m_WaitingForDemandStart = x].m_State = p.m_State
         /\ ResetStaggering(p).m_State = p.m_State
         /\ ResetStaggering(p).m_MaxProcessesToLaunch = p.maxProcesses
         /\ ResetStaggering(p).m_WaitingForDemandStart = p.m_WaitingForDemandStart
         /\ p.maxProcesses \in Nat /\ p.maxProcesses >= 1
<1>1. p.maxProcesses \in MaxProcessesSettings
  BY DEF AppPools
<1>5. PICK n \in Nat \ {0} : n = p.maxProcesses
  BY <1>1, SettingsAssumption, Zenon
<1>6. n \in Nat /\ n >= 1
  OBVIOUS
<1>2. p.maxProcesses \in Nat /\ p.maxProcesses >= 1
  BY <1>5, <1>6, Zenon
<1>3. /\ [p EXCEPT !.m_State = x].m_MaxProcessesToLaunch = p.m_MaxProcessesToLaunch
      /\ [p EXCEPT !.m_State = x].m_WaitingForDemandStart = p.m_WaitingForDemandStart
      /\ [p EXCEPT !.m_RecentWorkerProcessFailures = x].m_MaxProcessesToLaunch
           = p.m_MaxProcessesToLaunch
      /\ [p EXCEPT !.m_RecentWorkerProcessFailures = x].m_WaitingForDemandStart
           = p.m_WaitingForDemandStart
      /\ [p EXCEPT !.m_WaitingForDemandStart = x].m_MaxProcessesToLaunch
           = p.m_MaxProcessesToLaunch
      /\ [p EXCEPT !.m_WaitingForDemandStart = x].m_WaitingForDemandStart = x
      /\ [p EXCEPT !.m_WaitingForDemandStart = x].m_State = p.m_State
  BY Zenon DEF AppPools
<1>4. /\ ResetStaggering(p).m_State = p.m_State
      /\ ResetStaggering(p).m_MaxProcessesToLaunch = p.maxProcesses
      /\ ResetStaggering(p).m_WaitingForDemandStart = p.m_WaitingForDemandStart
  BY DEF AppPools, ResetStaggering
<1> QED
  BY <1>2, <1>3, <1>4

LEMMA StaggeredMax ==
  ASSUME TypeOK
  PROVE  /\ Staggered(pool) \in AppPools
         /\ Staggered(pool).m_MaxProcessesToLaunch =
              IF list = <<>> THEN pool.maxProcesses ELSE pool.m_MaxProcessesToLaunch
         /\ Staggered(pool).m_State = pool.m_State
<1> DEFINE q == IF list = <<>> THEN ResetStaggering(pool) ELSE pool
<1>1. q \in AppPools
  BY StaggeredType DEF TypeOK
<1>2. PICK n : Staggered(pool) = [q EXCEPT !.m_NumWPStarted = n]
  BY DEF Staggered
<1>3. /\ q.m_State = pool.m_State
      /\ q.m_MaxProcessesToLaunch =
           IF list = <<>> THEN pool.maxProcesses ELSE pool.m_MaxProcessesToLaunch
  BY PoolFields DEF TypeOK
<1>4. Staggered(pool) \in AppPools
  BY StaggeredType
<1> HIDE DEF q
<1>5. [q EXCEPT !.m_NumWPStarted = n].m_State = q.m_State
      /\ [q EXCEPT !.m_NumWPStarted = n].m_MaxProcessesToLaunch = q.m_MaxProcessesToLaunch
  BY <1>1 DEF AppPools
<1> QED
  BY <1>2, <1>3, <1>4, <1>5

LEMMA SameRearms ==
  ASSUME NEW v \in WP, SameLife(wp'[v], wp[v])
  PROVE  Rearms(v) => Rearms(v)'
  BY DEF SameLife, Rearms, IsGoingAwaySoon

\* The calls on the pool other than the loop that replaces processes and its start.
LEMMA PoolCallsDemand ==
  ASSUME ObjectInv, DemandInv, AppPoolCall, ~HandleConfigChange, ~ReplaceAllWorkerProcesses
  PROVE  DemandInv'
<1>0. TypeOK /\ pool \in AppPools /\ stack # <<>> /\ wp' = wp /\ list' = list /\ MakeCall
  BY AppPoolCallAside DEF ObjectInv, QuietInvariant, TypeOK, MakeCall, AppPoolCall, ReportFailure,
     DisableAppPool, DisableTail, ShutdownAllWorkerProcesses, CheckShutdown, PoolTerminate,
     TerminateAll
<1>1. Unreplacing(<<>>) /\ \A fn \in AppPoolMethods : Unreplacing(<<Call(fn, NoWP)>>)
  BY UnreplacingShapes, UnreplacingCalls
<1>2. PICK frames : Unreplacing(frames) /\ Return(frames)
  <2>1. CASE ReportFailure \/ DisableTail \/ PoolTerminate
    BY <1>1, <2>1 DEF ReportFailure, RapidFailStop, DisableTail, PoolTerminate, AppPoolMethods
  <2>2. CASE DisableAppPool
    <3>1. Unreplacing(WalkFrom("ShutdownAll", FirstEntry) \o <<Call("DisableTail", NoWP)>>)
      BY <1>0, <1>1, ListType, UnreplacingCalls, UnreplacingConcat DEF Walks, AppPoolMethods
    <3> QED
      BY <1>1, <2>2, <3>1 DEF DisableAppPool
  <2>3. CASE ShutdownAllWorkerProcesses
    <3>1. ASSUME This \in WP
          PROVE  Unreplacing(<<Call("Shutdown", This)>> \o WalkFrom("ShutdownAll", Flink(This)))
      BY <1>0, <3>1, ListType, UnreplacingCalls, UnreplacingConcat DEF Walks, WorkerProcessMethods
    <3> QED
      BY <1>1, <2>3, <3>1 DEF ShutdownAllWorkerProcesses
  <2>4. CASE CheckShutdown
    BY <1>1, <2>4 DEF CheckShutdown, ShutdownNowCompleted, AppPoolMethods
  <2>5. CASE TerminateAll
    <3>1. ASSUME list # <<>>
          PROVE  Unreplacing(<<Call("Terminate", list[1]), Call("TerminateAll", NoWP)>>)
      <4>1. list[1] \in WP
        BY <1>0, <3>1 DEF TypeOK
      <4>2. /\ Call("Terminate", list[1]) \in Frames /\ Call("Terminate", list[1]).fn = "Terminate"
            /\ Call("TerminateAll", NoWP) \in Frames /\ Call("TerminateAll", NoWP).fn = "TerminateAll"
        BY <4>1, AsideCalls DEF WorkerProcessMethods, AppPoolMethods
      <4> QED
        BY <4>2, UnreplacingShapes
    <3> QED
      BY <1>1, <2>5, <3>1 DEF TerminateAll
  <2> QED
    BY <2>1, <2>2, <2>3, <2>4, <2>5 DEF AppPoolCall
<1>3. /\ pool'.m_MaxProcessesToLaunch = pool.m_MaxProcessesToLaunch
      /\ pool'.m_WaitingForDemandStart = pool.m_WaitingForDemandStart
  <2>1. PICK x : \/ pool' = pool
                 \/ pool' = [pool EXCEPT !.m_State = x]
                 \/ pool' = [pool EXCEPT !.m_RecentWorkerProcessFailures = x]
    BY DEF AppPoolCall, ReportFailure, DisableAppPool, DisableTail, ShutdownAllWorkerProcesses,
       CheckShutdown, PoolTerminate, TerminateAll
  <2>2. /\ [pool EXCEPT !.m_State = x].m_MaxProcessesToLaunch = pool.m_MaxProcessesToLaunch
        /\ [pool EXCEPT !.m_State = x].m_WaitingForDemandStart = pool.m_WaitingForDemandStart
        /\ [pool EXCEPT !.m_RecentWorkerProcessFailures = x].m_MaxProcessesToLaunch
             = pool.m_MaxProcessesToLaunch
        /\ [pool EXCEPT !.m_RecentWorkerProcessFailures = x].m_WaitingForDemandStart
             = pool.m_WaitingForDemandStart
    BY <1>0, PoolFields
  <2> QED
    BY <2>1, <2>2, Zenon
<1>4. Head(stack).fn \notin Leads \cup {"ReplaceAll"}
  BY DEF AppPoolCall, ReportFailure, DisableAppPool, DisableTail, ShutdownAllWorkerProcesses,
     CheckShutdown, PoolTerminate, TerminateAll, Calling, Leads
<1>5. \A v \in WP : Rearms(v) => Rearms(v)'
  BY <1>0 DEF Rearms, IsGoingAwaySoon
<1> QED
  BY <1>0, <1>2, <1>3, <1>4, <1>5, DemandCall

\* A pool that picks up another maximum rotates its processes; if it has none, it was waiting.
LEMMA ConfigChangeDemand ==
  ASSUME ObjectInv, DemandInv, HandleConfigChange
  PROVE  DemandInv'
<1>0. /\ TypeOK /\ pool \in AppPools /\ stack # <<>> /\ wp' = wp /\ list' = list /\ MakeCall
      /\ Head(stack).fn = "ConfigChange"
  BY DEF ObjectInv, QuietInvariant, TypeOK, MakeCall, AppPoolCall, HandleConfigChange, Calling
<1>1. CASE ~pool.rotate
  <2>1. pool' = pool /\ Return(<<>>)
    BY <1>1 DEF HandleConfigChange
  <2>2. \A v \in WP : Rearms(v) => Rearms(v)'
    BY <1>0 DEF Rearms, IsGoingAwaySoon
  <2> QED
    BY <1>0, <2>1, <2>2, UnreplacingShapes, DemandCall DEF Leads
<1>2. CASE pool.rotate
  <2> DEFINE frames == WalkFrom("ReplaceAll", FirstEntry)
  <2>1. pool' = ResetStaggering(pool) /\ Return(frames)
    BY <1>2 DEF HandleConfigChange
  <2>2. Unreplacing(frames) /\ frames \in Seq(Frames)
    BY <1>0, ListType, UnreplacingCalls DEF Walks, Unreplacing
  <2>3. list # <<>> => frames = <<Call("ReplaceAll", list[1])>> /\ list[1] \in WP
    <3>1. list # <<>> => list[1] \in WP
      BY Entries
    <3> QED
      BY <3>1, PointerAssumption DEF WalkFrom, FirstEntry
  <2> HIDE DEF frames
  <2>4. /\ pool'.m_WaitingForDemandStart = pool.m_WaitingForDemandStart
        /\ pool'.m_MaxProcessesToLaunch >= 1
    BY <1>0, <2>1, PoolFields
  <2>5. Summoned'
    BY <1>0, <2>1, <2>2, SummonedCall DEF Unreplacing
  <2>6. Roomy'
    BY <2>4 DEF Roomy
  <2>7. Armed'
    <3> SUFFICES ASSUME ~Covered'
                 PROVE  Reason'
      BY DEF Armed
    <3>1. ~Covered
      BY <1>0, CoveredStays
    <3>2. CASE list # <<>>
      <4> DEFINE f == Call("ReplaceAll", list[1])
      <4>1. f.fn = "ReplaceAll" /\ f.w \in WP /\ frames = <<f>>
        BY <2>3, <3>2 DEF Call
      <4> HIDE DEF f
      <4>2. f \in Calls'
        <5>1. \A i \in 1 .. Len(frames) : frames[i] \in Calls'
          BY <1>0, <2>1, <2>2, CallsAfter
        <5> QED
          BY <4>1, <5>1
      <4> QED
        BY <4>1, <4>2 DEF Reason, Walking
    <3>3. CASE list = <<>>
      <4>1. Room
        <5>1. pool.m_MaxProcessesToLaunch >= 1 /\ pool.m_MaxProcessesToLaunch \in Nat
          BY <1>0, <3>1 DEF DemandInv, Roomy, Covered, AppPools
        <5> QED
          BY <3>3, <5>1 DEF Room
      <4>2. Reason
        BY <3>1, <4>1 DEF DemandInv, Armed
      <4>3. \A w \in WP : ~InList(w)
        BY <3>3 DEF InList, ToSet
      <4>4. ~Walking
        <5> SUFFICES ASSUME NEW i \in 1 .. Len(stack), stack[i].fn = "ReplaceAll", stack[i].w \in WP
                     PROVE  FALSE
          BY DEF Walking, Calls
        <5>1. i = Len(stack)
          BY DEF ObjectInv, FramesInv, FrameInv, Placed
        <5>2. Replacing /\ Bottom.w \in WP
          BY <1>0, <3>1, <5>1 DEF Replacing, Bottom
        <5> QED
          BY <4>3, <5>2 DEF ObjectInv, ListInv, WalkListed
      <4> QED
        BY <2>4, <4>2, <4>3, <4>4 DEF Reason, Settling
    <3> QED
      BY <3>2, <3>3
  <2> QED
    BY <2>5, <2>6, <2>7 DEF DemandInv
<1> QED
  BY <1>1, <1>2

\* The loop goes on at an entry of the list, which it replaces next.
LEMMA ReplaceAllDemand ==
  ASSUME ObjectInv, DemandInv, ReplaceAllWorkerProcesses
  PROVE  DemandInv'
<1>0. /\ TypeOK /\ pool \in AppPools /\ stack # <<>> /\ wp' = wp /\ list' = list /\ MakeCall
      /\ Head(stack).fn = "ReplaceAll" /\ pool' = pool
  BY DEF ObjectInv, QuietInvariant, TypeOK, MakeCall, AppPoolCall, ReplaceAllWorkerProcesses, Calling
<1>1. /\ Head(stack) = stack[1] /\ FrameInv(1) /\ Len(stack) \in Nat
  BY <1>0, First DEF TypeOK
<1>2. Roomy'
  BY <1>0 DEF DemandInv, Roomy
<1>3. stack[1].fn = "ReplaceAll" /\ Len(stack) = 1
  BY <1>0, <1>1 DEF FrameInv, Placed
<1>4. ASSUME NEW w \in WP, w = This
      PROVE  DemandInv'
  <2> DEFINE f == Call("InitiateReplacement", w)
             walk == WalkFrom("ReplaceAll", Flink(w))
             frames == <<f>> \o walk
  <2>1. Return(frames) /\ f.fn = "InitiateReplacement" /\ f.w = w /\ f \in Frames
    BY <1>4, WorkerFrame DEF ReplaceAllWorkerProcesses, Call, WorkerProcessMethods
  <2>2. Unreplacing(walk)
    BY <1>0, ListType, UnreplacingCalls DEF Walks
  <2> HIDE DEF f, walk
  <2>3. /\ frames \in Seq(Frames) /\ frames[1] = f /\ 1 \in 1 .. Len(frames)
        /\ \A i \in 1 .. Len(frames) : i = 1 \/ (i - 1 \in 1 .. Len(walk) /\ frames[i] = walk[i - 1])
    BY <2>1, <2>2 DEF Unreplacing
  <2> HIDE DEF frames
  <2>4. ~Covered => InList(w)
    <3>1. ~Covered => Replacing /\ Bottom.w = w
      BY <1>0, <1>1, <1>3, <1>4 DEF Replacing, Bottom, This
    <3> QED
      BY <3>1 DEF ObjectInv, ListInv, WalkListed
  <2>5. InList(w)' \/ Covered'
    <3>1. Covered => Covered'
      BY <1>0, CoveredStays
    <3> QED
      BY <1>0, <2>4, <3>1 DEF InList
  <2>6. \A i \in 1 .. Len(frames) : frames[i].fn = "InitiateReplacement" => frames[i].w = w
    BY <2>1, <2>2, <2>3 DEF Unreplacing
  <2>7. Summoned'
    BY <1>0, <2>1, <2>3, <2>5, <2>6, SummonedCall
  <2>8. Armed'
    <3> SUFFICES ASSUME ~Covered'
                 PROVE  Reason'
      BY DEF Armed
    <3>1. f \in Calls'
      BY <1>0, <2>1, <2>3, CallsAfter
    <3>2. Settling(w)'
      BY <2>1, <2>5, <3>1 DEF Settling, Leads
    <3> QED
      BY <3>2 DEF Reason
  <2> QED
    BY <1>2, <2>7, <2>8 DEF DemandInv
<1>5. CASE This \notin WP
  <2>1. Return(<<>>)
    BY <1>5 DEF ReplaceAllWorkerProcesses
  <2>2. Summoned' /\ <<>> \in Seq(Frames)
    BY <1>0, <2>1, UnreplacingShapes, SummonedCall DEF Unreplacing
  <2>3. Calls \ {Head(stack)} \subseteq Calls'
    BY <1>0, <2>1, <2>2, CallsAfter
  <2>4. Armed'
    <3> SUFFICES ASSUME ~Covered', Room'
                 PROVE  Reason'
      BY DEF Armed
    <3>1. Reason
      BY <1>0, CoveredStays DEF DemandInv, Armed, Room
    <3>2. Walking => Walking'
      BY <1>5, <2>3 DEF Walking, This
    <3>3. \A v \in WP : Settling(v) => Settling(v)'
      BY <1>0, <2>3 DEF Settling, InList, Rearms, IsGoingAwaySoon, Leads
    <3> QED
      BY <1>0, <3>1, <3>2, <3>3 DEF Reason
  <2> QED
    BY <1>2, <2>2, <2>4 DEF DemandInv
<1> QED
  BY <1>4, <1>5

-----------------------------------------------------------------------------
(***************************************************************************)
(* The calls on worker processes.                                          *)
(***************************************************************************)
LEMMA ListedAlive ==
  ASSUME ObjectInv', NEW v \in WP, InList(v)'
  PROVE  wp'[v].m_State # "Free"
<1> SUFFICES ASSUME wp'[v].m_State = "Free"
             PROVE  FALSE
  OBVIOUS
<1>1. Dead(v)'
  BY DEF Dead
<1>2. ~Terminating(v)'
  <2> SUFFICES ASSUME NEW i \in 1 .. Len(stack'), At(i, "TerminateTail", v)'
               PROVE  FALSE
    BY DEF Terminating
  <2>1. FrameInv(i)'
    BY DEF ObjectInv, FramesInv
  <2> QED
    BY <2>1 DEF FrameInv, Founded, At
<1> QED
  BY <1>1, <1>2 DEF ObjectInv, ListInv, Membership

LEMMA UnmovedRearms ==
  ASSUME ObjectInv', NEW v \in WP, InList(v)', Unmoved(v), Rearms(v)
  PROVE  Rearms(v)'
<1>1. CASE Dead(v)'
  <2>1. wp'[v].m_State = "DeletePending"
    BY <1>1, ListedAlive DEF Dead
  <2> QED
    BY <2>1 DEF Rearms, IsGoingAwaySoon
<1>2. CASE ~Dead(v)'
  BY <1>2 DEF Unmoved, Rearms, IsGoingAwaySoon
<1> QED
  BY <1>1, <1>2

\* The calls that move no object.
LEMMA UnmovedCallsDemand ==
  ASSUME ObjectInv, ObjectInv', RelayInv, DemandInv,
         Dereference \/ DetachHandler \/ DropPredecessor \/ StartupTail \/ MarkAsTerminallyIll
  PROVE  DemandInv'
<1> USE DEF WorkerProcessMethods
<1>0. /\ TypeOK /\ stack # <<>> /\ pool' = pool /\ list' = list /\ MakeCall
      /\ wp \in [WP -> WorkerProcesses]
      /\ Head(stack).fn \notin Leads \cup {"ReplaceAll"}
  BY DEF ObjectInv, QuietInvariant, TypeOK, Dereference, DetachHandler, DropPredecessor,
     StartupTail, MarkAsTerminallyIll, Calling, MakeCall, WorkerProcessCall, Leads
<1>1. PICK w \in WP : w = This
  BY <1>0, CallingWP DEF Dereference, DetachHandler, DropPredecessor, StartupTail,
     MarkAsTerminallyIll
<1>2. PICK frames : Unreplacing(frames) /\ Return(frames)
  <2>1. CASE Dereference \/ DetachHandler \/ DropPredecessor
    BY <2>1, UnreplacingShapes DEF Dereference, DetachHandler, DropPredecessor
  <2>2. CASE StartupTail
    BY <1>1, <2>2, UnreplacingShapes, UnreplacingCalls DEF StartupTail, IllnessReasons
  <2>3. CASE MarkAsTerminallyIll
    <3>1. /\ Call("ReportFailure", w) \in Frames /\ Call("ReportFailure", w).fn = "ReportFailure"
          /\ Call("Terminate", w) \in Frames /\ Call("Terminate", w).fn = "Terminate"
      BY AsideCalls
    <3>2. Unreplacing(<<Call("ReportFailure", w), Call("Terminate", w)>>) /\ Unreplacing(<<>>)
      BY <3>1, UnreplacingShapes
    <3> QED
      BY <1>1, <2>3, <3>2 DEF MarkAsTerminallyIll
  <2> QED
    BY <2>1, <2>2, <2>3
<1>3. ASSUME NEW v \in WP PROVE Unmoved(v)
  <2>1. CASE Dereference \/ DetachHandler \/ DropPredecessor
    BY <2>1, ReleasingUnmoved
  <2>2. CASE StartupTail
    <3>1. wp' = wp \/ wp' = [wp EXCEPT ![w].handle["SendPing"] = "armed"]
      BY <1>1, <2>2 DEF StartupTail
    <3>2. /\ SameLife(wp[v], wp[v])
          /\ SameLife([wp EXCEPT ![w].handle["SendPing"] = "armed"][v], wp[v])
      BY <1>0, SameLifeField
    <3>3. SameLife(wp'[v], wp[v])
      BY <3>1, <3>2, Zenon
    <3> QED
      BY <3>3, SameUnmoved
  <2>3. CASE MarkAsTerminallyIll
    <3>1. \E x : \/ wp' = wp
                 \/ wp' = [wp EXCEPT ![w].m_IgnoredPingDueToDebugger = x]
                 \/ wp' = [wp EXCEPT ![w].m_TerminalIllReason = x]
      BY <1>1, <2>3 DEF MarkAsTerminallyIll
    <3>2. SameLife(wp'[v], wp[v])
      BY <1>0, <3>1, SameLifeField
    <3> QED
      BY <3>2, SameUnmoved
  <2> QED
    BY <2>1, <2>2, <2>3
<1>4. ASSUME NEW v \in WP, InList(v), Rearms(v)
      PROVE  Rearms(v)'
  <2>1. InList(v)'
    BY <1>0, <1>4 DEF InList
  <2> QED
    BY <1>3, <1>4, <2>1, UnmovedRearms
<1> QED
  BY <1>0, <1>2, <1>4, DemandCall

LEMMA InitializeDemand ==
  ASSUME ObjectInv, DemandInv, Initialize
  PROVE  DemandInv'
<1>0. /\ TypeOK /\ stack # <<>> /\ pool' = pool /\ list' = list /\ MakeCall
      /\ wp \in [WP -> WorkerProcesses] /\ Head(stack).fn = "Initialize" /\ Calling("Initialize")
      /\ FrameInv(1) /\ Head(stack) = stack[1]
  BY First DEF ObjectInv, QuietInvariant, TypeOK, Initialize, Calling, MakeCall, WorkerProcessCall
<1>1. PICK w \in WP : w = This
  BY <1>0, CallingWP DEF WorkerProcessMethods
<1>2. PICK outcome \in InitializeOutcomes :
        /\ wp' = [wp EXCEPT ![w] = Initialized(wp[w], outcome)]
        /\ Return(InitializeDone(w, outcome))
  BY <1>1 DEF Initialize
<1>3. Unreplacing(InitializeDone(w, outcome))
  BY UnreplacingShapes, UnreplacingCalls DEF InitializeDone, IllnessReasons
<1>4. wp[w].m_State = "Uninitialized"
  BY <1>0, <1>1 DEF FrameInv, Founded, This
<1> DEFINE s == Initialized(wp[w], outcome)
<1>5. /\ s.m_BeingReplaced = wp[w].m_BeingReplaced
      /\ s.m_NotifiedAppPool = wp[w].m_NotifiedAppPool
      /\ s.m_StartReason = wp[w].m_StartReason
  BY <1>0 DEF Initialized, WorkerProcesses
<1>6. wp'[w] = s /\ \A v \in WP : v # w => wp'[v] = wp[v]
  BY <1>0, <1>2
<1> HIDE DEF s
<1>7. \A v \in WP : Rearms(v) => Rearms(v)'
  BY <1>4, <1>5, <1>6 DEF Rearms, IsGoingAwaySoon
<1> QED
  BY <1>0, <1>2, <1>3, <1>7, DemandCall DEF Leads

\* A process told to shut down is on its way out, or is about to be terminated.
LEMMA ShutdownDemand ==
  ASSUME ObjectInv, RelayInv, DemandInv, Shutdown
  PROVE  DemandInv'
<1>0. /\ TypeOK /\ stack # <<>> /\ pool' = pool /\ list' = list /\ MakeCall
      /\ Head(stack).fn = "Shutdown" /\ Calling("Shutdown") /\ Head(stack) = stack[1]
  BY First DEF ObjectInv, QuietInvariant, TypeOK, Shutdown, Calling, MakeCall, WorkerProcessCall
<1>1. PICK w \in WP : w = This /\ Head(stack).w = w
  BY <1>0, CallingWP DEF WorkerProcessMethods, This
<1>2. PICK frames : Unreplacing(frames) /\ Return(frames)
  <2>1. /\ Ill(w, "InternalError") \in Frames /\ Ill(w, "InternalError").fn = "MarkAsTerminallyIll"
        /\ Call("Dereference", w) \in Frames /\ Call("Dereference", w).fn = "Dereference"
    BY AsideCalls DEF IllnessReasons, WorkerProcessMethods
  <2>2. Unreplacing(<<>>) /\ Unreplacing(ShutdownFailed(w))
    BY <2>1, UnreplacingShapes DEF ShutdownFailed
  <2> QED
    BY <1>1, <2>2 DEF Shutdown
<1>3. /\ \A v \in WP : v # w => wp'[v] = wp[v]
      /\ wp'[w].m_State =
           IF wp[w].m_State = "RegistrationPending" THEN "RegistrationPendingShutdownPending"
           ELSE IF wp[w].m_State = "Running" THEN "ShutdownPending" ELSE wp[w].m_State
      /\ wp'[w].m_StartReason = wp[w].m_StartReason
      /\ wp'[w].m_BeingReplaced = wp[w].m_BeingReplaced
      /\ wp'[w].m_NotifiedAppPool = wp[w].m_NotifiedAppPool
  BY <1>0, <1>1, ShutdownLife
<1>4. \A v \in WP : Rearms(v) => Rearms(v)'
  BY <1>3 DEF Rearms, IsGoingAwaySoon
<1>5. ASSUME InList(w)
      PROVE  Settling(w)'
  <2>0. InList(w)'
    BY <1>0, <1>5 DEF InList
  <2>1. CASE wp[w].m_State = "Uninitialized"
    <3>1. PICK f \in Calls : Begins(f, w)
      BY <2>1 DEF RelayInv, Unborn
    <3>2. PICK i \in 1 .. Len(stack) : f = stack[i]
      BY DEF Calls
    <3>3. f.fn \in {"Initialize", "MarkAsTerminallyIll"} => i = 1
      BY <3>2 DEF ObjectInv, FramesInv, FrameInv, Placed
    <3>4. f.fn = "Terminate" /\ f.w = w /\ f # Head(stack)
      BY <1>0, <3>1, <3>2, <3>3 DEF Begins
    <3>5. f \in Calls'
      BY <1>0, <1>2, <3>4, CallsAfter DEF Unreplacing
    <3> QED
      BY <2>0, <3>4, <3>5 DEF Settling, Leads
  <2>2. CASE wp[w].m_State # "Uninitialized"
    <3>1. wp[w] \in WorkerProcesses /\ wp[w].m_State # "Free"
      BY <1>0, <1>5, Entries DEF TypeOK
    <3>2. wp[w].m_State \in {"RegistrationPending", "RegistrationPendingShutdownPending",
                             "Running", "ShutdownPending", "DeletePending"}
      BY <2>2, <3>1 DEF WorkerProcesses, WorkerProcessStates
    <3>3. IsGoingAwaySoon(w)'
      BY <1>3, <3>2 DEF IsGoingAwaySoon
    <3> QED
      BY <2>0, <3>3 DEF Settling, Rearms
  <2> QED
    BY <2>1, <2>2
<1> QED
  BY <1>0, <1>1, <1>2, <1>4, <1>5, DemandCall

LEMMA ReleaseUnreplacing ==
  ASSUME TypeOK, NEW w \in WP
  PROVE  Unreplacing(ReleasePredecessor(w))
<1>1. Old(w) \in WP \cup {NoWP}
  BY DEF Old, TypeOK, WorkerProcesses
<1>2. CASE Old(w) = NoWP
  BY <1>2, UnreplacingShapes DEF ReleasePredecessor, Old
<1>3. CASE Old(w) \in WP
  <2>1. /\ Call("Shutdown", Old(w)) \in Frames /\ Call("Shutdown", Old(w)).fn = "Shutdown"
        /\ Call("DropPredecessor", w) \in Frames
        /\ Call("DropPredecessor", w).fn = "DropPredecessor"
    BY <1>3, WorkerFrame DEF WorkerProcessMethods, Call
  <2>2. Unreplacing(<<Call("Shutdown", Old(w)), Call("DropPredecessor", w)>>)
    BY <2>1, UnreplacingShapes
  <2> QED
    BY <1>3, <2>2, PointerAssumption DEF ReleasePredecessor, Old
<1> QED
  BY <1>1, <1>2, <1>3

LEMMA TerminateDemand ==
  ASSUME ObjectInv, DemandInv, Terminate
  PROVE  DemandInv'
<1>0. /\ TypeOK /\ stack # <<>> /\ pool' = pool /\ list' = list /\ MakeCall
      /\ wp \in [WP -> WorkerProcesses]
      /\ Head(stack).fn = "Terminate" /\ Calling("Terminate")
  BY DEF ObjectInv, QuietInvariant, TypeOK, Terminate, Calling, MakeCall, WorkerProcessCall
<1>1. PICK w \in WP : w = This /\ Head(stack).w = w
  BY <1>0, CallingWP DEF WorkerProcessMethods, This
<1>2. PICK frames : Unreplacing(frames) /\ Return(frames)
  <2>2. Unreplacing(ReleasePredecessor(w))
    BY <1>0, ReleaseUnreplacing
  <2>3. Unreplacing(<<Call("TerminateTail", w)>>)
    BY UnreplacingCalls DEF WorkerProcessMethods
  <2>4. Unreplacing(ReleasePredecessor(w) \o <<Call("TerminateTail", w)>>)
    BY <2>2, <2>3, UnreplacingConcat
  <2> QED
    BY <1>1, <2>4, UnreplacingShapes DEF Terminate
<1>3. \/ wp' = wp /\ wp[w].m_State = "DeletePending"
      \/ wp' = [wp EXCEPT ![w] = Terminated(wp[w])]
  BY <1>1 DEF Terminate
<1>4. Terminated(wp[w]).m_State = "DeletePending"
  BY <1>0, TerminatedEffect
<1>5. wp'[w].m_State = "DeletePending" /\ \A v \in WP : v # w => wp'[v] = wp[v]
  BY <1>0, <1>3, <1>4
<1>6. Rearms(w)'
  BY <1>5 DEF Rearms, IsGoingAwaySoon
<1>7. \A v \in WP : Rearms(v) => Rearms(v)'
  BY <1>5, <1>6 DEF Rearms, IsGoingAwaySoon
<1>8. InList(w) => Settling(w)'
  BY <1>0, <1>6 DEF Settling, InList
<1> QED
  BY <1>0, <1>1, <1>2, <1>7, <1>8, DemandCall

LEMMA MarkReplacedDemand ==
  ASSUME ObjectInv, DemandInv, MarkReplaced
  PROVE  DemandInv'
<1>0. /\ TypeOK /\ stack # <<>> /\ pool' = pool /\ list' = list /\ MakeCall
      /\ wp \in [WP -> WorkerProcesses] /\ Return(<<>>) /\ Unreplacing(<<>>)
      /\ Head(stack).fn = "MarkReplaced" /\ Calling("MarkReplaced")
  BY UnreplacingShapes DEF ObjectInv, QuietInvariant, TypeOK, MarkReplaced, Calling, MakeCall,
     WorkerProcessCall
<1>1. PICK w \in WP : w = This /\ Head(stack).w = w
  BY <1>0, CallingWP DEF WorkerProcessMethods, This
<1>2. \/ wp' = wp /\ wp[w].m_State = "Free"
      \/ wp' = [wp EXCEPT ![w].m_BeingReplaced = TRUE]
  BY <1>1 DEF MarkReplaced
<1>3. /\ \A v \in WP : v # w => wp'[v] = wp[v]
      /\ wp[w].m_State = "Free" \/ wp'[w].m_BeingReplaced
  BY <1>0, <1>2 DEF WorkerProcesses
<1>4. InList(w) => Rearms(w)'
  BY <1>3, Entries DEF Rearms, IsGoingAwaySoon
<1>5. \A v \in WP : InList(v) /\ Rearms(v) => Rearms(v)'
  BY <1>3, <1>4 DEF Rearms, IsGoingAwaySoon
<1>6. InList(w) => Settling(w)'
  BY <1>0, <1>4 DEF Settling, InList
<1> QED
  BY <1>0, <1>1, <1>5, <1>6, DemandCall

LEMMA JoinedList ==
  ASSUME TypeOK, NEW new \in WP, list' = <<new>> \o list
  PROVE  /\ Len(list') = Len(list) + 1
         /\ \A v \in WP : InList(v) \/ v = new => InList(v)'
<1> DEFINE one == <<new>>
<1>1. list \in Seq(WP) /\ one \in Seq(WP) /\ Len(one) = 1 /\ one[1] = new /\ list' = one \o list
  BY DEF TypeOK
<1> HIDE DEF one
<1>2. /\ list' \in Seq(WP) /\ Len(list') = Len(list) + 1 /\ Len(list) \in Nat
      /\ list'[1] = new /\ \A i \in 1 .. Len(list) : list'[i + 1] = list[i]
  BY <1>1
<1>3. ASSUME NEW v \in WP, InList(v) PROVE InList(v)'
  <2>1. PICK i \in 1 .. Len(list) : list[i] = v
    BY <1>1, <1>3 DEF InList, ToSet
  <2>2. PICK j \in 1 .. Len(list') : list'[j] = v
    <3>1. i + 1 \in 1 .. Len(list') /\ list'[i + 1] = v
      BY <1>2, <2>1
    <3> QED
      BY <3>1
  <2>3. DOMAIN list' = 1 .. Len(list')
    BY <1>2
  <2> QED
    BY <2>2, <2>3, Zenon DEF InList, ToSet
<1>4. InList(new)'
  <2>1. 1 \in 1 .. Len(list')
    BY <1>2
  <2> QED
    BY <1>2, <2>1 DEF InList, ToSet
<1> QED
  BY <1>2, <1>3, <1>4

\* A process that is to be replaced is in the list, and it is on its way out already, is told
\* to shut down, or is marked when its replacement has been initialized.
LEMMA InitiateReplacementDemand ==
  ASSUME ObjectInv, DemandInv, InitiateReplacement
  PROVE  DemandInv'
<1>0. /\ TypeOK /\ stack # <<>> /\ MakeCall /\ Head(stack).fn = "InitiateReplacement"
      /\ Calling("InitiateReplacement") /\ pool \in AppPools
  BY DEF ObjectInv, QuietInvariant, TypeOK, InitiateReplacement, Calling, MakeCall,
     WorkerProcessCall
<1>1. PICK w \in WP : w = This /\ Head(stack).w = w
  BY <1>0, CallingWP DEF WorkerProcessMethods, This
<1>2. <<>> \in Seq(Frames) /\ Head(stack) \in Calls
  <2>1. <<>> \in Seq(Frames)
    OBVIOUS
  <2>2. 1 \in 1 .. Len(stack) /\ Head(stack) = stack[1]
    BY <1>0, First
  <2> QED
    BY <2>1, <2>2 DEF Calls
<1>3. ~Covered' => InList(w)
  <2>1. ~Covered' => ~Covered
    BY <1>0, CoveredStays
  <2> QED
    BY <1>0, <1>1, <1>2, <2>1 DEF DemandInv, Summoned
<1>4. Roomy'
  <2>1. pool' = pool \/ pool' = Staggered(pool)
    BY DEF InitiateReplacement
  <2>2. /\ Staggered(pool).m_MaxProcessesToLaunch =
             IF list = <<>> THEN pool.maxProcesses ELSE pool.m_MaxProcessesToLaunch
        /\ Staggered(pool).m_State = pool.m_State
        /\ pool.maxProcesses >= 1
    BY <1>0, StaggeredMax, PoolFields
  <2> QED
    BY <2>1, <2>2 DEF DemandInv, Roomy
<1>5. ASSUME NEW frames, Unreplacing(frames), Return(frames), ~Covered' => Settling(w)'
      PROVE  DemandInv'
  <2>1. Summoned'
    BY <1>0, <1>5, SummonedCall DEF Unreplacing
  <2>2. Armed'
    BY <1>5 DEF Armed, Reason
  <2> QED
    BY <1>4, <2>1, <2>2 DEF DemandInv
<1>6. CASE wp[w].m_BeingReplaced /\ wp' = wp /\ list' = list /\ Return(<<>>)
  <2>1. InList(w) => Settling(w)'
    BY <1>6 DEF Settling, Rearms, IsGoingAwaySoon, InList
  <2> QED
    BY <1>3, <1>5, <1>6, <2>1, UnreplacingShapes
<1>7. CASE wp' = wp /\ list' = list /\ Return(ReplacementRefused(w))
  <2> DEFINE f == Call("Shutdown", w)
             frames == <<f>>
  <2>1. Unreplacing(frames) /\ Return(frames) /\ f.fn = "Shutdown" /\ f.w = w
    BY <1>7, UnreplacingCalls DEF ReplacementRefused, Call, WorkerProcessMethods
  <2>2. frames[1] = f /\ 1 \in 1 .. Len(frames)
    OBVIOUS
  <2> HIDE DEF f, frames
  <2>3. f \in Calls'
    BY <1>0, <2>1, <2>2, CallsAfter DEF Unreplacing
  <2>4. InList(w) => Settling(w)'
    BY <1>7, <2>1, <2>3 DEF Settling, Leads, InList
  <2> QED
    BY <1>3, <1>5, <2>1, <2>4
<1>8. ASSUME NEW new \in FreeMemory,
             list' = <<new>> \o list,
             Return(<<Call("Initialize", new), Call("MarkReplaced", w)>>)
      PROVE  DemandInv'
  <2>0. new \in WP
    BY DEF FreeMemory
  <2> DEFINE f == Call("MarkReplaced", w)
             g == Call("Initialize", new)
             frames == <<g, f>>
  <2>1. /\ f \in Frames /\ g \in Frames /\ f.fn = "MarkReplaced" /\ f.w = w
        /\ g.fn = "Initialize" /\ Return(frames)
    BY <1>8, <2>0, WorkerFrame DEF Call, WorkerProcessMethods
  <2>2. frames[2] = f /\ 2 \in 1 .. Len(frames)
    OBVIOUS
  <2>3. Unreplacing(frames)
    BY <2>1, UnreplacingShapes
  <2> HIDE DEF f, g, frames
  <2>4. f \in Calls'
    BY <1>0, <2>1, <2>2, <2>3, CallsAfter DEF Unreplacing
  <2>5. InList(w) => Settling(w)'
    BY <1>0, <1>8, <2>0, <2>1, <2>4, JoinedList DEF Settling, Leads
  <2> QED
    BY <1>3, <1>5, <2>1, <2>3, <2>5
<1> QED
  BY <1>1, <1>6, <1>7, <1>8 DEF InitiateReplacement

\* The pool looks for room when a process has been taken out of the list, and whatever may fail,
\* the wait it then issues does not.
LEMMA WaitIssued ==
  ASSUME "WaitForDemandStart" \notin Failures, NEW waiting \in BOOLEAN, NEW ok \in BOOLEAN,
         NEW waits \in WaitForDemandStartIfNeeded(waiting, ok)
  PROVE  waits \in BOOLEAN /\ (waiting => waits) /\ (ok => waits)
<1>1. MayFail("WaitForDemandStart") = {FALSE}
  BY DEF MayFail
<1>2. CASE ok /\ ~waiting
  <2>1. waits \in {~failed : failed \in {FALSE}}
    BY <1>1, <1>2 DEF WaitForDemandStartIfNeeded
  <2> QED
    BY <2>1
<1>3. CASE ~(ok /\ ~waiting)
  BY <1>3, Zenon DEF WaitForDemandStartIfNeeded
<1> QED
  BY <1>2, <1>3

LEMMA UnlinkedLength ==
  ASSUME ObjectInv, NEW w \in WP, InList(w)
  PROVE  Len(Unlinked(w)) = Len(list) - 1
<1>1. list \in Seq(WP) /\ Len(list) \in Nat
  BY DEF ObjectInv, QuietInvariant, TypeOK
<1>2. PICK p : p = Position(w)
  OBVIOUS
<1>3. p \in 1 .. Len(list)
  <2>1. \E i \in DOMAIN list : list[i] = w
    BY <1>1 DEF InList, ToSet
  <2> QED
    BY <1>1, <1>2, <2>1 DEF Position
<1> DEFINE a == SubSeq(list, 1, p - 1)
           b == SubSeq(list, p + 1, Len(list))
<1>4. Unlinked(w) = a \o b
  BY <1>2 DEF Unlinked, RemoveAt
<1>5. a \in Seq(WP) /\ Len(a) = p - 1 /\ b \in Seq(WP) /\ Len(b) = Len(list) - p
  BY <1>1, <1>3
<1> HIDE DEF a, b
<1>6. Len(a \o b) = Len(a) + Len(b)
  BY <1>5
<1>7. (p - 1) + (Len(list) - p) = Len(list) - 1
  BY <1>1, <1>3
<1> QED
  BY <1>4, <1>5, <1>6, <1>7

LEMMA TerminateTailDemand ==
  ASSUME "WaitForDemandStart" \notin Failures, ObjectInv, DemandInv, TerminateTail
  PROVE  DemandInv'
<1>0. stack # <<>> /\ Calling("TerminateTail") /\ TypeOK /\ pool \in AppPools
  BY DEF TerminateTail, Calling, ObjectInv, QuietInvariant, TypeOK
<1>1. PICK w \in WP : w = This
  BY <1>0, CallingWP DEF WorkerProcessMethods
<1>2. /\ MakeCall /\ list' = Unlinked(w) /\ InList(w) /\ Return(ShutdownNowCompleted(list'))
  BY <1>1, TerminateTailEffect
<1>3. Unreplacing(ShutdownNowCompleted(list'))
  BY UnreplacingShapes, UnreplacingCalls DEF ShutdownNowCompleted, AppPoolMethods
<1>4. Summoned'
  BY <1>2, <1>3, SummonedCall DEF Unreplacing
<1>5. PICK first, waits :
        /\ \/ first = pool.m_WaitingForDemandStart
           \/ first \in StartupAttemptDone(wp[w].m_StartReason, Len(list))
        /\ waits \in WaitsAfterRemoval(first)
        /\ pool' = [pool EXCEPT !.m_WaitingForDemandStart = waits]
  BY <1>1 DEF TerminateTail
<1>6. [pool EXCEPT !.m_WaitingForDemandStart = waits].m_MaxProcessesToLaunch
        = pool.m_MaxProcessesToLaunch
      /\ [pool EXCEPT !.m_WaitingForDemandStart = waits].m_WaitingForDemandStart = waits
      /\ [pool EXCEPT !.m_WaitingForDemandStart = waits].m_State = pool.m_State
  BY <1>0, PoolFields
<1>7. /\ pool'.m_MaxProcessesToLaunch = pool.m_MaxProcessesToLaunch
      /\ pool'.m_WaitingForDemandStart = waits /\ pool'.m_State = pool.m_State
  BY <1>5, <1>6, Zenon
<1>8. Roomy'
  BY <1>7 DEF DemandInv, Roomy
<1>9. pool.m_WaitingForDemandStart \in BOOLEAN /\ \A n : IsOkToCreateWorkerProcess(n) \in BOOLEAN
  BY <1>0 DEF AppPools, IsOkToCreateWorkerProcess
<1>10. first \in BOOLEAN
  BY <1>5, <1>9, WaitIssued DEF StartupAttemptDone
<1>11. IsOkToCreateWorkerProcess(Len(list) - 1) => waits
  BY <1>5, <1>9, <1>10, WaitIssued DEF WaitsAfterRemoval
<1>12. ~Covered' /\ Room' => waits
  BY <1>2, <1>7, <1>11, UnlinkedLength DEF Covered, Room, IsOkToCreateWorkerProcess
<1>13. Armed'
  BY <1>7, <1>12 DEF Armed, Reason
<1> QED
  BY <1>4, <1>8, <1>13 DEF DemandInv

LEMMA CallsDemand ==
  ASSUME "WaitForDemandStart" \notin Failures, ObjectInv, ObjectInv', RelayInv, DemandInv, MakeCall
  PROVE  DemandInv'
  BY PoolCallsDemand, ConfigChangeDemand, ReplaceAllDemand, UnmovedCallsDemand, InitializeDemand,
     ShutdownDemand, TerminateDemand, MarkReplacedDemand, InitiateReplacementDemand,
     TerminateTailDemand
     DEF MakeCall, WorkerProcessCall

-----------------------------------------------------------------------------
(***************************************************************************)
(* Between work items.                                                     *)
(***************************************************************************)
LEMMA SummonedIdle ==
  ASSUME Unreplacing(stack')
  PROVE  Summoned'
  BY DEF Unreplacing, Summoned, Calls

\* A step between work items that keeps the settings, the list and every reason.
LEMMA DemandIdle ==
  ASSUME DemandInv, stack = <<>>, list' = list,
         pool'.m_MaxProcessesToLaunch = pool.m_MaxProcessesToLaunch,
         pool.m_WaitingForDemandStart => pool'.m_WaitingForDemandStart,
         pool'.m_State = "Running" => pool.m_State = "Running",
         \A v \in WP : Rearms(v) => Rearms(v)',
         Summoned'
  PROVE  DemandInv'
<1>1. Calls = {} /\ (Covered <=> pool.m_State # "Running")
  <2>1. ~Disabling(stack)
    BY DEF Disabling
  <2> QED
    BY <2>1, CallsEmpty DEF Covered
<1>2. Roomy'
  BY DEF DemandInv, Roomy
<1>3. Armed'
  <2> SUFFICES ASSUME ~Covered', Room'
               PROVE  Reason'
    BY DEF Armed
  <2>1. ~Covered /\ Room
    BY <1>1 DEF Covered, Room
  <2>2. Reason
    BY <2>1 DEF DemandInv, Armed
  <2>3. \A v \in WP : Settling(v) => Settling(v)'
    BY <1>1 DEF Settling, InList
  <2> QED
    BY <1>1, <2>2, <2>3 DEF Reason, Walking
<1> QED
  BY <1>2, <1>3 DEF DemandInv

LEMMA SameDemandIdle ==
  ASSUME DemandInv, stack = <<>>, list' = list, pool' = pool,
         \A v \in WP : SameLife(wp'[v], wp[v]), Summoned'
  PROVE  DemandInv'
  BY SameRearms, DemandIdle

\* A step that looks for room itself.
LEMMA RoomLookedFor ==
  ASSUME pool'.m_State = "Running" =>
           pool'.m_MaxProcessesToLaunch >= 1 /\ (Room' => pool'.m_WaitingForDemandStart),
         Summoned'
  PROVE  DemandInv'
<1>1. Armed'
  BY DEF Armed, Reason, Covered
<1>2. Roomy'
  BY DEF Roomy
<1> QED
  BY <1>1, <1>2 DEF DemandInv

\* A pool that is started looks for room once it has picked up the configured maximum.
LEMMA StartedLooks ==
  ASSUME "WaitForDemandStart" \notin Failures, NEW p \in AppPools, NEW q \in Started(p)
  PROVE  \/ q = p
         \/ q.m_State = "Running" =>
              /\ q.m_MaxProcessesToLaunch >= 1
              /\ Len(list) < q.m_MaxProcessesToLaunch => q.m_WaitingForDemandStart
<1> SUFFICES ASSUME q # p
             PROVE  q.m_State = "Running" =>
                      /\ q.m_MaxProcessesToLaunch >= 1
                      /\ Len(list) < q.m_MaxProcessesToLaunch => q.m_WaitingForDemandStart
  OBVIOUS
<1>1. p.m_State # "Running" /\ q \in Enable(p)
  BY DEF Started
<1> DEFINE r == ResetStaggering(p)
           s == [r EXCEPT !.m_RecentWorkerProcessFailures = 0]
<1>2. r \in AppPools /\ r.m_State = p.m_State /\ r.m_MaxProcessesToLaunch >= 1
      /\ r.m_MaxProcessesToLaunch \in Nat
  <2>1. r \in AppPools
    BY SettingsAssumption DEF ResetStaggering, AppPools
  <2> QED
    BY <2>1, PoolFields
<1> HIDE DEF r
<1>3. s \in AppPools /\ s.m_State = p.m_State /\ s.m_MaxProcessesToLaunch = r.m_MaxProcessesToLaunch
  BY <1>2, SettingsAssumption DEF AppPools
<1>4. q \in {s : failed \in MayFail("EnableHttp") \cap {TRUE}}
     \cup {[s EXCEPT !.m_State = "Running", !.m_WaitingForDemandStart = waits] :
            waits \in WaitForDemandStartIfNeeded(p.m_WaitingForDemandStart,
                        Len(list) < s.m_MaxProcessesToLaunch)}
  BY <1>1 DEF Enable, r
<1> HIDE DEF s
<1>5. q = s \/ \E waits \in WaitForDemandStartIfNeeded(p.m_WaitingForDemandStart,
                              Len(list) < s.m_MaxProcessesToLaunch) :
                 q = [s EXCEPT !.m_State = "Running", !.m_WaitingForDemandStart = waits]
  BY <1>4, Zenon
<1>6. CASE q = s
  BY <1>1, <1>3, <1>6
<1>7. ASSUME NEW waits \in WaitForDemandStartIfNeeded(p.m_WaitingForDemandStart,
                              Len(list) < s.m_MaxProcessesToLaunch),
             q = [s EXCEPT !.m_State = "Running", !.m_WaitingForDemandStart = waits]
      PROVE  /\ q.m_MaxProcessesToLaunch >= 1
             /\ Len(list) < q.m_MaxProcessesToLaunch => q.m_WaitingForDemandStart
  <2>1. q.m_MaxProcessesToLaunch = s.m_MaxProcessesToLaunch /\ q.m_WaitingForDemandStart = waits
    BY <1>3, <1>7, Zenon DEF AppPools
  <2>2. p.m_WaitingForDemandStart \in BOOLEAN /\ (Len(list) < s.m_MaxProcessesToLaunch) \in BOOLEAN
    BY DEF AppPools
  <2>3. Len(list) < s.m_MaxProcessesToLaunch => waits
    BY <2>2, WaitIssued
  <2> QED
    BY <1>2, <1>3, <2>1, <2>3
<1> QED
  BY <1>5, <1>6, <1>7

\* The pools that are constructed do not run.
LEMMA ConstructedIdle ==
  ASSUME NEW p \in ConstructedPools
  PROVE  p \in AppPools /\ p.m_State # "Running"
  BY ConstructedPoolsType DEF ConstructedPools

LEMMA EventsUnreplacing ==
  ASSUME TypeOK, AppPoolEvent
  PROVE  Summoned'
<1>0. stack = <<>>
  BY DEF AppPoolEvent, FlowedStart, FlowedStop, SetConfiguration, RecycleWorkerProcesses,
     PoolShutdown, DeletePool, CreatePool, DemandArrives, Idle
<1>1. Unreplacing(<<>>) /\ \A fn \in AppPoolMethods : Unreplacing(<<Call(fn, NoWP)>>)
  BY UnreplacingShapes, UnreplacingCalls
<1>2. CASE SetConfiguration
  <2>1. PICK stop, rotate :
          /\ stop = <<>> \/ stop = <<Call("DisableAppPool", NoWP)>>
          /\ rotate = <<>> \/ rotate = <<Call("ConfigChange", NoWP)>>
          /\ stack' = stop \o rotate
    BY <1>2 DEF SetConfiguration
  <2>2. Unreplacing(stop) /\ Unreplacing(rotate)
    BY <1>1, <2>1 DEF AppPoolMethods
  <2> QED
    BY <2>1, <2>2, UnreplacingConcat, SummonedIdle
<1>3. CASE RecycleWorkerProcesses
  BY <1>3, ListType, UnreplacingCalls, SummonedIdle DEF RecycleWorkerProcesses, Walks
<1>4. CASE PoolShutdown
  <2>1. /\ Unreplacing(WalkFrom("ShutdownAll", FirstEntry))
        /\ Unreplacing(<<Call("CheckShutdown", NoWP)>>)
    BY <1>1, ListType, UnreplacingCalls DEF Walks, AppPoolMethods
  <2> QED
    BY <1>4, <2>1, UnreplacingConcat, SummonedIdle DEF PoolShutdown
<1>5. CASE FlowedStart \/ FlowedStop \/ DeletePool \/ CreatePool \/ DemandArrives
  <2>1. Unreplacing(stack')
    BY <1>0, <1>1, <1>5 DEF FlowedStart, FlowedStop, DeletePool, CreatePool, DemandArrives,
       AppPoolMethods
  <2> QED
    BY <2>1, SummonedIdle
<1> QED
  BY <1>2, <1>3, <1>4, <1>5 DEF AppPoolEvent

\* A start of the pool, of one that may be running already.
LEMMA StartedDemand ==
  ASSUME "WaitForDemandStart" \notin Failures, DemandInv, Summoned', stack = <<>>, list' = list,
         wp' = wp, NEW p \in AppPools, pool' \in Started(p),
         p.m_MaxProcessesToLaunch = pool.m_MaxProcessesToLaunch,
         p.m_WaitingForDemandStart = pool.m_WaitingForDemandStart,
         p.m_State = pool.m_State
  PROVE  DemandInv'
<1>1. CASE pool' = p
  <2>1. \A v \in WP : Rearms(v) => Rearms(v)'
    BY DEF Rearms, IsGoingAwaySoon
  <2> QED
    BY <1>1, <2>1, DemandIdle
<1>2. CASE pool'.m_State = "Running" =>
             /\ pool'.m_MaxProcessesToLaunch >= 1
             /\ Len(list) < pool'.m_MaxProcessesToLaunch => pool'.m_WaitingForDemandStart
  BY <1>2, RoomLookedFor DEF Room
<1> QED
  BY <1>1, <1>2, StartedLooks

LEMMA AppPoolEventDemand ==
  ASSUME "WaitForDemandStart" \notin Failures, ObjectInv, DemandInv, AppPoolEvent
  PROVE  DemandInv'
<1>0. /\ TypeOK /\ pool \in AppPools /\ stack = <<>> /\ wp' = wp /\ list' = list
      /\ \A v \in WP : Rearms(v) => Rearms(v)'
  BY DEF ObjectInv, QuietInvariant, TypeOK, Rearms, IsGoingAwaySoon, AppPoolEvent, FlowedStart,
     FlowedStop, SetConfiguration, RecycleWorkerProcesses, PoolShutdown, DeletePool, CreatePool,
     DemandArrives, Idle
<1>1. Summoned'
  BY <1>0, EventsUnreplacing
<1>2. CASE FlowedStop \/ DeletePool \/ DemandArrives
  <2>1. pool' = pool
    BY <1>2 DEF FlowedStop, DeletePool, DemandArrives
  <2> QED
    BY <1>0, <1>1, <2>1, DemandIdle
<1>3. CASE PoolShutdown
  <2>1. pool' = [pool EXCEPT !.m_State = "ShutdownPending"]
    BY <1>3 DEF PoolShutdown
  <2>2. pool'.m_State = "ShutdownPending"
    BY <1>0, <2>1 DEF AppPools
  <2> QED
    BY <1>1, <2>2, RoomLookedFor
<1>4. CASE FlowedStart
  BY <1>0, <1>1, <1>4, StartedDemand DEF FlowedStart
<1>5. CASE SetConfiguration
  <2>1. PICK n \in MaxProcessesSettings, o \in OverlapSettings, r \in RotateSettings, b \in BOOLEAN :
          LET p == [pool EXCEPT !.maxProcesses = n, !.overlap = o, !.rotate = r, !.autoStart = b]
          IN  pool' \in Started(p) \/ pool' = p
    <3>1. PICK n \in MaxProcessesSettings, o \in OverlapSettings, r \in RotateSettings,
               cmd \in {"none", "START", "STOP"} :
            LET p == [pool EXCEPT !.maxProcesses = n, !.overlap = o, !.rotate = r,
                              !.autoStart = IF cmd = "none" THEN @ ELSE cmd = "START"]
            IN  pool' \in (IF cmd = "START" THEN Started(p) ELSE {p})
      BY <1>5 DEF SetConfiguration
    <3> DEFINE b == IF cmd = "none" THEN pool.autoStart ELSE cmd = "START"
    <3>2. b \in BOOLEAN
      BY <1>0 DEF AppPools
    <3> QED
      BY <3>1, <3>2
  <2> DEFINE p == [pool EXCEPT !.maxProcesses = n, !.overlap = o, !.rotate = r, !.autoStart = b]
  <2>2. p \in AppPools
    BY <1>0 DEF AppPools
  <2>3. /\ p.m_MaxProcessesToLaunch = pool.m_MaxProcessesToLaunch
        /\ p.m_WaitingForDemandStart = pool.m_WaitingForDemandStart
        /\ p.m_State = pool.m_State
    BY <1>0, Zenon DEF AppPools
  <2>4. pool' \in Started(p) \/ pool' = p
    BY <2>1
  <2> HIDE DEF p
  <2>5. CASE pool' \in Started(p)
    BY <1>0, <1>1, <2>2, <2>3, <2>5, StartedDemand
  <2>6. CASE pool' = p
    BY <1>0, <1>1, <2>3, <2>6, DemandIdle
  <2> QED
    BY <2>4, <2>5, <2>6
<1>6. CASE RecycleWorkerProcesses
  <2>1. pool' = ResetStaggering(pool) /\ stack' = WalkFrom("ReplaceAll", FirstEntry)
        /\ pool.m_State = "Running"
    BY <1>6 DEF RecycleWorkerProcesses
  <2>2. /\ pool'.m_WaitingForDemandStart = pool.m_WaitingForDemandStart
        /\ pool'.m_MaxProcessesToLaunch >= 1
    BY <1>0, <2>1, PoolFields
  <2>3. Reason'
    <3>1. CASE list # <<>>
      <4>1. list[1] \in WP
        BY <3>1, Entries
      <4> DEFINE f == Call("ReplaceAll", list[1])
      <4>2. f.fn = "ReplaceAll" /\ f.w \in WP /\ stack' = <<f>>
        BY <2>1, <3>1, <4>1, PointerAssumption DEF WalkFrom, FirstEntry, Call
      <4> HIDE DEF f
      <4>3. f \in Calls'
        BY <4>2 DEF Calls
      <4> QED
        BY <4>2, <4>3 DEF Reason, Walking
    <3>2. CASE list = <<>>
      <4>1. ~Covered
        BY <1>0, <2>1 DEF Covered, Disabling
      <4>2. Room
        <5>1. pool.m_MaxProcessesToLaunch >= 1 /\ pool.m_MaxProcessesToLaunch \in Nat
          BY <1>0, <2>1 DEF DemandInv, Roomy, AppPools
        <5> QED
          BY <3>2, <5>1 DEF Room
      <4>3. Reason /\ Calls = {}
        BY <1>0, <4>1, <4>2, CallsEmpty DEF DemandInv, Armed
      <4>4. \A w \in WP : ~InList(w)
        BY <3>2 DEF InList, ToSet
      <4> QED
        BY <2>2, <4>3, <4>4 DEF Reason, Walking, Settling
    <3> QED
      BY <3>1, <3>2
  <2> QED
    BY <1>1, <2>2, <2>3 DEF DemandInv, Armed, Roomy
<1>7. CASE CreatePool
  <2>1. PICK p \in ConstructedPools : pool' \in Started(p)
    BY <1>7 DEF CreatePool, InitializedPools
  <2>2. p \in AppPools /\ p.m_State # "Running"
    BY ConstructedIdle
  <2>3. pool'.m_State = "Running" =>
             /\ pool'.m_MaxProcessesToLaunch >= 1
             /\ Len(list) < pool'.m_MaxProcessesToLaunch => pool'.m_WaitingForDemandStart
    BY <2>1, <2>2, StartedLooks
  <2> QED
    BY <1>0, <1>1, <2>3, RoomLookedFor DEF Room
<1> QED
  BY <1>2, <1>3, <1>4, <1>5, <1>6, <1>7 DEF AppPoolEvent

\* A demand finds no room, makes a process that will look for room when it has started, or
\* fails to and looks for room.
LEMMA DemandStartDemand ==
  ASSUME "WaitForDemandStart" \notin Failures, ObjectInv, DemandInv, DemandStart
  PROVE  DemandInv'
<1>0. TypeOK /\ pool \in AppPools /\ stack = <<>> /\ Unreplacing(<<>>)
  BY UnreplacingShapes DEF ObjectInv, QuietInvariant, TypeOK, DemandStart, Take, Idle
<1>1. CASE /\ ~IsOkToCreateWorkerProcess(Len(list))
           /\ pool' = [pool EXCEPT !.m_WaitingForDemandStart = FALSE]
           /\ list' = list /\ stack' = stack
  <2>1. /\ [pool EXCEPT !.m_WaitingForDemandStart = FALSE].m_MaxProcessesToLaunch
             = pool.m_MaxProcessesToLaunch
        /\ [pool EXCEPT !.m_WaitingForDemandStart = FALSE].m_State = pool.m_State
    BY <1>0, PoolFields
  <2>2. pool'.m_MaxProcessesToLaunch = pool.m_MaxProcessesToLaunch /\ pool'.m_State = pool.m_State
    BY <1>1, <2>1, Zenon
  <2>3. pool'.m_State = "Running" => pool'.m_MaxProcessesToLaunch >= 1 /\ ~Room'
    BY <1>1, <2>2 DEF DemandInv, Roomy, Room, IsOkToCreateWorkerProcess
  <2> QED
    BY <1>0, <1>1, <2>3, SummonedIdle, RoomLookedFor
<1>2. ASSUME NEW new \in FreeMemory, IsOkToCreateWorkerProcess(Len(list)),
             pool' = [Staggered(pool) EXCEPT !.m_WaitingForDemandStart = FALSE],
             wp' = Constructed(new, "DemandStart", NoWP),
             list' = <<new>> \o list,
             stack' = <<Call("Initialize", new)>>
      PROVE  DemandInv'
  <2>1. new \in WP /\ NoWP # new
    BY PointerAssumption DEF FreeMemory
  <2>2. wp'[new].m_StartReason = "DemandStart" /\ ~wp'[new].m_NotifiedAppPool
    BY <1>0, <1>2, <2>1, NewLife
  <2>3. Settling(new)'
    BY <1>0, <1>2, <2>1, <2>2, JoinedList DEF Settling, Rearms
  <2>4. Summoned'
    BY <1>2, <2>1, UnreplacingCalls, SummonedIdle DEF WorkerProcessMethods
  <2>5. /\ Staggered(pool) \in AppPools
        /\ Staggered(pool).m_MaxProcessesToLaunch =
             IF list = <<>> THEN pool.maxProcesses ELSE pool.m_MaxProcessesToLaunch
        /\ pool.maxProcesses >= 1 /\ pool.m_State = "Running"
    BY <1>0, <1>2, StaggeredMax, PoolFields DEF IsOkToCreateWorkerProcess
  <2>6. [Staggered(pool) EXCEPT !.m_WaitingForDemandStart = FALSE].m_MaxProcessesToLaunch
          = Staggered(pool).m_MaxProcessesToLaunch
    BY <2>5, PoolFields
  <2>7. pool'.m_MaxProcessesToLaunch = Staggered(pool).m_MaxProcessesToLaunch
    BY <1>2, <2>6, Zenon
  <2>8. Roomy'
    BY <2>5, <2>7 DEF DemandInv, Roomy
  <2> QED
    BY <2>1, <2>3, <2>4, <2>8 DEF DemandInv, Armed, Reason
<1>3. ASSUME IsOkToCreateWorkerProcess(Len(list)), list' = list, stack' = stack,
             NEW waits \in WaitForDemandStartIfNeeded(FALSE,
                             Len(list) < Staggered(pool).m_MaxProcessesToLaunch),
             pool' = [Staggered(pool) EXCEPT !.m_WaitingForDemandStart = waits]
      PROVE  DemandInv'
  <2>1. /\ Staggered(pool) \in AppPools
        /\ Staggered(pool).m_MaxProcessesToLaunch =
             IF list = <<>> THEN pool.maxProcesses ELSE pool.m_MaxProcessesToLaunch
        /\ pool.maxProcesses >= 1 /\ pool.m_State = "Running"
    BY <1>0, <1>3, StaggeredMax, PoolFields DEF IsOkToCreateWorkerProcess
  <2>2. /\ [Staggered(pool) EXCEPT !.m_WaitingForDemandStart = waits].m_MaxProcessesToLaunch
             = Staggered(pool).m_MaxProcessesToLaunch
        /\ [Staggered(pool) EXCEPT !.m_WaitingForDemandStart = waits].m_WaitingForDemandStart = waits
    BY <2>1, PoolFields
  <2>3. /\ pool'.m_MaxProcessesToLaunch = Staggered(pool).m_MaxProcessesToLaunch
        /\ pool'.m_WaitingForDemandStart = waits
    BY <1>3, <2>2, Zenon
  <2>4. (Len(list) < Staggered(pool).m_MaxProcessesToLaunch) \in BOOLEAN
    OBVIOUS
  <2>5. Len(list) < Staggered(pool).m_MaxProcessesToLaunch => waits
    BY <2>4, WaitIssued
  <2>6. Room' => waits
    BY <1>3, <2>3, <2>5 DEF Room
  <2>7. pool'.m_MaxProcessesToLaunch >= 1
    BY <2>1, <2>3 DEF DemandInv, Roomy
  <2> QED
    BY <1>0, <1>3, <2>3, <2>6, <2>7, SummonedIdle, RoomLookedFor
<1> QED
  BY <1>1, <1>2, <1>3 DEF DemandStart

LEMMA WorkItemsDemand ==
  ASSUME TypeOK, DemandInv, WorkerProcessWorkItem
  PROVE  DemandInv'
<1>1. PICK op \in Handles : Take(op)
  BY DEF WorkerProcessWorkItem, StartupTimerExpired, ShutdownTimerExpired, ProcessHandleSignaled,
     SendPing, PingResponseTimerExpired, TakeOwn, Handles
<1>2. PICK w \in WP : w = Head(queue).w
  BY <1>1, TakenItem
<1>3. /\ Unreplacing(<<>>) /\ \A why \in IllnessReasons : Unreplacing(<<Ill(w, why)>>)
      /\ Unreplacing(<<Call("Terminate", w)>>) /\ Unreplacing(<<Call("Dereference", w)>>)
  BY UnreplacingShapes, UnreplacingCalls DEF WorkerProcessMethods
<1>4. PICK frames : Unreplacing(frames) /\ Done(w, frames)
  BY <1>2, <1>3 DEF WorkerProcessWorkItem, StartupTimerExpired, ShutdownTimerExpired,
     ProcessHandleSignaled, SendPing, PingResponseTimerExpired, ProcessEnded, IllnessReasons
<1>5. Summoned'
  BY <1>3, <1>4, UnreplacingConcat, SummonedIdle DEF Done
<1>6. pool' = pool /\ list' = list
  BY DEF WorkerProcessWorkItem, StartupTimerExpired, ShutdownTimerExpired, ProcessHandleSignaled,
     SendPing, PingResponseTimerExpired, TakeOwn
<1> QED
  BY <1>5, <1>6, WorkItemsLife, SameDemandIdle

\* The process that asks to be recycled is running, so it is in the list.
LEMMA OtherMessagesDemand ==
  ASSUME ObjectInv, DemandInv, Message, ~HandleHresultOk
  PROVE  DemandInv'
<1>1. ASSUME NEW w \in WP
      PROVE  /\ \A why \in IllnessReasons : Unreplacing(<<Ill(w, why)>>)
             /\ Unreplacing(<<Call("Shutdown", w)>>) /\ Unreplacing(<<Call("DetachHandler", w)>>)
  BY UnreplacingCalls DEF WorkerProcessMethods
<1>2. Unreplacing(<<>>)
  BY UnreplacingShapes
<1>3. ASSUME NEW w \in WP, stack' = <<Call("InitiateReplacement", w)>>, wp[w].m_State = "Running"
      PROVE  Summoned'
  <2>1. InList(w)'
    BY <1>3, OtherMessagesLife DEF ObjectInv, ListInv, Membership, Dead, InList
  <2>2. \A f \in Calls' : f = Call("InitiateReplacement", w)
    BY <1>3 DEF Calls
  <2> QED
    BY <2>1, <2>2 DEF Summoned, Call
<1>4. Summoned'
  BY <1>1, <1>2, <1>3, OtherMessagesLife, UnreplacingConcat, SummonedIdle
<1> QED
  BY <1>4, OtherMessagesLife, SameDemandIdle

\* A process that has started looks for room if a demand started it; one that was told to shut
\* down meanwhile is told again.
LEMMA HresultOkDemand ==
  ASSUME "WaitForDemandStart" \notin Failures, ObjectInv, DemandInv, HandleHresultOk
  PROVE  DemandInv'
<1>1. /\ TakeMessage("HresultOk") /\ "HresultOk" \in PipeOps /\ TypeOK /\ list' = list
      /\ pool \in AppPools
  BY DEF HandleHresultOk, PipeOps, ObjectInv, QuietInvariant, TypeOK
<1>2. PICK w \in WP : w = Sender
  BY <1>1, MessageTaken
<1>3. stack = <<>> /\ wp \in [WP -> WorkerProcesses] /\ wp[w] \in WorkerProcesses
  BY <1>1, MessageTaken
<1>4. CASE wp[w].m_State \notin {"RegistrationPending", "RegistrationPendingShutdownPending"}
  <2>1. wp' = wp /\ pool' = pool /\ stack' = <<Ill(w, "Untrusted")>>
    BY <1>2, <1>4 DEF HandleHresultOk
  <2>2. Summoned'
    BY <2>1, UnreplacingCalls, SummonedIdle DEF IllnessReasons
  <2>3. \A v \in WP : SameLife(wp'[v], wp[v])
    BY <2>1 DEF SameLife
  <2> QED
    BY <1>1, <1>3, <2>1, <2>2, <2>3, SameDemandIdle
<1>5. CASE wp[w].m_State = "RegistrationPendingShutdownPending"
  <2> DEFINE f == Call("Shutdown", w)
  <2>1. wp' = [wp EXCEPT ![w] = Serving(wp[w])] /\ pool' = pool /\ stack' = <<f>>
    BY <1>2, <1>5 DEF HandleHresultOk, Serving
  <2>2. f.fn = "Shutdown" /\ f.w = w
    BY DEF Call
  <2>3. Summoned'
    BY <2>1, UnreplacingCalls, SummonedIdle DEF WorkerProcessMethods
  <2> HIDE DEF f
  <2>4. f \in Calls'
    BY <2>1 DEF Calls
  <2>5. \A v \in WP : v # w => wp'[v] = wp[v]
    BY <1>3, <2>1
  <2>6. ASSUME NEW v \in WP, Settling(v) PROVE Settling(v)'
    <3>1. InList(v)' /\ Rearms(v)
      BY <1>1, <1>3, <2>6, CallsEmpty DEF Settling, InList
    <3>2. CASE v = w
      BY <2>2, <2>4, <3>1, <3>2 DEF Settling, Leads
    <3>3. CASE v # w
      BY <2>5, <3>1, <3>3 DEF Settling, Rearms, IsGoingAwaySoon
    <3> QED
      BY <3>2, <3>3
  <2>7. Armed'
    <3> SUFFICES ASSUME ~Covered', Room'
                 PROVE  Reason'
      BY DEF Armed
    <3>1. ~Covered /\ Room
      BY <1>1, <1>3, <2>1 DEF Covered, Room, Disabling
    <3>2. Reason /\ Calls = {}
      BY <1>3, <3>1, CallsEmpty DEF DemandInv, Armed
    <3> QED
      BY <2>1, <2>6, <3>2 DEF Reason, Walking
  <2>8. Roomy'
    BY <2>1 DEF DemandInv, Roomy
  <2> QED
    BY <2>3, <2>7, <2>8 DEF DemandInv
<1>6. CASE wp[w].m_State = "RegistrationPending"
  <2>1. PICK waits \in StartupAttemptDone(wp[w].m_StartReason, Len(list)) :
          /\ wp' = [wp EXCEPT ![w] = [Serving(wp[w]) EXCEPT !.m_NotifiedAppPool = TRUE]]
          /\ pool' = [pool EXCEPT !.m_WaitingForDemandStart = waits]
          /\ stack' = ReleasePredecessor(w) \o <<Call("StartupTail", w)>>
    BY <1>2, <1>6 DEF HandleHresultOk, Serving
  <2>2. /\ [pool EXCEPT !.m_WaitingForDemandStart = waits].m_MaxProcessesToLaunch
             = pool.m_MaxProcessesToLaunch
        /\ [pool EXCEPT !.m_WaitingForDemandStart = waits].m_WaitingForDemandStart = waits
        /\ [pool EXCEPT !.m_WaitingForDemandStart = waits].m_State = pool.m_State
    BY <1>1, PoolFields
  <2>3. /\ pool'.m_MaxProcessesToLaunch = pool.m_MaxProcessesToLaunch
        /\ pool'.m_WaitingForDemandStart = waits /\ pool'.m_State = pool.m_State
    BY <2>1, <2>2, Zenon
  <2>4. Summoned'
    BY <1>1, <2>1, ReleaseUnreplacing, UnreplacingCalls, UnreplacingConcat, SummonedIdle
       DEF WorkerProcessMethods
  <2>5. CASE wp[w].m_StartReason = "DemandStart"
    <3>1. /\ pool.m_WaitingForDemandStart \in BOOLEAN
          /\ IsOkToCreateWorkerProcess(Len(list)) \in BOOLEAN
      BY <1>1 DEF AppPools, IsOkToCreateWorkerProcess
    <3>2. IsOkToCreateWorkerProcess(Len(list)) => waits
      BY <2>1, <2>5, <3>1, WaitIssued DEF StartupAttemptDone
    <3>3. pool'.m_State = "Running" => pool'.m_MaxProcessesToLaunch >= 1 /\ (Room' => waits)
      BY <1>1, <2>3, <3>2 DEF DemandInv, Roomy, Room, IsOkToCreateWorkerProcess
    <3> QED
      BY <2>3, <2>4, <3>3, RoomLookedFor
  <2>6. CASE wp[w].m_StartReason # "DemandStart"
    <3>1. waits = pool.m_WaitingForDemandStart
      BY <2>1, <2>6, Zenon DEF StartupAttemptDone
    <3> DEFINE s == [Serving(wp[w]) EXCEPT !.m_NotifiedAppPool = TRUE]
    <3>2. s.m_BeingReplaced = wp[w].m_BeingReplaced
      BY <1>1, ServingLife
    <3>3. wp' = [wp EXCEPT ![w] = s]
      BY <2>1
    <3> HIDE DEF s
    <3>4. wp'[w] = s /\ \A v \in WP : v # w => wp'[v] = wp[v]
      BY <1>3, <3>3
    <3>5. \A v \in WP : Rearms(v) => Rearms(v)'
      BY <1>6, <2>6, <3>2, <3>4 DEF Rearms, IsGoingAwaySoon
    <3>6. pool.m_WaitingForDemandStart => pool'.m_WaitingForDemandStart
      BY <2>3, <3>1, Zenon
    <3> QED
      BY <1>1, <1>3, <2>3, <2>4, <3>5, <3>6, DemandIdle
  <2> QED
    BY <2>5, <2>6
<1> QED
  BY <1>4, <1>5, <1>6

LEMMA OthersDemand ==
  ASSUME TypeOK, DemandInv, NEW w \in WP, ProcessStep(w) \/ \E h \in Handles : Callback(w, h)
  PROVE  DemandInv'
<1>1. /\ stack = <<>> /\ stack' = <<>> /\ pool' = pool /\ list' = list
      /\ \A v \in WP : SameLife(wp'[v], wp[v])
  BY ProcessStepLife, CallbackLife
<1>2. Summoned'
  BY <1>1, UnreplacingShapes, SummonedIdle
<1> QED
  BY <1>1, <1>2, SameDemandIdle

-----------------------------------------------------------------------------
LEMMA InitDemand == ASSUME "WaitForDemandStart" \notin Failures PROVE Init => DemandInv
<1> SUFFICES ASSUME Init PROVE DemandInv
  OBVIOUS
<1>1. PICK p \in ConstructedPools : pool \in Started(p)
  BY DEF Init, InitializedPools
<1>2. p \in AppPools /\ p.m_State # "Running"
  BY ConstructedIdle
<1>3. pool.m_State = "Running" =>
           /\ pool.m_MaxProcessesToLaunch >= 1
           /\ Len(list) < pool.m_MaxProcessesToLaunch => pool.m_WaitingForDemandStart
  BY <1>1, <1>2, StartedLooks
<1>4. Armed /\ Roomy
  BY <1>3 DEF Armed, Roomy, Room, Reason, Covered
<1>5. Summoned
  BY CallsEmpty DEF Init, Summoned
<1> QED
  BY <1>4, <1>5 DEF DemandInv

LEMMA NextDemand ==
  ASSUME "WaitForDemandStart" \notin Failures
  PROVE  ObjectInv /\ RelayInv /\ DemandInv /\ [Next]_vars => DemandInv'
<1> SUFFICES ASSUME ObjectInv, RelayInv, DemandInv, [Next]_vars
             PROVE  DemandInv'
  OBVIOUS
<1>0. TypeOK /\ ObjectInv'
  BY NextObject DEF ObjectInv, QuietInvariant
<1>1. CASE MakeCall
  BY <1>0, <1>1, CallsDemand
<1>2. CASE ExecuteWorkItem
  BY <1>0, <1>2, WorkItemsDemand, OtherMessagesDemand, HresultOkDemand, DemandStartDemand
     DEF ExecuteWorkItem
<1>3. CASE AppPoolEvent
  BY <1>3, AppPoolEventDemand
<1>4. CASE \E w \in WP : ProcessStep(w) \/ \E h \in Handles : Callback(w, h)
  BY <1>0, <1>4, OthersDemand
<1>5. CASE UNCHANGED vars
  <2>1. wp' = wp /\ stack' = stack /\ pool' = pool /\ list' = list
    BY <1>5 DEF vars
  <2>2. Calls' = Calls /\ (Covered' <=> Covered)
    BY <2>1 DEF Calls, Covered, Disabling
  <2> QED
    BY <2>1, <2>2 DEF DemandInv, Armed, Roomy, Summoned, Room, Reason, Walking, Settling, Rearms,
       IsGoingAwaySoon, InList
<1> QED
  BY <1>1, <1>2, <1>3, <1>4, <1>5 DEF Next

\* Between two work items a running pool with room for a process waits for a demand, or has a
\* process at whose start or end it looks for room (DemandStartWorkItem,
\* WorkerProcessStartupAttemptDone, RemoveWorkerProcessFromList): no interleaving of demands,
\* replacements, failures, configuration changes and stops leaves it waiting for nothing, so that
\* requests would find no worker process for ever.  The hypothesis is the one way in which
\* the code does: a wait that HTTP.SYS refuses is only logged (WaitForDemandStartIfNeeded).
THEOREM DemandSafety ==
  ASSUME "WaitForDemandStart" \notin Failures
  PROVE  Spec => []DemandStartArmed
<1>1. ObjectInv /\ DemandInv => DemandStartArmed
  <2> SUFFICES ASSUME ObjectInv, DemandInv, Idle, IsOkToCreateWorkerProcess(Len(list)),
                      ~pool.m_WaitingForDemandStart
               PROVE  \E w \in ToSet(list) :
                        \/ wp[w].m_StartReason = "DemandStart" /\ ~wp[w].m_NotifiedAppPool
                        \/ IsGoingAwaySoon(w)
    BY DEF DemandStartArmed
  <2>1. Calls = {} /\ ~Covered /\ Room
    BY CallsEmpty DEF Idle, Covered, Disabling, Room, IsOkToCreateWorkerProcess
  <2>2. PICK w \in WP : Settling(w)
    BY <2>1 DEF DemandInv, Armed, Reason, Walking
  <2> QED
    BY <2>1, <2>2 DEF Settling, Rearms, InList
<1>2. Init => ObjectInv /\ PingInv /\ RelayInv /\ DemandInv
  BY InitObject, InitPing, InitRelay, InitDemand
<1>3. ObjectInv /\ PingInv /\ RelayInv /\ DemandInv /\ [Next]_vars
        => ObjectInv' /\ PingInv' /\ RelayInv' /\ DemandInv'
  BY NextObject, NextPing, NextRelay, NextDemand
<1> QED
  BY <1>1, <1>2, <1>3, PTL DEF Spec

-----------------------------------------------------------------------------
(***************************************************************************)
(* The inductive invariant of the number of processes.                     *)
(***************************************************************************)
\* The processes that are there and that nobody replaces or is about to.
Remaining == {w \in WP : ~Dead(w) /\ ~Replaced(w)}

Launches == pool.m_State = "Running" => pool.m_MaxProcessesToLaunch \in MaxProcessesSettings
RemainingWithin(n) == IsFiniteSet(Remaining) /\ Cardinality(Remaining) <= n
SteadyInv(n) == Launches /\ Summoned /\ RemainingWithin(n)

-----------------------------------------------------------------------------
(***************************************************************************)
(* The maximum in force is one of those configured.                        *)
(***************************************************************************)
LEMMA CallsLaunches ==
  ASSUME TypeOK, Launches, MakeCall
  PROVE  Launches'
<1>0. pool \in AppPools
  BY DEF TypeOK
<1>1. pool.maxProcesses \in MaxProcessesSettings
  BY <1>0 DEF AppPools
<1>2. pool'.m_MaxProcessesToLaunch \in {pool.m_MaxProcessesToLaunch, pool.maxProcesses}
  <2>1. PICK x : \/ pool' = pool
                 \/ pool' = [pool EXCEPT !.m_State = x]
                 \/ pool' = [pool EXCEPT !.m_RecentWorkerProcessFailures = x]
                 \/ pool' = [pool EXCEPT !.m_WaitingForDemandStart = x]
                 \/ pool' = ResetStaggering(pool)
                 \/ pool' = Staggered(pool)
    BY DEF MakeCall, WorkerProcessCall, AppPoolCall, ReportFailure, DisableAppPool, DisableTail,
       ShutdownAllWorkerProcesses, ReplaceAllWorkerProcesses, HandleConfigChange, CheckShutdown,
       PoolTerminate, TerminateAll, Initialize, Shutdown, Dereference, MarkAsTerminallyIll,
       Terminate, TerminateTail, DropPredecessor, StartupTail, InitiateReplacement, MarkReplaced,
       DetachHandler
  <2>2. /\ [pool EXCEPT !.m_State = x].m_MaxProcessesToLaunch = pool.m_MaxProcessesToLaunch
        /\ [pool EXCEPT !.m_RecentWorkerProcessFailures = x].m_MaxProcessesToLaunch
             = pool.m_MaxProcessesToLaunch
        /\ [pool EXCEPT !.m_WaitingForDemandStart = x].m_MaxProcessesToLaunch
             = pool.m_MaxProcessesToLaunch
        /\ ResetStaggering(pool).m_MaxProcessesToLaunch = pool.maxProcesses
    BY <1>0, PoolFields
  <2>3. Staggered(pool).m_MaxProcessesToLaunch \in {pool.m_MaxProcessesToLaunch, pool.maxProcesses}
    BY StaggeredMax
  <2> QED
    BY <2>1, <2>2, <2>3, Zenon
<1> QED
  BY <1>1, <1>2, CallsPoolState DEF Launches

\* A pool that is started picks up the configured maximum.
LEMMA StartedLaunches ==
  ASSUME NEW p \in AppPools, NEW q \in Started(p)
  PROVE  q = p \/ q.m_MaxProcessesToLaunch = p.maxProcesses
<1> SUFFICES ASSUME q # p
             PROVE  q.m_MaxProcessesToLaunch = p.maxProcesses
  OBVIOUS
<1> DEFINE r == ResetStaggering(p)
           s == [r EXCEPT !.m_RecentWorkerProcessFailures = 0]
<1>1. q \in Enable(p)
  BY DEF Started
<1>2. r \in AppPools /\ r.m_MaxProcessesToLaunch = p.maxProcesses
  <2>1. r \in AppPools
    BY SettingsAssumption DEF ResetStaggering, AppPools
  <2> QED
    BY <2>1, PoolFields
<1>3. s \in AppPools /\ s.m_MaxProcessesToLaunch = r.m_MaxProcessesToLaunch
  <2> HIDE DEF r
  <2> QED
    BY <1>2, SettingsAssumption DEF AppPools
<1>4. q = s \/ \E waits : q = [s EXCEPT !.m_State = "Running", !.m_WaitingForDemandStart = waits]
  <2> HIDE DEF s
  <2>1. Enable(p) \subseteq {s} \cup {[s EXCEPT !.m_State = "Running", !.m_WaitingForDemandStart = waits] :
            waits \in WaitForDemandStartIfNeeded(p.m_WaitingForDemandStart,
                        Len(list) < s.m_MaxProcessesToLaunch)}
    BY DEF Enable, s
  <2> QED
    BY <1>1, <2>1, Zenon
<1> HIDE DEF r, s
<1>5. \A waits : [s EXCEPT !.m_State = "Running", !.m_WaitingForDemandStart = waits].m_MaxProcessesToLaunch
                   = s.m_MaxProcessesToLaunch
  BY <1>3 DEF AppPools
<1> QED
  BY <1>2, <1>3, <1>4, <1>5, Zenon

LEMMA EventLaunches ==
  ASSUME TypeOK, Launches, AppPoolEvent
  PROVE  Launches'
<1>0. pool \in AppPools
  BY DEF TypeOK
<1>1. \A p \in AppPools : p.maxProcesses \in MaxProcessesSettings
  BY DEF AppPools
<1>2. CASE FlowedStop \/ DeletePool \/ DemandArrives
  BY <1>2 DEF FlowedStop, DeletePool, DemandArrives, Launches
<1>3. CASE PoolShutdown
  <2>1. pool' = [pool EXCEPT !.m_State = "ShutdownPending"]
    BY <1>3 DEF PoolShutdown
  <2> QED
    BY <1>0, <2>1 DEF AppPools, Launches
<1>4. CASE RecycleWorkerProcesses
  <2>1. pool' = ResetStaggering(pool)
    BY <1>4 DEF RecycleWorkerProcesses
  <2> QED
    BY <1>0, <1>1, <2>1, PoolFields DEF Launches
<1>5. CASE FlowedStart
  BY <1>0, <1>1, <1>5, StartedLaunches DEF FlowedStart, Launches
<1>6. CASE CreatePool
  <2>1. PICK p \in ConstructedPools : pool' \in Started(p)
    BY <1>6 DEF CreatePool, InitializedPools
  <2>2. p \in AppPools /\ p.m_State # "Running"
    BY ConstructedIdle
  <2> QED
    BY <1>1, <2>1, <2>2, StartedLaunches DEF Launches
<1>7. CASE SetConfiguration
  <2>1. PICK n \in MaxProcessesSettings, o \in OverlapSettings, r \in RotateSettings,
             cmd \in {"none", "START", "STOP"} :
            LET p == [pool EXCEPT !.maxProcesses = n, !.overlap = o, !.rotate = r,
                              !.autoStart = IF cmd = "none" THEN @ ELSE cmd = "START"]
            IN  pool' \in (IF cmd = "START" THEN Started(p) ELSE {p})
    BY <1>7 DEF SetConfiguration
  <2> DEFINE b == IF cmd = "none" THEN pool.autoStart ELSE cmd = "START"
             p == [pool EXCEPT !.maxProcesses = n, !.overlap = o, !.rotate = r, !.autoStart = b]
  <2>2. b \in BOOLEAN /\ (pool' \in Started(p) \/ pool' = p)
    BY <1>0, <2>1 DEF AppPools
  <2> HIDE DEF b
  <2>3. p \in AppPools
    BY <1>0, <2>2 DEF AppPools
  <2>4. p.m_MaxProcessesToLaunch = pool.m_MaxProcessesToLaunch /\ p.m_State = pool.m_State
    BY <1>0, Zenon DEF AppPools
  <2> HIDE DEF p
  <2> QED
    BY <1>1, <2>2, <2>3, <2>4, StartedLaunches DEF Launches
<1> QED
  BY <1>2, <1>3, <1>4, <1>5, <1>6, <1>7 DEF AppPoolEvent

LEMMA WorkItemLaunches ==
  ASSUME TypeOK, Launches, ExecuteWorkItem
  PROVE  Launches'
<1>0. pool \in AppPools /\ pool.maxProcesses \in MaxProcessesSettings
  BY DEF TypeOK, AppPools
<1>1. CASE DemandStart
  <2>1. PICK x : \/ pool' = [pool EXCEPT !.m_WaitingForDemandStart = x]
                 \/ pool' = [Staggered(pool) EXCEPT !.m_WaitingForDemandStart = x]
    BY <1>1 DEF DemandStart
  <2>2. /\ Staggered(pool) \in AppPools /\ Staggered(pool).m_State = pool.m_State
        /\ Staggered(pool).m_MaxProcessesToLaunch =
             IF list = <<>> THEN pool.maxProcesses ELSE pool.m_MaxProcessesToLaunch
    BY StaggeredMax
  <2>3. \A p \in AppPools :
          /\ [p EXCEPT !.m_WaitingForDemandStart = x].m_State = p.m_State
          /\ [p EXCEPT !.m_WaitingForDemandStart = x].m_MaxProcessesToLaunch
               = p.m_MaxProcessesToLaunch
    BY PoolFields
  <2>4. \/ pool'.m_State = pool.m_State /\ pool'.m_MaxProcessesToLaunch = pool.m_MaxProcessesToLaunch
        \/ /\ pool'.m_State = Staggered(pool).m_State
           /\ pool'.m_MaxProcessesToLaunch = Staggered(pool).m_MaxProcessesToLaunch
    BY <1>0, <2>1, <2>2, <2>3, Zenon
  <2> QED
    BY <1>0, <2>2, <2>4 DEF Launches
<1>2. CASE WorkerProcessWorkItem
  BY <1>2 DEF WorkerProcessWorkItem, StartupTimerExpired, ShutdownTimerExpired, ProcessHandleSignaled,
     SendPing, PingResponseTimerExpired, TakeOwn, Launches
<1>3. CASE Message
  <2>1. PICK x : pool' = pool \/ pool' = [pool EXCEPT !.m_WaitingForDemandStart = x]
    BY <1>3 DEF Message, DropMessage, HandleInvalid, HandleGetPid, HandleHresultBad, HandleHresultOk,
       HandleRecycleRequest, HandleIdleRequest, HandleUnknownRequest, HandleShutdownRequest,
       HandleBrokenPipe, HandleIpmFault, HandleDisconnect, HandlePingReply
  <2>2. /\ [pool EXCEPT !.m_WaitingForDemandStart = x].m_State = pool.m_State
        /\ [pool EXCEPT !.m_WaitingForDemandStart = x].m_MaxProcessesToLaunch
             = pool.m_MaxProcessesToLaunch
    BY <1>0, PoolFields
  <2>3. pool'.m_State = pool.m_State /\ pool'.m_MaxProcessesToLaunch = pool.m_MaxProcessesToLaunch
    BY <2>1, <2>2, Zenon
  <2> QED
    BY <2>3 DEF Launches
<1> QED
  BY <1>1, <1>2, <1>3 DEF ExecuteWorkItem

LEMMA NextLaunches == TypeOK /\ Launches /\ [Next]_vars => Launches'
<1> SUFFICES ASSUME TypeOK, Launches, [Next]_vars
             PROVE  Launches'
  OBVIOUS
<1>1. CASE \E w \in WP : ProcessStep(w) \/ \E h \in Handles : Callback(w, h)
  BY <1>1, ProcessStepLife, CallbackLife DEF Launches
<1>2. CASE UNCHANGED vars
  BY <1>2 DEF vars, Launches
<1> QED
  BY <1>1, <1>2, CallsLaunches, WorkItemLaunches, EventLaunches DEF Next

-----------------------------------------------------------------------------
(***************************************************************************)
(* A process that is to be replaced is in the list, whatever fails.        *)
(***************************************************************************)
LEMMA CallsUnreplacing ==
  ASSUME TypeOK, MakeCall, ~ReplaceAllWorkerProcesses
  PROVE  \E frames : Unreplacing(frames) /\ Return(frames)
<1> USE DEF WorkerProcessMethods
<1>1. Unreplacing(<<>>) /\ \A fn \in AppPoolMethods : Unreplacing(<<Call(fn, NoWP)>>)
  BY UnreplacingShapes, UnreplacingCalls
<1>2. CASE AppPoolCall
  <2>1. CASE ReportFailure \/ DisableTail \/ PoolTerminate
    BY <1>1, <2>1 DEF ReportFailure, RapidFailStop, DisableTail, PoolTerminate, AppPoolMethods
  <2>2. CASE DisableAppPool
    <3>1. Unreplacing(WalkFrom("ShutdownAll", FirstEntry) \o <<Call("DisableTail", NoWP)>>)
      BY <1>1, ListType, UnreplacingCalls, UnreplacingConcat DEF Walks, AppPoolMethods
    <3> QED
      BY <1>1, <2>2, <3>1 DEF DisableAppPool
  <2>3. CASE ShutdownAllWorkerProcesses
    <3>1. ASSUME This \in WP
          PROVE  Unreplacing(<<Call("Shutdown", This)>> \o WalkFrom("ShutdownAll", Flink(This)))
      BY <3>1, ListType, UnreplacingCalls, UnreplacingConcat DEF Walks
    <3> QED
      BY <1>1, <2>3, <3>1 DEF ShutdownAllWorkerProcesses
  <2>4. CASE CheckShutdown
    BY <1>1, <2>4 DEF CheckShutdown, ShutdownNowCompleted, AppPoolMethods
  <2>5. CASE TerminateAll
    <3>1. ASSUME list # <<>>
          PROVE  Unreplacing(<<Call("Terminate", list[1]), Call("TerminateAll", NoWP)>>)
      <4>1. list[1] \in WP
        BY <3>1 DEF TypeOK
      <4>2. /\ Call("Terminate", list[1]) \in Frames /\ Call("Terminate", list[1]).fn = "Terminate"
            /\ Call("TerminateAll", NoWP) \in Frames /\ Call("TerminateAll", NoWP).fn = "TerminateAll"
        BY <4>1, AsideCalls DEF AppPoolMethods
      <4> QED
        BY <4>2, UnreplacingShapes
    <3> QED
      BY <1>1, <2>5, <3>1 DEF TerminateAll
  <2>6. CASE HandleConfigChange
    BY <1>1, <2>6, ListType, UnreplacingCalls DEF HandleConfigChange, Walks
  <2> QED
    BY <1>2, <2>1, <2>2, <2>3, <2>4, <2>5, <2>6 DEF AppPoolCall
<1>3. CASE WorkerProcessCall \/ DetachHandler
  <2>0. stack # <<>> /\ Head(stack).fn \in WorkerProcessMethods
    BY <1>3 DEF WorkerProcessCall, Initialize, Shutdown, Dereference, MarkAsTerminallyIll, Terminate,
       TerminateTail, DropPredecessor, StartupTail, InitiateReplacement, MarkReplaced, DetachHandler,
       Calling
  <2>1. PICK w \in WP : w = This
    BY <2>0, CallingWP DEF Calling
  <2>2. /\ \A fn \in WorkerProcessMethods : Call(fn, w) \in Frames /\ Call(fn, w).fn = fn
        /\ \A why \in IllnessReasons :
             Ill(w, why) \in Frames /\ Ill(w, why).fn = "MarkAsTerminallyIll"
    BY WorkerFrame, IllFrame DEF Call, Ill
  <2>3. CASE Dereference \/ DetachHandler \/ DropPredecessor \/ MarkReplaced
    BY <1>1, <2>3 DEF Dereference, DetachHandler, DropPredecessor, MarkReplaced
  <2>4. CASE StartupTail
    BY <1>1, <2>1, <2>4, UnreplacingCalls DEF StartupTail, IllnessReasons
  <2>5. CASE MarkAsTerminallyIll
    <3>1. Unreplacing(<<Call("ReportFailure", w), Call("Terminate", w)>>)
      BY <2>2, UnreplacingShapes
    <3> QED
      BY <1>1, <2>1, <2>5, <3>1 DEF MarkAsTerminallyIll
  <2>6. CASE Initialize
    <3>1. \A outcome : Unreplacing(InitializeDone(w, outcome))
      BY <1>1, UnreplacingCalls DEF InitializeDone, IllnessReasons
    <3> QED
      BY <2>1, <2>6, <3>1 DEF Initialize
  <2>7. CASE Shutdown
    <3>1. Unreplacing(ShutdownFailed(w))
      BY <2>2, UnreplacingShapes DEF ShutdownFailed, IllnessReasons
    <3> QED
      BY <1>1, <2>1, <2>7, <3>1 DEF Shutdown
  <2>8. CASE Terminate
    <3>1. Unreplacing(ReleasePredecessor(w) \o <<Call("TerminateTail", w)>>)
      BY ReleaseUnreplacing, UnreplacingCalls, UnreplacingConcat
    <3> QED
      BY <1>1, <2>1, <2>8, <3>1 DEF Terminate
  <2>9. CASE TerminateTail
    BY <1>1, <2>9 DEF TerminateTail, ShutdownNowCompleted, AppPoolMethods
  <2>10. CASE InitiateReplacement
    <3>1. Unreplacing(ReplacementRefused(w))
      BY UnreplacingCalls DEF ReplacementRefused
    <3>2. ASSUME NEW new \in WP
          PROVE  Unreplacing(<<Call("Initialize", new), Call("MarkReplaced", w)>>)
      <4> DEFINE f == Call("Initialize", new)
                 g == Call("MarkReplaced", w)
      <4>1. f \in Frames /\ g \in Frames /\ f.fn = "Initialize" /\ g.fn = "MarkReplaced"
        BY <2>1, WorkerFrame DEF Call, WorkerProcessMethods
      <4> HIDE DEF f, g
      <4>2. Unreplacing(<<f, g>>)
        BY <4>1, UnreplacingShapes
      <4> QED
        BY <4>2, Zenon DEF f, g
    <3> QED
      BY <1>1, <2>1, <2>10, <3>1, <3>2 DEF InitiateReplacement, FreeMemory
  <2> QED
    BY <1>3, <2>3, <2>4, <2>5, <2>6, <2>7, <2>8, <2>9, <2>10 DEF WorkerProcessCall
<1> QED
  BY <1>2, <1>3 DEF MakeCall

LEMMA ReplaceAllSummoned ==
  ASSUME ObjectInv, ReplaceAllWorkerProcesses
  PROVE  Summoned'
<1>0. /\ TypeOK /\ stack # <<>> /\ wp' = wp /\ list' = list /\ MakeCall
      /\ Head(stack).fn = "ReplaceAll"
  BY DEF ObjectInv, QuietInvariant, MakeCall, AppPoolCall, ReplaceAllWorkerProcesses, Calling
<1>1. /\ Head(stack) = stack[1] /\ FrameInv(1) /\ Len(stack) \in Nat
  BY <1>0, First
<1>2. stack[1].fn = "ReplaceAll" /\ Len(stack) = 1
  BY <1>0, <1>1 DEF FrameInv, Placed
<1>3. ASSUME NEW w \in WP, w = This
      PROVE  Summoned'
  <2> DEFINE f == Call("InitiateReplacement", w)
             walk == WalkFrom("ReplaceAll", Flink(w))
             frames == <<f>> \o walk
  <2>1. Return(frames) /\ f.w = w /\ f \in Frames
    BY <1>3, WorkerFrame DEF ReplaceAllWorkerProcesses, Call, WorkerProcessMethods
  <2>2. Unreplacing(walk)
    BY <1>0, ListType, UnreplacingCalls DEF Walks
  <2> HIDE DEF f, walk
  <2>3. /\ frames \in Seq(Frames) /\ frames[1] = f
        /\ \A i \in 1 .. Len(frames) : i = 1 \/ (i - 1 \in 1 .. Len(walk) /\ frames[i] = walk[i - 1])
    BY <2>1, <2>2 DEF Unreplacing
  <2> HIDE DEF frames
  <2>4. ~Covered => InList(w)
    <3>1. ~Covered => Replacing /\ Bottom.w = w
      BY <1>0, <1>1, <1>2, <1>3 DEF Replacing, Bottom, This
    <3> QED
      BY <3>1 DEF ObjectInv, ListInv, WalkListed
  <2>5. InList(w)' \/ Covered'
    <3>1. Covered => Covered'
      BY <1>0, CoveredStays
    <3> QED
      BY <1>0, <2>4, <3>1 DEF InList
  <2>6. \A i \in 1 .. Len(frames) : frames[i].fn = "InitiateReplacement" => frames[i].w = w
    BY <2>1, <2>2, <2>3 DEF Unreplacing
  <2> QED
    BY <1>0, <2>1, <2>3, <2>5, <2>6, SummonedCall
<1>4. CASE This \notin WP
  <2>1. Return(<<>>)
    BY <1>4 DEF ReplaceAllWorkerProcesses
  <2> QED
    BY <1>0, <2>1, UnreplacingShapes, SummonedCall DEF Unreplacing
<1> QED
  BY <1>3, <1>4

LEMMA WorkItemsSummoned ==
  ASSUME TypeOK, WorkerProcessWorkItem
  PROVE  Summoned'
<1>1. PICK op \in Handles : Take(op)
  BY DEF WorkerProcessWorkItem, StartupTimerExpired, ShutdownTimerExpired, ProcessHandleSignaled,
     SendPing, PingResponseTimerExpired, TakeOwn, Handles
<1>2. PICK w \in WP : w = Head(queue).w
  BY <1>1, TakenItem
<1>3. /\ Unreplacing(<<>>) /\ \A why \in IllnessReasons : Unreplacing(<<Ill(w, why)>>)
      /\ Unreplacing(<<Call("Terminate", w)>>) /\ Unreplacing(<<Call("Dereference", w)>>)
  BY UnreplacingShapes, UnreplacingCalls DEF WorkerProcessMethods
<1>4. PICK frames : Unreplacing(frames) /\ Done(w, frames)
  BY <1>2, <1>3 DEF WorkerProcessWorkItem, StartupTimerExpired, ShutdownTimerExpired,
     ProcessHandleSignaled, SendPing, PingResponseTimerExpired, ProcessEnded, IllnessReasons
<1> QED
  BY <1>3, <1>4, UnreplacingConcat, SummonedIdle DEF Done

\* The process that asks to be recycled is running, so it is in the list.
LEMMA MessagesSummoned ==
  ASSUME ObjectInv, Message
  PROVE  Summoned'
<1>1. ASSUME NEW w \in WP
      PROVE  /\ \A why \in IllnessReasons : Unreplacing(<<Ill(w, why)>>)
             /\ Unreplacing(<<Call("Shutdown", w)>>) /\ Unreplacing(<<Call("DetachHandler", w)>>)
             /\ Unreplacing(<<Call("StartupTail", w)>>)
  BY UnreplacingCalls DEF WorkerProcessMethods
<1>2. CASE ~HandleHresultOk
  <2>1. ASSUME NEW w \in WP, stack' = <<Call("InitiateReplacement", w)>>, wp[w].m_State = "Running"
        PROVE  Summoned'
    <3>1. InList(w)'
      BY <1>2, <2>1, OtherMessagesLife DEF ObjectInv, ListInv, Membership, Dead, InList
    <3>2. \A f \in Calls' : f = Call("InitiateReplacement", w)
      BY <2>1 DEF Calls
    <3> QED
      BY <3>1, <3>2 DEF Summoned, Call
  <2> QED
    BY <1>1, <1>2, <2>1, OtherMessagesLife, UnreplacingShapes, UnreplacingConcat, SummonedIdle
<1>3. CASE HandleHresultOk
  <2>1. TakeMessage("HresultOk") /\ "HresultOk" \in PipeOps /\ TypeOK
    BY <1>3 DEF HandleHresultOk, PipeOps, ObjectInv, QuietInvariant
  <2>2. PICK w \in WP : w = Sender
    BY <2>1, MessageTaken
  <2>3. \/ stack' = <<Ill(w, "Untrusted")>>
        \/ stack' = <<Call("Shutdown", w)>>
        \/ stack' = ReleasePredecessor(w) \o <<Call("StartupTail", w)>>
    BY <1>3, <2>2 DEF HandleHresultOk
  <2>4. Unreplacing(ReleasePredecessor(w) \o <<Call("StartupTail", w)>>)
    BY <1>1, <2>1, ReleaseUnreplacing, UnreplacingConcat
  <2> QED
    BY <1>1, <2>3, <2>4, SummonedIdle DEF IllnessReasons
<1> QED
  BY <1>2, <1>3

LEMMA DemandStartSummoned ==
  ASSUME DemandStart
  PROVE  Summoned'
<1>1. stack = <<>> /\ (stack' = stack \/ \E new \in WP : stack' = <<Call("Initialize", new)>>)
  BY DEF DemandStart, Take, Idle, FreeMemory
<1> QED
  BY <1>1, UnreplacingShapes, UnreplacingCalls, SummonedIdle DEF WorkerProcessMethods

LEMMA NextSummoned == ObjectInv /\ Summoned /\ [Next]_vars => Summoned'
<1> SUFFICES ASSUME ObjectInv, Summoned, [Next]_vars
             PROVE  Summoned'
  OBVIOUS
<1>0. TypeOK
  BY DEF ObjectInv, QuietInvariant
<1>1. CASE MakeCall /\ ~ReplaceAllWorkerProcesses
  <2>1. PICK frames : Unreplacing(frames) /\ Return(frames)
    BY <1>0, <1>1, CallsUnreplacing
  <2> QED
    BY <1>1, <2>1, SummonedCall DEF Unreplacing
<1>2. CASE \E w \in WP : ProcessStep(w) \/ \E h \in Handles : Callback(w, h)
  <2>1. stack' = <<>>
    BY <1>0, <1>2, ProcessStepLife, CallbackLife
  <2> QED
    BY <2>1, UnreplacingShapes, SummonedIdle
<1>3. CASE UNCHANGED vars
  BY <1>3 DEF vars, Summoned, Calls, Covered, Disabling, InList
<1> QED
  BY <1>0, <1>1, <1>2, <1>3, ReplaceAllSummoned, WorkItemsSummoned, MessagesSummoned,
     DemandStartSummoned, EventsUnreplacing DEF Next, ExecuteWorkItem

-----------------------------------------------------------------------------
(***************************************************************************)
(* The calls and events that make no process.                              *)
(***************************************************************************)
\* The step does not bring v to life, and leaves its mark on it.
Tame(v) == ~Dead(v)' => ~Dead(v) /\ (wp[v].m_BeingReplaced => wp'[v].m_BeingReplaced)

LEMMA UnmovedTame ==
  ASSUME NEW v \in WP, Unmoved(v)
  PROVE  Tame(v)
  BY DEF Unmoved, Tame, Dead

LEMMA SameTame ==
  ASSUME NEW v \in WP, SameLife(wp'[v], wp[v])
  PROVE  Tame(v)
  BY DEF SameLife, Tame, Dead

LEMMA CallsTame ==
  ASSUME ObjectInv, ObjectInv', RelayInv, MakeCall, ~InitiateReplacement, NEW v \in WP
  PROVE  Tame(v)
<1> USE DEF WorkerProcessMethods
<1>0. TypeOK /\ wp \in [WP -> WorkerProcesses] /\ stack # <<>>
  BY CallsReturn DEF ObjectInv, QuietInvariant, TypeOK
<1>1. CASE AppPoolCall
  <2>1. wp' = wp
    BY <1>1 DEF AppPoolCall, ReportFailure, DisableAppPool, DisableTail, ShutdownAllWorkerProcesses,
       ReplaceAllWorkerProcesses, HandleConfigChange, CheckShutdown, PoolTerminate, TerminateAll
  <2> QED
    BY <2>1 DEF Tame, Dead
<1>2. CASE Dereference \/ DetachHandler \/ DropPredecessor \/ TerminateTail
  BY <1>2, ReleasingUnmoved, UnmovedTame
<1>3. CASE StartupTail \/ MarkAsTerminallyIll \/ MarkReplaced \/ Initialize \/ Terminate \/ Shutdown
  <2>1. PICK w \in WP : w = This
    BY <1>0, <1>3, CallingWP DEF StartupTail, MarkAsTerminallyIll, MarkReplaced, Initialize,
       Terminate, Shutdown
  <2>2. CASE StartupTail
    <3>1. wp' = wp \/ wp' = [wp EXCEPT ![w].handle["SendPing"] = "armed"]
      BY <2>1, <2>2 DEF StartupTail
    <3>2. SameLife(wp[v], wp[v]) /\ SameLife([wp EXCEPT ![w].handle["SendPing"] = "armed"][v], wp[v])
      BY <1>0, SameLifeField
    <3>3. SameLife(wp'[v], wp[v])
      BY <3>1, <3>2, Zenon
    <3> QED
      BY <3>3, SameTame
  <2>3. CASE MarkAsTerminallyIll
    <3>1. \E x : \/ wp' = wp
                 \/ wp' = [wp EXCEPT ![w].m_IgnoredPingDueToDebugger = x]
                 \/ wp' = [wp EXCEPT ![w].m_TerminalIllReason = x]
      BY <2>1, <2>3 DEF MarkAsTerminallyIll
    <3>2. SameLife(wp'[v], wp[v])
      BY <1>0, <3>1, SameLifeField
    <3> QED
      BY <3>2, SameTame
  <2>4. CASE MarkReplaced
    <3>1. wp' = wp \/ wp' = [wp EXCEPT ![w].m_BeingReplaced = TRUE]
      BY <2>1, <2>4 DEF MarkReplaced
    <3> QED
      BY <1>0, <3>1 DEF Tame, Dead, WorkerProcesses
  <2>5. CASE Initialize
    <3>1. PICK outcome \in InitializeOutcomes : wp' = [wp EXCEPT ![w] = Initialized(wp[w], outcome)]
      BY <2>1, <2>5 DEF Initialize
    <3>2. wp[w].m_State = "Uninitialized"
      BY <1>0, <2>1, <2>5, First DEF FrameInv, Founded, This, Initialize, Calling
    <3> DEFINE s == Initialized(wp[w], outcome)
    <3>3. s.m_BeingReplaced = wp[w].m_BeingReplaced
      BY <1>0 DEF Initialized, WorkerProcesses
    <3>4. wp'[w] = s /\ (v # w => wp'[v] = wp[v])
      BY <1>0, <3>1
    <3> HIDE DEF s
    <3> QED
      BY <3>2, <3>3, <3>4 DEF Tame, Dead
  <2>6. CASE Terminate
    <3>1. wp' = wp \/ wp' = [wp EXCEPT ![w] = Terminated(wp[w])]
      BY <2>1, <2>6 DEF Terminate
    <3>2. Terminated(wp[w]).m_State = "DeletePending"
      BY <1>0, TerminatedEffect
    <3>3. wp'[v] = wp[v] \/ wp'[v].m_State = "DeletePending"
      BY <1>0, <3>1, <3>2
    <3> QED
      BY <3>3 DEF Tame, Dead
  <2>7. CASE Shutdown
    <3>1. /\ v # w => wp'[v] = wp[v]
          /\ wp'[w].m_State = wp[w].m_State \/ wp[w].m_State \in {"RegistrationPending", "Running"}
          /\ wp'[w].m_BeingReplaced = wp[w].m_BeingReplaced
      BY <1>0, <2>1, <2>7, ShutdownLife
    <3> QED
      BY <3>1 DEF Tame, Dead
  <2> QED
    BY <1>3, <2>2, <2>3, <2>4, <2>5, <2>6, <2>7
<1> QED
  BY <1>1, <1>2, <1>3 DEF MakeCall, WorkerProcessCall

\* No mark is lost on the way from the call to the object.
LEMMA CallsMarked ==
  ASSUME ObjectInv, ObjectInv', MakeCall, NEW v \in WP, Tame(v), ~Dead(v)', Replaced(v)
  PROVE  Replaced(v)'
<1>0. TypeOK /\ wp \in [WP -> WorkerProcesses]
  BY DEF ObjectInv, QuietInvariant, TypeOK
<1>1. stack # <<>> /\ \E frames \in Seq(Frames) : Return(frames)
  BY <1>0, CallsReturn
<1>2. Calls \ {Head(stack)} \subseteq Calls'
  BY <1>0, <1>1, CallsAfter
<1>3. CASE wp[v].m_BeingReplaced
  BY <1>3 DEF Tame, Replaced
<1>4. ASSUME NEW f \in Calls, f.fn = "MarkReplaced", f.w = v
      PROVE  Replaced(v)'
  <2>1. CASE f # Head(stack)
    BY <1>2, <1>4, <2>1 DEF Replaced, Pending
  <2>2. CASE f = Head(stack)
    <3>1. MarkReplaced
      BY <1>4, <2>2 DEF MakeCall, AppPoolCall, WorkerProcessCall, ReportFailure, DisableAppPool,
         DisableTail, ShutdownAllWorkerProcesses, ReplaceAllWorkerProcesses, HandleConfigChange,
         CheckShutdown, PoolTerminate, TerminateAll, Initialize, Shutdown, Dereference,
         MarkAsTerminallyIll, Terminate, TerminateTail, DropPredecessor, StartupTail,
         InitiateReplacement, DetachHandler, Calling
    <3>2. wp[v].m_State # "Free" /\ This = v
      BY <1>4, <2>2 DEF Tame, Dead, This
    <3>3. wp' = [wp EXCEPT ![v].m_BeingReplaced = TRUE]
      BY <3>1, <3>2 DEF MarkReplaced
    <3>4. wp'[v].m_BeingReplaced
      BY <1>0, <3>3 DEF WorkerProcesses
    <3> QED
      BY <3>4 DEF Replaced
  <2> QED
    BY <2>1, <2>2
<1> QED
  BY <1>3, <1>4 DEF Replaced, Pending

LEMMA CallsRemaining ==
  ASSUME ObjectInv, ObjectInv', RelayInv, MakeCall, ~InitiateReplacement
  PROVE  Remaining' \subseteq Remaining
<1> SUFFICES ASSUME NEW v \in WP, ~Dead(v)', ~Replaced(v)'
             PROVE  ~Dead(v) /\ ~Replaced(v)
  BY DEF Remaining
<1>1. Tame(v)
  BY CallsTame
<1> QED
  BY <1>1, CallsMarked DEF Tame

\* Between two work items there are no calls, so only the objects matter.
LEMMA IdleRemaining ==
  ASSUME stack = <<>>, \A v \in WP : Tame(v)
  PROVE  Remaining' \subseteq Remaining
<1>1. \A v \in WP : ~Pending("MarkReplaced", v)
  BY CallsEmpty DEF Pending
<1> QED
  BY <1>1 DEF Remaining, Tame, Replaced

LEMMA HresultOkRemaining ==
  ASSUME ObjectInv, HandleHresultOk
  PROVE  Remaining' \subseteq Remaining
<1>1. TakeMessage("HresultOk") /\ "HresultOk" \in PipeOps /\ TypeOK
  BY DEF HandleHresultOk, PipeOps, ObjectInv, QuietInvariant
<1>2. PICK w \in WP : w = Sender
  BY <1>1, MessageTaken
<1>3. stack = <<>> /\ wp \in [WP -> WorkerProcesses]
  BY <1>1, MessageTaken
<1>4. CASE wp' = wp
  BY <1>3, <1>4, IdleRemaining DEF Tame, Dead
<1>5. ASSUME NEW s, s = Serving(wp[w]) \/ s = [Serving(wp[w]) EXCEPT !.m_NotifiedAppPool = TRUE],
             wp' = [wp EXCEPT ![w] = s],
             wp[w].m_State \in {"RegistrationPending", "RegistrationPendingShutdownPending"}
      PROVE  Remaining' \subseteq Remaining
  <2>1. s.m_State = "Running" /\ s.m_BeingReplaced = wp[w].m_BeingReplaced
    BY <1>1, <1>5, ServingLife
  <2>2. wp'[w] = s /\ \A v \in WP : v # w => wp'[v] = wp[v]
    BY <1>3, <1>5
  <2>3. \A v \in WP : Tame(v)
    BY <1>5, <2>1, <2>2 DEF Tame, Dead
  <2> QED
    BY <1>3, <2>3, IdleRemaining
<1> QED
  BY <1>2, <1>4, <1>5 DEF HandleHresultOk, Serving

LEMMA IdleStepsRemaining ==
  ASSUME ObjectInv,
         \/ WorkerProcessWorkItem \/ Message \/ AppPoolEvent
         \/ \E w \in WP : ProcessStep(w) \/ \E h \in Handles : Callback(w, h)
  PROVE  Remaining' \subseteq Remaining
<1>0. TypeOK
  BY DEF ObjectInv, QuietInvariant
<1>1. CASE AppPoolEvent
  <2>1. stack = <<>> /\ wp' = wp
    BY <1>1 DEF AppPoolEvent, FlowedStart, FlowedStop, SetConfiguration, RecycleWorkerProcesses,
       PoolShutdown, DeletePool, CreatePool, DemandArrives, Idle
  <2> QED
    BY <2>1, IdleRemaining DEF Tame, Dead
<1>2. CASE Message /\ HandleHresultOk
  BY <1>2, HresultOkRemaining
<1>3. CASE \/ WorkerProcessWorkItem \/ (Message /\ ~HandleHresultOk)
           \/ \E w \in WP : ProcessStep(w) \/ \E h \in Handles : Callback(w, h)
  <2>1. stack = <<>> /\ \A v \in WP : SameLife(wp'[v], wp[v])
    BY <1>0, <1>3, WorkItemsLife, OtherMessagesLife, ProcessStepLife, CallbackLife
  <2> QED
    BY <2>1, SameTame, IdleRemaining
<1> QED
  BY <1>1, <1>2, <1>3

-----------------------------------------------------------------------------
(***************************************************************************)
(* The number of the processes that remain.                              *)
(***************************************************************************)
LEMMA RemainingShrinks ==
  ASSUME NEW n \in Nat, RemainingWithin(n), Remaining' \subseteq Remaining
  PROVE  RemainingWithin(n)'
<1>1. /\ IsFiniteSet(Remaining') /\ Cardinality(Remaining') <= Cardinality(Remaining)
      /\ Cardinality(Remaining) \in Nat /\ Cardinality(Remaining') \in Nat
  BY FS_Subset, FS_CardinalityType DEF RemainingWithin
<1> QED
  BY <1>1 DEF RemainingWithin

\* The processes that remain are in the list.
LEMMA RemainingListed ==
  ASSUME ObjectInv
  PROVE  IsFiniteSet(Remaining) /\ Cardinality(Remaining) <= Len(list) /\ Cardinality(Remaining) \in Nat
<1>1. list \in Seq(WP) /\ Len(list) \in Nat
  BY DEF ObjectInv, QuietInvariant, TypeOK
<1> DEFINE dom == 1 .. Len(list)
           f == [i \in dom |-> list[i]]
<1>2. ToSet(list) = {list[i] : i \in dom}
  BY <1>1 DEF ToSet
<1>3. IsFiniteSet(dom) /\ Cardinality(dom) = Len(list)
  BY <1>1, FS_Interval
<1> HIDE DEF dom
<1>4. f \in Surjection(dom, ToSet(list))
  BY <1>2 DEF Surjection
<1> HIDE DEF f
<1>5. IsFiniteSet(ToSet(list)) /\ Cardinality(ToSet(list)) <= Len(list)
  BY <1>3, <1>4, FS_Surjection
<1>6. Remaining \subseteq ToSet(list)
  BY DEF ObjectInv, ListInv, Membership, Remaining, InList
<1>7. IsFiniteSet(Remaining) /\ Cardinality(Remaining) <= Cardinality(ToSet(list))
  BY <1>5, <1>6, FS_Subset
<1>8. Cardinality(Remaining) \in Nat /\ Cardinality(ToSet(list)) \in Nat
  BY <1>5, <1>7, FS_CardinalityType
<1> QED
  BY <1>1, <1>5, <1>7, <1>8

\* A demand makes a process only when the list is shorter than the maximum.
LEMMA DemandStartWithin ==
  ASSUME NEW n \in Nat, \A m \in MaxProcessesSettings : m <= n,
         ObjectInv, Launches, RemainingWithin(n), DemandStart
  PROVE  RemainingWithin(n)'
<1>0. TypeOK /\ stack = <<>>
  BY DEF ObjectInv, QuietInvariant, DemandStart, Take, Idle
<1>1. CASE wp' = wp
  <2>1. Remaining' \subseteq Remaining
    BY <1>0, <1>1, IdleRemaining DEF Tame, Dead
  <2> QED
    BY <2>1, RemainingShrinks
<1>2. ASSUME NEW new \in FreeMemory, IsOkToCreateWorkerProcess(Len(list)),
             wp' = Constructed(new, "DemandStart", NoWP)
      PROVE  RemainingWithin(n)'
  <2>1. NoWP # new
    BY PointerAssumption DEF FreeMemory
  <2>2. new \in WP /\ Dead(new) /\ \A v \in WP : v # new => SameLife(wp'[v], wp[v])
    BY <1>0, <1>2, <2>1, NewLife
  <2>3. \A v \in WP : ~Pending("MarkReplaced", v)
    BY <1>0, CallsEmpty DEF Pending
  <2>4. Remaining' \subseteq Remaining \cup {new}
    BY <2>2, <2>3 DEF Remaining, Replaced, SameLife, Dead
  <2>5. IsFiniteSet(Remaining) /\ Cardinality(Remaining) <= Len(list) /\ Cardinality(Remaining) \in Nat
    BY RemainingListed
  <2>6. Len(list) < n
    <3>1. pool.m_MaxProcessesToLaunch \in MaxProcessesSettings /\ Len(list) \in Nat
      BY <1>0, <1>2 DEF Launches, IsOkToCreateWorkerProcess, TypeOK
    <3>2. pool.m_MaxProcessesToLaunch \in Nat
      BY <3>1, SettingsAssumption
    <3> QED
      BY <1>2, <3>1, <3>2 DEF IsOkToCreateWorkerProcess
  <2>7. new \notin Remaining
    BY <2>2 DEF Remaining
  <2>8. IsFiniteSet(Remaining \cup {new}) /\ Cardinality(Remaining \cup {new}) = Cardinality(Remaining) + 1
    BY <2>5, <2>7, FS_AddElement
  <2>9. IsFiniteSet(Remaining') /\ Cardinality(Remaining') <= Cardinality(Remaining \cup {new})
    BY <2>4, <2>8, FS_Subset
  <2>10. Cardinality(Remaining') \in Nat /\ Len(list) \in Nat
    BY <1>0, <2>9, FS_CardinalityType DEF TypeOK
  <2> QED
    BY <2>5, <2>6, <2>8, <2>9, <2>10 DEF RemainingWithin
<1> QED
  BY <1>1, <1>2 DEF DemandStart

\* A replacement is made only for a process that remains, which then is not any more.
LEMMA InitiateReplacementWithin ==
  ASSUME NEW n \in Nat, ObjectInv, ObjectInv', Summoned, RemainingWithin(n), InitiateReplacement
  PROVE  RemainingWithin(n)'
<1>0. /\ TypeOK /\ stack # <<>> /\ MakeCall /\ Head(stack).fn = "InitiateReplacement"
      /\ Calling("InitiateReplacement") /\ FrameInv(1) /\ Head(stack) = stack[1]
      /\ Len(stack) \in Nat /\ 1 \in 1 .. Len(stack)
  BY First DEF ObjectInv, QuietInvariant, TypeOK, InitiateReplacement, Calling, MakeCall,
     WorkerProcessCall
<1>1. PICK w \in WP : w = This /\ Head(stack).w = w
  BY <1>0, CallingWP DEF WorkerProcessMethods, This
<1>2. CASE wp' = wp
  <2> SUFFICES ASSUME NEW v \in WP, ~Dead(v)', ~Replaced(v)'
               PROVE  ~Dead(v) /\ ~Replaced(v)
    BY RemainingShrinks DEF Remaining
  <2>1. Tame(v)
    BY <1>2 DEF Tame, Dead
  <2> QED
    BY <1>0, <2>1, CallsMarked DEF Tame
<1>3. ASSUME NEW new \in FreeMemory, IsOkToReplaceWorkerProcess, ~wp[w].m_BeingReplaced,
             wp' = Constructed(new, "Replace", w),
             Return(<<Call("Initialize", new), Call("MarkReplaced", w)>>)
      PROVE  RemainingWithin(n)'
  <2>1. w # new /\ new \in WP
    BY <1>0, <1>1, <1>3 DEF FrameInv, Founded, IsOkToReplaceWorkerProcess, FreeMemory
  <2>2. Dead(new) /\ \A v \in WP : v # new => SameLife(wp'[v], wp[v])
    BY <1>0, <1>3, <2>1, NewLife
  <2>3. \A f \in Calls : f.fn \in {"InitiateReplacement", "ReplaceAll"}
    <3>1. Len(stack) <= 2 /\ (Len(stack) = 2 => stack[2].fn = "ReplaceAll")
      BY <1>0 DEF FrameInv, Placed
    <3>2. \A m \in Nat : m <= 2 => \A i \in 1 .. m : i = 1 \/ (i = 2 /\ m = 2)
      OBVIOUS
    <3>3. \A i \in 1 .. Len(stack) : i = 1 \/ (i = 2 /\ Len(stack) = 2)
      BY <1>0, <3>1, <3>2, Zenon
    <3> QED
      BY <1>0, <3>1, <3>3 DEF Calls
  <2>4. /\ \A v \in WP : ~Pending("MarkReplaced", v)
        /\ ~Terminating(w) /\ ~Covered
    BY <1>3, <2>3 DEF Pending, Terminating, At, Covered, Disabling, Calls, IsOkToReplaceWorkerProcess
  <2>5. InList(w)
    BY <1>0, <1>1, <2>4 DEF Summoned, Calls
  <2>6. w \in Remaining
    BY <1>3, <2>4, <2>5 DEF ObjectInv, ListInv, Membership, Remaining, Replaced
  <2> DEFINE f == Call("MarkReplaced", w)
             g == Call("Initialize", new)
             frames == <<g, f>>
  <2>7. /\ f \in Frames /\ g \in Frames /\ f.fn = "MarkReplaced" /\ f.w = w
        /\ Return(frames)
    BY <1>3, <2>1, WorkerFrame DEF Call, WorkerProcessMethods
  <2>8. frames[2] = f /\ 2 \in 1 .. Len(frames) /\ frames \in Seq(Frames)
    BY <2>7
  <2> HIDE DEF f, g, frames
  <2>9. f \in Calls'
    BY <1>0, <2>7, <2>8, CallsAfter
  <2>10. Replaced(w)'
    BY <2>7, <2>9 DEF Replaced, Pending
  <2> DEFINE others == Remaining \ {w}
  <2>11. Remaining' \subseteq others \cup {new}
    BY <2>2, <2>4, <2>10 DEF Remaining, Replaced, SameLife, Dead
  <2>12. new \notin others
    BY <2>2 DEF Remaining
  <2>13. IsFiniteSet(others) /\ Cardinality(others) = Cardinality(Remaining) - 1
    BY <2>6, FS_RemoveElement DEF RemainingWithin
  <2> HIDE DEF others
  <2>14. IsFiniteSet(others \cup {new}) /\ Cardinality(others \cup {new}) = Cardinality(others) + 1
    BY <2>12, <2>13, FS_AddElement
  <2>15. IsFiniteSet(Remaining') /\ Cardinality(Remaining') <= Cardinality(others \cup {new})
    BY <2>11, <2>14, FS_Subset
  <2>16. Cardinality(Remaining') \in Nat /\ Cardinality(Remaining) \in Nat
    BY <2>15, FS_CardinalityType DEF RemainingWithin
  <2> QED
    BY <2>13, <2>14, <2>15, <2>16 DEF RemainingWithin
<1> QED
  BY <1>1, <1>2, <1>3 DEF InitiateReplacement

\* Between two work items, the processes that the pool counts are those that remain.
LEMMA CountedRemaining ==
  ASSUME ObjectInv, Idle
  PROVE  SteadyStateProcessCount <= Cardinality(Remaining)
<1>0. list \in Seq(WP) /\ Len(list) \in Nat /\ stack = <<>>
  BY DEF ObjectInv, QuietInvariant, TypeOK, Idle
<1> DEFINE dom == 1 .. Len(list)
           S == dom \ GoingAwaySoon
           f == [i \in S |-> list[i]]
<1>1. /\ \A i \in dom : list[i] \in WP /\ InList(list[i])
      /\ \A i, j \in dom : list[i] = list[j] => i = j
      /\ GoingAwaySoon = {i \in dom : IsGoingAwaySoon(list[i])}
  <2>1. DOMAIN list = dom
    BY <1>0
  <2> QED
    BY <1>0, <2>1 DEF GoingAwaySoon, InList, ToSet, ObjectInv, ListInv, Distinct
<1>2. IsFiniteSet(dom) /\ Cardinality(dom) = Len(list)
  BY <1>0, FS_Interval
<1> HIDE DEF dom
<1>3. dom \cap GoingAwaySoon = GoingAwaySoon
  BY <1>1
<1>4. Cardinality(S) = SteadyStateProcessCount
  <2>1. Cardinality(dom \ GoingAwaySoon) = Cardinality(dom) - Cardinality(dom \cap GoingAwaySoon)
    BY <1>2, FS_Difference, Zenon
  <2> QED
    BY <1>2, <1>3, <2>1, Zenon DEF SteadyStateProcessCount
<1>5. \A i \in S : list[i] \in Remaining
  <2> SUFFICES ASSUME NEW i \in dom, ~IsGoingAwaySoon(list[i])
               PROVE  list[i] \in Remaining
    BY <1>1
  <2>1. PICK w \in WP : w = list[i] /\ InList(w)
    BY <1>1
  <2>2. wp[w].m_State # "Free"
    BY <2>1, Entries
  <2>3. ~Pending("MarkReplaced", w)
    BY <1>0, CallsEmpty DEF Pending
  <2> QED
    BY <2>1, <2>2, <2>3 DEF Remaining, Dead, Replaced, IsGoingAwaySoon
<1>6. f \in Injection(S, Remaining)
  BY <1>1, <1>5 DEF Injection, IsInjective
<1>7. IsFiniteSet(Remaining)
  BY RemainingListed
<1> HIDE DEF S, f
<1> QED
  BY <1>4, <1>6, <1>7, FS_Injection

-----------------------------------------------------------------------------
LEMMA InitSteady ==
  ASSUME NEW n \in Nat
  PROVE  Init => SteadyInv(n)
<1> SUFFICES ASSUME Init PROVE SteadyInv(n)
  OBVIOUS
<1>1. PICK p \in ConstructedPools : pool \in Started(p)
  BY DEF Init, InitializedPools
<1>2. p \in AppPools /\ p.m_State # "Running" /\ p.maxProcesses \in MaxProcessesSettings
  BY ConstructedIdle DEF AppPools
<1>3. Launches
  BY <1>1, <1>2, StartedLaunches DEF Launches
<1>4. Summoned
  BY CallsEmpty DEF Init, Summoned
<1>5. \A w \in WP : wp[w].m_State = "Free"
  BY DEF Init, NoObject
<1>6. Remaining = {}
  BY <1>5 DEF Remaining, Dead
<1>7. RemainingWithin(n)
  BY <1>6, FS_EmptySet DEF RemainingWithin
<1> QED
  BY <1>3, <1>4, <1>7 DEF SteadyInv

LEMMA NextSteady ==
  ASSUME NEW n \in Nat, \A m \in MaxProcessesSettings : m <= n
  PROVE  ObjectInv /\ RelayInv /\ SteadyInv(n) /\ [Next]_vars => SteadyInv(n)'
<1> SUFFICES ASSUME ObjectInv, RelayInv, SteadyInv(n), [Next]_vars
             PROVE  SteadyInv(n)'
  OBVIOUS
<1>0. TypeOK /\ ObjectInv' /\ Launches /\ Summoned /\ RemainingWithin(n)
  BY NextObject DEF ObjectInv, QuietInvariant, SteadyInv
<1>1. Launches' /\ Summoned'
  BY <1>0, NextLaunches, NextSummoned
<1> SUFFICES RemainingWithin(n)'
  BY <1>1 DEF SteadyInv
<1>2. CASE InitiateReplacement
  BY <1>0, <1>2, InitiateReplacementWithin
<1>3. CASE DemandStart
  BY <1>0, <1>3, DemandStartWithin
<1>4. CASE UNCHANGED vars
  <2>1. Remaining' = Remaining
    BY <1>4 DEF vars, Remaining, Dead, Replaced, Pending, Calls
  <2> QED
    BY <1>0, <2>1, RemainingShrinks
<1>5. CASE MakeCall /\ ~InitiateReplacement
  BY <1>0, <1>5, CallsRemaining, RemainingShrinks
<1>6. CASE \/ WorkerProcessWorkItem \/ Message \/ AppPoolEvent
           \/ \E w \in WP : ProcessStep(w) \/ \E h \in Handles : Callback(w, h)
  BY <1>0, <1>6, IdleStepsRemaining, RemainingShrinks
<1> QED
  BY <1>2, <1>3, <1>4, <1>5, <1>6 DEF Next, ExecuteWorkItem

\* Whatever is configured while processes start, are replaced, fail and leave, the processes
\* that are not on their way out never outnumber the largest maximum ever configured: a
\* replacement is counted in the place of the process that made it (InitiateReplacement), also
\* while it starts and the other still serves.
THEOREM SteadyCeiling ==
  ASSUME NEW n \in Nat, \A m \in MaxProcessesSettings : m <= n
  PROVE  Spec => [](Idle => SteadyStateProcessCount <= n)
<1>1. ObjectInv /\ SteadyInv(n) => (Idle => SteadyStateProcessCount <= n)
  <2> SUFFICES ASSUME ObjectInv, SteadyInv(n), Idle
               PROVE  SteadyStateProcessCount <= n
    OBVIOUS
  <2>1. SteadyStateProcessCount <= Cardinality(Remaining) /\ Cardinality(Remaining) <= n
    BY CountedRemaining DEF SteadyInv, RemainingWithin
  <2>2. SteadyStateProcessCount \in Int /\ Cardinality(Remaining) \in Nat
    <3>1. Len(list) \in Nat /\ DOMAIN list = 1 .. Len(list)
      BY DEF ObjectInv, QuietInvariant, TypeOK
    <3>2. GoingAwaySoon \subseteq 1 .. Len(list) /\ IsFiniteSet(1 .. Len(list))
      BY <3>1, FS_Interval DEF GoingAwaySoon
    <3>3. Cardinality(GoingAwaySoon) \in Nat
      BY <3>2, FS_Subset, FS_CardinalityType
    <3> QED
      BY <3>1, <3>3, RemainingListed DEF SteadyStateProcessCount
  <2> QED
    BY <2>1, <2>2
<1>2. Init => ObjectInv /\ PingInv /\ RelayInv /\ SteadyInv(n)
  BY InitObject, InitPing, InitRelay, InitSteady
<1>3. ObjectInv /\ PingInv /\ RelayInv /\ SteadyInv(n) /\ [Next]_vars
        => ObjectInv' /\ PingInv' /\ RelayInv' /\ SteadyInv(n)'
  BY NextObject, NextPing, NextRelay, NextSteady
<1> QED
  BY <1>1, <1>2, <1>3, PTL DEF Spec

\* The processes that are not on their way out never outnumber the maximum, as long as the
\* maximum is not changed: demands, replacements that start, hang or fail, stops and failures
\* in whatever order do not add up to a process too many (IsOkToCreateWorkerProcess,
\* IsOkToReplaceWorkerProcess).  When the maximum is lowered the processes that replace those
\* of before stay too many until they leave, and SteadyCeiling is what holds.
THEOREM SteadySafety ==
  ASSUME \A m, n \in MaxProcessesSettings : m = n
  PROVE  Spec => []SteadyStateWithinMax
<1>1. PICK n \in MaxProcessesSettings : \A m \in MaxProcessesSettings : m = n
  BY SettingsAssumption
<1>2. n \in Nat /\ \A m \in MaxProcessesSettings : m <= n
  BY <1>1, SettingsAssumption
<1>3. Spec => [](Idle => SteadyStateProcessCount <= n)
  BY <1>2, SteadyCeiling
<1>4. Init => Launches
  BY <1>2, InitSteady DEF SteadyInv
<1>5. ObjectInv /\ Launches /\ [Next]_vars => Launches'
  BY NextLaunches DEF ObjectInv, QuietInvariant
<1>6. Launches /\ (Idle => SteadyStateProcessCount <= n) => SteadyStateWithinMax
  BY <1>1 DEF Launches, SteadyStateWithinMax
<1> QED
  BY <1>3, <1>4, <1>5, <1>6, InitObject, NextObject, PTL DEF Spec
=============================================================================
