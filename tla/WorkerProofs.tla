---------------------------- MODULE WorkerProofs ----------------------------
(***************************************************************************)
(* Proofs about the pool of requests of a worker process, for any number   *)
(* of request objects and threads and any settings.                        *)
(*                                                                         *)
(* The invariant speaks of one request object at a time: Sound(x, free, h) *)
(* relates the object x to h, what each thread does with it.  A step of a  *)
(* thread changes the calls of one thread and one object at most, so that  *)
(* a step is proved in two parts: what the rewritten stack of calls means  *)
(* for the object (Touches, Rewrites), and that the object stays sound     *)
(* when one thread's calls move so (Moved).  The counters follow from the  *)
(* sets they count, which gain or lose the object that was touched.        *)
(***************************************************************************)
EXTENDS WpContext, FiniteSetTheorems, SequenceTheorems, TLAPS

-----------------------------------------------------------------------------
(***************************************************************************)
(* What a thread does with a request: the name of the call, where a call   *)
(* of DoWork without a completion is a kick.                               *)
(***************************************************************************)
Roles == Calls \cup {"Kick"}
Role(f) == IF f.fn = "DoWork" /\ f.res = "None" THEN "Kick" ELSE f.fn
RolesIn(s, r) == {k \in Roles : \E i \in 1 .. Len(s) : s[i].r = r /\ Role(s[i]) = k}
HoldersOf(st, r) == [k \in Roles |-> {t \in AllThreads : k \in RolesIn(st[t], r)}]
Holders(r) == HoldersOf(stack, r)

Bit(b) == IF b THEN 1 ELSE 0
Inner == {"Loop", "Receive"}

\* A call of the state machine stands on the dereference that ends it; apart from
\* that a thread has one call on a request at most, and adds requests once.
Shape(s) ==
  /\ \A i \in 1 .. Len(s) :
       /\ s[i].r \in Req <=> s[i].fn \notin {"Count", "AddPending", "Adding"}
       /\ s[i].r \notin Req => s[i].r = NoReq
       /\ s[i].fn \in Inner => /\ i + 1 <= Len(s)
                               /\ s[i + 1].fn = "Deref" /\ s[i + 1].r = s[i].r
       /\ s[i].fn = "Count" => s[i].n >= 0
  /\ \A i, j \in 1 .. Len(s) : i < j =>
       /\ ~(s[i].fn = "Adding" /\ s[j].fn = "Adding")
       /\ s[i].r = s[j].r /\ s[i].r \in Req => j = i + 1 /\ s[i].fn \in Inner

Drivers(h) == h["Kick"] \cup h["DoWork"] \cup h["Loop"] \cup h["Receive"] \cup h["Free"]
Gone(h) == h["Delete"] \cup h["Release"]

\* The references to a request object that others hold, and its own.
Held(x, h) ==
  Bit(x.io # "None") + Bit(x.core) + Cardinality(h["Deref"])
  + Bit(h["Receive"] # {}) + Bit(h["DoWork"] # {})
Own(x, h) == x._cRefs - Held(x, h)

Busy(x, free, h) == x.io # "None" \/ x.core \/ free \/ Drivers(h) # {}

\* What is true of a request object x, listed as free or not, when h is what
\* the threads do with it.
Sound(x, free, h) ==
  /\ Own(x, h) \in {0, 1}
  /\ Busy(x, free, h) => Own(x, h) = 1
  /\ \A t, u \in Drivers(h) : t = u
  /\ x.io # "None" \/ free => Drivers(h) = {}
  /\ free \/ h["Kick"] # {} \/ h["Free"] # {} => x._cRefs = 1 /\ h["Check"] = {}
  /\ free \/ h["Kick"] # {} => x._ExecState = "START"
  /\ h["Check"] # {} /\ x._ExecState # "ERROR" =>
       /\ x._cRefs = 1 /\ Own(x, h) = 1
       /\ ~free /\ Drivers(h) = {}
       /\ \A t, u \in h["Check"] : t = u
  /\ h["Check"] # {} /\ x._ExecState = "ERROR" => Own(x, h) = 0
  /\ x._ExecState = "ERROR" /\ Own(x, h) = 1 => h["Loop"] # {}
  /\ x._ExecState # "ERROR" /\ Own(x, h) = 0 => Cardinality(h["Deref"]) <= 1
  /\ Own(x, h) = 1 => Busy(x, free, h) \/ h["Deref"] # {} \/ h["Check"] # {}
  /\ x._cRefs = 0 <=> ~x.alive \/ Gone(h) # {}
  /\ ~x.alive => Gone(h) = {}
  /\ \A t, u \in Gone(h) : t = u
  /\ x.core => x._ExecState \in {"PROCESS", "CLIENT_CERT"}
  /\ x.io = "Call" => x.core
  /\ x.io = "Receive" \/ h["Receive"] # {} => x._ExecState = "READ"
  /\ x._ExecState = "CLIENT_CERT" => x.core /\ (x.io = "Call" \/ h["DoWork"] # {} \/ h["Loop"] # {})

SoundInv == \A r \in Req : Sound(req[r], r \in pool.sm_FreeList, Holders(r))
ShapeInv == \A t \in AllThreads : Shape(stack[t])

Waits(x, h) == \/ x.io = "Receive" \/ h["Receive"] # {}
               \/ x._ExecState = "READ" /\ h["Kick"] \cup h["DoWork"] \cup h["Loop"] # {}
Lives(x, h) == x.alive /\ h["Release"] = {}
Living == {r \in Req : Lives(req[r], Holders(r))}
WaitSet == {r \in Req : Waits(req[r], Holders(r))}
CountInv ==
  /\ pool.sm_cRequests = Cardinality(Living)
  /\ pool.sm_cRequestsPending - Cardinality(WaitSet) \in 0 .. Failures
  /\ wp.faults <= pool.settings.maxFaults

Adders == {t \in AllThreads : "Adding" \in RolesIn(stack[t], NoReq)}
AddInv ==
  /\ \A t, u \in Adders : t = u
  /\ ~pool.sm_fAddingRequests => Adders = {}
  /\ pool.sm_fAddingRequests => Adders # {} \/ Failures > 0

Inv == TypeOK /\ ShapeInv /\ SoundInv /\ CountInv /\ AddInv

-----------------------------------------------------------------------------
(***************************************************************************)
(* One request object: what becomes of it when one thread moves.           *)
(***************************************************************************)
Objects == [alive : BOOLEAN, _ExecState : ExecState, _cRefs : Nat,
            io : {"None", "Receive", "Call"}, core : BOOLEAN]
HolderMaps == [Roles -> SUBSET AllThreads]

\* Of the request, thread t has the calls ks, and has the calls to afterwards.
Only(h, t, ks) == \A k \in Roles : t \in h[k] <=> k \in ks
Moved(h, g, t, to) == \A k \in Roles : g[k] = (h[k] \ {t}) \cup (IF k \in to THEN {t} ELSE {})

LEMMA ThreadsFinite == IsFiniteSet(AllThreads)
<1>1. IsFiniteSet(Thread)
  BY ThreadAssumption
<1>2. IsFiniteSet((Thread \cup {Main}) \cup {Monitor})
  BY <1>1, FS_AddElement
<1>3. AllThreads = (Thread \cup {Main}) \cup {Monitor}
  BY DEF AllThreads
<1> QED
  BY <1>2, <1>3

LEMMA SomeThreads ==
  ASSUME NEW S \in SUBSET AllThreads, NEW t
  PROVE  /\ Cardinality(S) \in Nat
         /\ Cardinality(S) = 0 <=> S = {}
         /\ t \in S => Cardinality(S \ {t}) = Cardinality(S) - 1
         /\ t \notin S => Cardinality(S \cup {t}) = Cardinality(S) + 1
         /\ t \in S /\ Cardinality(S) = 1 => S = {t}
<1>1. IsFiniteSet(S)
  BY ThreadsFinite, FS_Subset
<1>2. Cardinality(S) \in Nat /\ (Cardinality(S) = 0 <=> S = {})
  BY <1>1, FS_CardinalityType, FS_EmptySet
<1>3. /\ t \in S => Cardinality(S \ {t}) = Cardinality(S) - 1
      /\ t \notin S => Cardinality(S \cup {t}) = Cardinality(S) + 1
  BY <1>1, FS_AddElement, FS_RemoveElement
<1>4. t \in S /\ Cardinality(S) = 1 => S = {t}
  BY <1>1, FS_Singleton
<1> QED
  BY <1>2, <1>3, <1>4

\* The numbers that a move changes.
LEMMA MovedCounts ==
  ASSUME NEW h \in HolderMaps, NEW g \in HolderMaps, NEW t \in AllThreads, NEW ks, NEW to,
         Only(h, t, ks), Moved(h, g, t, to)
  PROVE  /\ Cardinality(h["Deref"]) \in Nat /\ Cardinality(g["Deref"]) \in Nat
         /\ Cardinality(h["Deref"]) = 0 <=> h["Deref"] = {}
         /\ Cardinality(g["Deref"]) = 0 <=> g["Deref"] = {}
         /\ Cardinality(g["Deref"]) = Cardinality(h["Deref"])
               - Bit("Deref" \in ks) + Bit("Deref" \in to)
<1>1. "Deref" \in Roles /\ h["Deref"] \in SUBSET AllThreads /\ g["Deref"] \in SUBSET AllThreads
  BY DEF HolderMaps, Roles, Calls
<1>2. /\ "Deref" \in ks <=> t \in h["Deref"]
      /\ g["Deref"] = (h["Deref"] \ {t}) \cup (IF "Deref" \in to THEN {t} ELSE {})
  BY <1>1 DEF Only, Moved
<1> DEFINE S == h["Deref"]
           T == S \ {t}
<1>3. T \in SUBSET AllThreads /\ t \notin T
  BY <1>1
<1>4. Cardinality(S) \in Nat /\ (Cardinality(S) = 0 <=> S = {})
  BY <1>1, SomeThreads
<1>5. Cardinality(T) \in Nat /\ Cardinality(T) = Cardinality(S) - Bit("Deref" \in ks)
  <2>1. CASE t \in S
    BY <1>1, <1>2, <1>3, <2>1, SomeThreads DEF Bit
  <2>2. CASE t \notin S
    <3>1. T = S
      BY <2>2
    <3>2. Bit("Deref" \in ks) = 0
      BY <1>2, <2>2 DEF Bit
    <3>3. Cardinality(T) = Cardinality(S)
      BY <3>1
    <3> HIDE DEF T, S
    <3> QED
      BY <1>4, <3>2, <3>3
  <2> QED
    BY <2>1, <2>2
<1>6. Cardinality(g["Deref"]) = Cardinality(T) + Bit("Deref" \in to)
  <2>1. CASE "Deref" \in to
    <3>1. g["Deref"] = T \cup {t}
      BY <1>2, <2>1
    <3> QED
      BY <1>3, <2>1, <3>1, SomeThreads DEF Bit
  <2>2. CASE "Deref" \notin to
    <3>1. g["Deref"] = T
      BY <1>2, <2>2
    <3> QED
      BY <1>5, <2>2, <3>1 DEF Bit
  <2> QED
    BY <2>1, <2>2
<1>7. Cardinality(g["Deref"]) \in Nat /\ (Cardinality(g["Deref"]) = 0 <=> g["Deref"] = {})
  BY <1>1, SomeThreads
<1> QED
  BY <1>4, <1>5, <1>6, <1>7 DEF Bit

\* The thread that drives a request is alone in that, and nobody else decides on it.
LEMMA DriverAlone ==
  ASSUME NEW x \in Objects, NEW free \in BOOLEAN, NEW h \in HolderMaps, NEW t \in AllThreads,
         Sound(x, free, h), t \in Drivers(h)
  PROVE  /\ Drivers(h) = {t} /\ h["Check"] = {} /\ h["Delete"] = {} /\ h["Release"] = {}
         /\ ~free /\ x.io = "None" /\ x.alive /\ Own(x, h) = 1
<1>1. Drivers(h) = {t}
  BY DEF Sound
<1>2. Own(x, h) = 1 /\ ~free /\ x.io = "None"
  BY DEF Sound, Busy
<1>3. h["Check"] = {}
  BY <1>1, <1>2 DEF Sound
<1>4. x._cRefs # 0
  <2>1. Cardinality(h["Deref"]) \in Nat
    BY SomeThreads DEF HolderMaps, Roles, Calls
  <2>2. Held(x, h) \in Nat
    BY <2>1 DEF Held, Bit
  <2> QED
    BY <1>2, <2>2 DEF Own, Objects
<1>5. x.alive /\ Gone(h) = {}
  BY <1>4 DEF Sound
<1> QED
  BY <1>1, <1>2, <1>3, <1>5 DEF Gone

Driving == {"Kick", "DoWork", "Loop", "Receive", "Free"}
Watched == Driving \cup {"Check", "Delete", "Release"}

LEMMA DriverMoved ==
  ASSUME NEW x \in Objects, NEW free \in BOOLEAN, NEW h \in HolderMaps, NEW g \in HolderMaps,
         NEW t \in AllThreads, NEW ks, NEW to, NEW d \in Driving, d \in ks,
         Sound(x, free, h), Only(h, t, ks), Moved(h, g, t, to)
  PROVE  /\ \A k \in Watched : h[k] = IF k \in ks THEN {t} ELSE {}
         /\ \A k \in Watched : g[k] = IF k \in to THEN {t} ELSE {}
         /\ ~free /\ x.io = "None" /\ x.alive
         /\ x._cRefs = 1 + Bit(x.core) + Cardinality(h["Deref"])
                         + Bit("Receive" \in ks) + Bit("DoWork" \in ks)
<1>1. \A k \in Watched : k \in Roles
  BY DEF Watched, Driving, Roles, Calls
<1>2. t \in Drivers(h)
  BY <1>1 DEF Only, Drivers, Driving, Watched
<1>3. /\ Drivers(h) = {t} /\ h["Check"] = {} /\ h["Delete"] = {} /\ h["Release"] = {}
      /\ ~free /\ x.io = "None" /\ x.alive /\ Own(x, h) = 1
  BY <1>2, DriverAlone
<1>4. \A k \in Watched : h[k] \subseteq {t}
  BY <1>3 DEF Drivers, Watched, Driving
<1>5. \A k \in Watched : h[k] = IF k \in ks THEN {t} ELSE {}
  BY <1>1, <1>4 DEF Only
<1>6. \A k \in Watched : g[k] = IF k \in to THEN {t} ELSE {}
  BY <1>1, <1>4 DEF Moved
<1>7. Cardinality(h["Deref"]) \in Nat
  BY SomeThreads DEF HolderMaps, Roles, Calls
<1>8. x._cRefs = 1 + Bit(x.core) + Cardinality(h["Deref"])
                   + Bit("Receive" \in ks) + Bit("DoWork" \in ks)
  <2>1. Bit(h["Receive"] # {}) = Bit("Receive" \in ks) /\ Bit(h["DoWork"] # {}) = Bit("DoWork" \in ks)
    BY <1>5 DEF Bit, Watched, Driving
  <2>2. Bit(x.io # "None") = 0 /\ Bit(x.core) \in Nat /\ Bit("Receive" \in ks) \in Nat
        /\ Bit("DoWork" \in ks) \in Nat
    BY <1>3 DEF Bit
  <2> QED
    BY <1>3, <1>7, <2>1, <2>2 DEF Own, Held, Objects
<1> QED
  BY <1>3, <1>5, <1>6, <1>8

\* Thread t drives the object, in call k.
DrivenBy(x, h, t, k) ==
  /\ \A j \in Watched : h[j] = IF j = k THEN {t} ELSE {}
  /\ x.alive /\ x.io = "None"
  /\ x._cRefs = 1 + Bit(x.core) + Cardinality(h["Deref"]) + Bit(k \in {"Receive", "DoWork"})
  /\ k \in {"Loop", "Receive"} => h["Deref"] # {}
  /\ k \in {"Kick", "Free"} => x._cRefs = 1
  /\ k = "Kick" => x._ExecState = "START"
  /\ k = "Receive" => x._ExecState = "READ"
  /\ x._ExecState = "ERROR" => k = "Loop"
  /\ x.core => x._ExecState \in {"PROCESS", "CLIENT_CERT"}
  /\ x._ExecState = "CLIENT_CERT" => x.core /\ k \in {"DoWork", "Loop"}

\* The calls of a thread that drives a request.
CallsOf(k) == IF k \in Inner THEN {k, "Deref"} ELSE {k}

LEMMA SoundDriven ==
  ASSUME NEW x \in Objects, NEW free \in BOOLEAN, NEW h \in HolderMaps,
         NEW t \in AllThreads, NEW k \in Driving,
         Sound(x, free, h), Only(h, t, CallsOf(k))
  PROVE  DrivenBy(x, h, t, k) /\ ~free
<1>1. k \in CallsOf(k) /\ Moved(h, h, t, CallsOf(k))
  <2>1. k \in CallsOf(k)
    BY DEF CallsOf
  <2>2. \A j \in Roles : h[j] = (h[j] \ {t}) \cup (IF j \in CallsOf(k) THEN {t} ELSE {})
    BY DEF Only
  <2> QED
    BY <2>1, <2>2 DEF Moved
<1>2. /\ \A j \in Watched : h[j] = IF j \in CallsOf(k) THEN {t} ELSE {}
      /\ ~free /\ x.io = "None" /\ x.alive
      /\ x._cRefs = 1 + Bit(x.core) + Cardinality(h["Deref"])
                      + Bit("Receive" \in CallsOf(k)) + Bit("DoWork" \in CallsOf(k))
  <2>1. PICK ks : ks = CallsOf(k)
    OBVIOUS
  <2>2. k \in ks /\ Only(h, t, ks) /\ Moved(h, h, t, ks)
    BY <1>1, <2>1
  <2>3. /\ \A j \in Watched : h[j] = IF j \in ks THEN {t} ELSE {}
        /\ ~free /\ x.io = "None" /\ x.alive
        /\ x._cRefs = 1 + Bit(x.core) + Cardinality(h["Deref"])
                        + Bit("Receive" \in ks) + Bit("DoWork" \in ks)
    BY <2>2, DriverMoved, SMTT(30)
  <2> QED
    BY <2>1, <2>3
<1>3. \A j \in Watched : j \in CallsOf(k) <=> j = k
  BY DEF CallsOf, Watched, Driving, Inner
<1>4. \A j \in Watched : h[j] = IF j = k THEN {t} ELSE {}
  BY <1>2, <1>3
<1>5. Cardinality(h["Deref"]) \in Nat
  BY SomeThreads DEF HolderMaps, Roles, Calls
<1>6. x._cRefs = 1 + Bit(x.core) + Cardinality(h["Deref"]) + Bit(k \in {"Receive", "DoWork"})
  BY <1>2, <1>3, <1>5 DEF Bit, Watched, Driving
<1>7. k \in {"Loop", "Receive"} => h["Deref"] # {}
  BY DEF Only, CallsOf, Inner, Roles, Calls
<1>8. Own(x, h) = 1
  <2>1. (h["Receive"] # {} <=> k = "Receive") /\ (h["DoWork"] # {} <=> k = "DoWork")
    BY <1>4 DEF Watched, Driving
  <2>2. /\ Bit(k \in {"Receive", "DoWork"}) = Bit(h["Receive"] # {}) + Bit(h["DoWork"] # {})
        /\ Bit(h["Receive"] # {}) \in Int /\ Bit(h["DoWork"] # {}) \in Int /\ Bit(x.core) \in Int
    BY <2>1 DEF Bit
  <2>3. Bit(x.io # "None") = 0
    BY <1>2 DEF Bit
  <2>4. PICK a \in Int, b \in Int, c \in Int, n \in Int :
          a = Bit(x.core) /\ b = Bit(h["Receive"] # {}) /\ c = Bit(h["DoWork"] # {}) /\ n = Cardinality(h["Deref"])
    <3>1. Cardinality(h["Deref"]) \in Int
      BY <1>5
    <3> QED
      BY <2>2, <3>1, Zenon
  <2>5. x._cRefs = 1 + a + n + (b + c)
    BY <1>6, <2>2, <2>4
  <2>6. Held(x, h) = 0 + a + n + b + c
    BY <2>3, <2>4 DEF Held
  <2> QED
    BY <2>5, <2>6 DEF Own
<1>9. /\ h["Kick"] = (IF k = "Kick" THEN {t} ELSE {}) /\ h["Free"] = (IF k = "Free" THEN {t} ELSE {})
      /\ h["Receive"] = (IF k = "Receive" THEN {t} ELSE {})
      /\ h["Loop"] = (IF k = "Loop" THEN {t} ELSE {}) /\ h["DoWork"] = (IF k = "DoWork" THEN {t} ELSE {})
  BY <1>4 DEF Watched, Driving
<1> QED
  BY <1>2, <1>4, <1>6, <1>7, <1>8, <1>9 DEF Sound, DrivenBy

LEMMA DrivenSound ==
  ASSUME NEW x \in Objects, NEW h \in HolderMaps, NEW t \in AllThreads, NEW k \in Driving,
         DrivenBy(x, h, t, k)
  PROVE  Sound(x, FALSE, h)
<1> DEFINE n == Cardinality(h["Deref"])
<1>1. n \in Nat /\ (n = 0 <=> h["Deref"] = {})
  BY SomeThreads DEF HolderMaps, Roles, Calls
<1>2. /\ h["Kick"] = (IF k = "Kick" THEN {t} ELSE {}) /\ h["Free"] = (IF k = "Free" THEN {t} ELSE {})
      /\ h["Receive"] = (IF k = "Receive" THEN {t} ELSE {})
      /\ h["Loop"] = (IF k = "Loop" THEN {t} ELSE {}) /\ h["DoWork"] = (IF k = "DoWork" THEN {t} ELSE {})
      /\ h["Check"] = {} /\ h["Delete"] = {} /\ h["Release"] = {}
  BY DEF DrivenBy, Watched, Driving
<1>3. Drivers(h) = {t} /\ Gone(h) = {}
  BY <1>2 DEF Drivers, Gone, Driving
<1>4. x._cRefs = 1 + Bit(x.core) + n + Bit(k \in {"Receive", "DoWork"})
  BY DEF DrivenBy
<1> HIDE DEF n
<1>5. Own(x, h) = 1 /\ x._cRefs # 0
  BY <1>1, <1>2, <1>4 DEF Own, Held, Bit, DrivenBy, Objects, n, Driving
<1> QED
  BY <1>1, <1>2, <1>3, <1>5 DEF Sound, Busy, DrivenBy

LEMMA DrivenCounts ==
  ASSUME NEW x \in Objects, NEW h \in HolderMaps, NEW t \in AllThreads, NEW k \in Driving,
         DrivenBy(x, h, t, k)
  PROVE  /\ Lives(x, h)
         /\ Waits(x, h) <=> k = "Receive" \/ (x._ExecState = "READ" /\ k # "Free")
<1>1. /\ h["Kick"] = (IF k = "Kick" THEN {t} ELSE {})
      /\ h["Receive"] = (IF k = "Receive" THEN {t} ELSE {})
      /\ h["Loop"] = (IF k = "Loop" THEN {t} ELSE {}) /\ h["DoWork"] = (IF k = "DoWork" THEN {t} ELSE {})
      /\ h["Release"] = {} /\ x.alive /\ x.io = "None"
  BY DEF DrivenBy, Watched, Driving
<1> QED
  BY <1>1 DEF Lives, Waits, Driving

\* Nobody but t has anything to decide about the request.
Alone(g, t, to) == \A j \in Watched : g[j] = IF j \in to THEN {t} ELSE {}

LEMMA DrivenMoves ==
  ASSUME NEW x \in Objects, NEW free \in BOOLEAN, NEW h \in HolderMaps, NEW g \in HolderMaps,
         NEW t \in AllThreads, NEW k \in Driving, NEW to,
         Sound(x, free, h), Only(h, t, CallsOf(k)), Moved(h, g, t, to)
  PROVE  Alone(g, t, to)
<1>1. PICK ks : ks = CallsOf(k)
  OBVIOUS
<1>2. k \in ks /\ Only(h, t, ks)
  BY <1>1 DEF CallsOf
<1> QED
  BY <1>2, DriverMoved, SMTT(30) DEF Alone

\* A step of the driver that leaves it the driver.
LEMMA DriverGoesOn ==
  ASSUME NEW x \in Objects, NEW y \in Objects, NEW free \in BOOLEAN,
         NEW h \in HolderMaps, NEW g \in HolderMaps, NEW t \in AllThreads,
         NEW k \in Driving, NEW m \in Driving,
         Sound(x, free, h), Only(h, t, CallsOf(k)), Moved(h, g, t, CallsOf(m)),
         y.alive <=> x.alive, y.core <=> x.core, y.io = x.io,
         y._cRefs = x._cRefs + Bit(m \in Inner) - Bit(k \in Inner)
                     + Bit(m \in {"Receive", "DoWork"}) - Bit(k \in {"Receive", "DoWork"}),
         m \in {"Kick", "Free"} => y._cRefs = 1,
         m = "Kick" => y._ExecState = "START",
         m = "Receive" => y._ExecState = "READ",
         y._ExecState = "ERROR" => m = "Loop",
         y.core => y._ExecState \in {"PROCESS", "CLIENT_CERT"},
         y._ExecState = "CLIENT_CERT" => y.core /\ m \in {"DoWork", "Loop"}
  PROVE  Sound(y, free, g) /\ DrivenBy(y, g, t, m)
<1>1. DrivenBy(x, h, t, k) /\ ~free
  BY SoundDriven
<1>3. \A j \in Watched : g[j] = IF j \in CallsOf(m) THEN {t} ELSE {}
  <2>1. Alone(g, t, CallsOf(m))
    BY DrivenMoves, Zenon
  <2> QED
    BY <2>1 DEF Alone
<1>4. \A j \in Watched : g[j] = IF j = m THEN {t} ELSE {}
  BY <1>3 DEF CallsOf, Watched, Driving, Inner
<1>5. /\ Cardinality(h["Deref"]) \in Nat /\ Cardinality(g["Deref"]) \in Nat
      /\ Cardinality(g["Deref"]) = Cardinality(h["Deref"])
            - Bit("Deref" \in CallsOf(k)) + Bit("Deref" \in CallsOf(m))
  BY MovedCounts
<1>6. ("Deref" \in CallsOf(k) <=> k \in Inner) /\ ("Deref" \in CallsOf(m) <=> m \in Inner)
  BY DEF CallsOf, Driving
<1>7. Bit("Deref" \in CallsOf(k)) = Bit(k \in Inner) /\ Bit("Deref" \in CallsOf(m)) = Bit(m \in Inner)
  BY <1>6 DEF Bit
<1>8. y._cRefs = 1 + Bit(y.core) + Cardinality(g["Deref"]) + Bit(m \in {"Receive", "DoWork"})
  <2>1. x._cRefs = 1 + Bit(x.core) + Cardinality(h["Deref"]) + Bit(k \in {"Receive", "DoWork"})
    BY <1>1 DEF DrivenBy
  <2>2. Bit(y.core) = Bit(x.core)
    BY DEF Bit
  <2> QED
    BY <1>5, <1>7, <2>1, <2>2 DEF Bit
<1>9. m \in {"Loop", "Receive"} => g["Deref"] # {}
  BY DEF Moved, CallsOf, Inner, Roles, Calls
<1>10. DrivenBy(y, g, t, m)
  BY <1>1, <1>4, <1>8, <1>9 DEF DrivenBy
<1> QED
  BY <1>1, <1>10, DrivenSound

\* The driver hands the request over, to HTTP.sys or to the core, or gives it up; the
\* dereference that ends its work is still to come.
LEMMA DriverLeaves ==
  ASSUME NEW x \in Objects, NEW y \in Objects, NEW free \in BOOLEAN,
         NEW h \in HolderMaps, NEW g \in HolderMaps, NEW t \in AllThreads,
         NEW k \in Inner, NEW own \in {0, 1},
         Sound(x, free, h), Only(h, t, CallsOf(k)), Moved(h, g, t, {"Deref"}),
         y.alive <=> x.alive,
         y._cRefs = x._cRefs - 1 - Bit(x.core) - Bit(k = "Receive")
                     + own + Bit(y.io # "None") + Bit(y.core),
         own = 0 => y._ExecState = "ERROR" /\ y.io = "None" /\ ~y.core,
         own = 1 => y._ExecState # "ERROR",
         y.core => y._ExecState \in {"PROCESS", "CLIENT_CERT"},
         y.io = "Call" => y.core,
         y.io = "Receive" => y._ExecState = "READ",
         y._ExecState = "CLIENT_CERT" => y.core /\ y.io = "Call"
  PROVE  Sound(y, free, g) /\ Lives(y, g) /\ (Waits(y, g) <=> y.io = "Receive")
<1>0. k \in Driving
  BY DEF Driving, Inner
<1>1. DrivenBy(x, h, t, k) /\ ~free
  BY <1>0, SoundDriven
<1>2. Alone(g, t, {"Deref"})
  BY <1>0, DrivenMoves, Zenon
<1>3. /\ g["Kick"] = {} /\ g["DoWork"] = {} /\ g["Loop"] = {} /\ g["Receive"] = {} /\ g["Free"] = {}
      /\ g["Check"] = {} /\ g["Delete"] = {} /\ g["Release"] = {}
  BY <1>2 DEF Alone, Watched, Driving
<1> DEFINE n == Cardinality(g["Deref"])
<1>4. /\ Cardinality(h["Deref"]) \in Nat /\ n \in Nat /\ (n = 0 <=> g["Deref"] = {})
      /\ n = Cardinality(h["Deref"])
  <2>1. "Deref" \in CallsOf(k)
    BY DEF CallsOf
  <2> QED
    BY <2>1, MovedCounts DEF Bit
<1>5. g["Deref"] # {} /\ x.alive
  BY <1>1 DEF DrivenBy, Moved, Roles, Calls
<1>6. y._cRefs = own + Bit(y.io # "None") + Bit(y.core) + n
  <2>1. x._cRefs = 1 + Bit(x.core) + Cardinality(h["Deref"]) + Bit(k \in {"Receive", "DoWork"})
    BY <1>1 DEF DrivenBy
  <2>2. Bit(k \in {"Receive", "DoWork"}) = Bit(k = "Receive")
    BY DEF Bit, Inner
  <2> HIDE DEF n
  <2> QED
    BY <1>4, <2>1, <2>2 DEF Bit
<1> HIDE DEF n
<1>7. Own(y, g) = own /\ y._cRefs # 0
  BY <1>3, <1>4, <1>5, <1>6 DEF Own, Held, Bit, n
<1>8. Drivers(g) = {} /\ Gone(g) = {}
  BY <1>3 DEF Drivers, Gone
<1>9. Lives(y, g) /\ (Waits(y, g) <=> y.io = "Receive")
  BY <1>3, <1>5 DEF Lives, Waits
<1> QED
  BY <1>1, <1>3, <1>4, <1>5, <1>7, <1>8, <1>9 DEF Sound, Busy

\* The state machine stands on a dereference.
Standing(h) == h["Loop"] \subseteq h["Deref"] /\ h["Receive"] \subseteq h["Deref"]

LEMMA DerefMoves ==
  ASSUME NEW h \in HolderMaps, NEW g \in HolderMaps, NEW t \in AllThreads,
         NEW to \in SUBSET {"Check", "Delete"},
         Only(h, t, {"Deref"}), Moved(h, g, t, to)
  PROVE  /\ Cardinality(h["Deref"]) \in Nat \ {0}
         /\ Cardinality(g["Deref"]) = Cardinality(h["Deref"]) - 1
         /\ Cardinality(g["Deref"]) = 0 <=> g["Deref"] = {}
         /\ t \in h["Deref"] /\ g["Deref"] = h["Deref"] \ {t}
         /\ g["Kick"] = h["Kick"] /\ g["DoWork"] = h["DoWork"] /\ g["Loop"] = h["Loop"]
         /\ g["Receive"] = h["Receive"] /\ g["Free"] = h["Free"] /\ g["Release"] = h["Release"]
         /\ g["Check"] = (IF "Check" \in to THEN h["Check"] \cup {t} ELSE h["Check"])
         /\ g["Delete"] = (IF "Delete" \in to THEN h["Delete"] \cup {t} ELSE h["Delete"])
<1>1. "Deref" \notin to /\ "Deref" \in {"Deref"}
  OBVIOUS
<1>2. PICK ks : ks = {"Deref"}
  OBVIOUS
<1>3. Only(h, t, ks)
  BY <1>2
<1>4. /\ Cardinality(h["Deref"]) \in Nat /\ Cardinality(g["Deref"]) \in Nat
      /\ Cardinality(h["Deref"]) = 0 <=> h["Deref"] = {}
      /\ Cardinality(g["Deref"]) = 0 <=> g["Deref"] = {}
      /\ Cardinality(g["Deref"]) = Cardinality(h["Deref"])
            - Bit("Deref" \in ks) + Bit("Deref" \in to)
  BY <1>3, MovedCounts
<1>5. t \in h["Deref"]
  BY DEF Only, Roles, Calls
<1>6. /\ t \notin h["Kick"] /\ t \notin h["DoWork"] /\ t \notin h["Loop"]
      /\ t \notin h["Receive"] /\ t \notin h["Free"] /\ t \notin h["Release"]
      /\ t \notin h["Check"] /\ t \notin h["Delete"]
  BY DEF Only, Roles, Calls
<1>7. /\ "Kick" \notin to /\ "DoWork" \notin to /\ "Loop" \notin to /\ "Receive" \notin to
      /\ "Free" \notin to /\ "Release" \notin to
  OBVIOUS
<1>8. /\ g["Kick"] = (h["Kick"] \ {t}) \cup (IF "Kick" \in to THEN {t} ELSE {})
      /\ g["DoWork"] = (h["DoWork"] \ {t}) \cup (IF "DoWork" \in to THEN {t} ELSE {})
      /\ g["Loop"] = (h["Loop"] \ {t}) \cup (IF "Loop" \in to THEN {t} ELSE {})
      /\ g["Receive"] = (h["Receive"] \ {t}) \cup (IF "Receive" \in to THEN {t} ELSE {})
      /\ g["Free"] = (h["Free"] \ {t}) \cup (IF "Free" \in to THEN {t} ELSE {})
      /\ g["Release"] = (h["Release"] \ {t}) \cup (IF "Release" \in to THEN {t} ELSE {})
      /\ g["Check"] = (h["Check"] \ {t}) \cup (IF "Check" \in to THEN {t} ELSE {})
      /\ g["Delete"] = (h["Delete"] \ {t}) \cup (IF "Delete" \in to THEN {t} ELSE {})
      /\ g["Deref"] = (h["Deref"] \ {t}) \cup (IF "Deref" \in to THEN {t} ELSE {})
  BY DEF Moved, Roles, Calls
<1>9. /\ g["Kick"] = h["Kick"] /\ g["DoWork"] = h["DoWork"] /\ g["Loop"] = h["Loop"]
      /\ g["Receive"] = h["Receive"] /\ g["Free"] = h["Free"] /\ g["Release"] = h["Release"]
  BY <1>6, <1>7, <1>8
<1>10. /\ g["Check"] = (IF "Check" \in to THEN h["Check"] \cup {t} ELSE h["Check"])
       /\ g["Delete"] = (IF "Delete" \in to THEN h["Delete"] \cup {t} ELSE h["Delete"])
       /\ g["Deref"] = h["Deref"] \ {t}
  BY <1>1, <1>6, <1>8
<1>11. Bit("Deref" \in ks) = 1 /\ Bit("Deref" \in to) = 0
  BY <1>1, <1>2 DEF Bit
<1> QED
  BY <1>4, <1>5, <1>9, <1>10, <1>11

\* A reference is dropped.  The thread that leaves the object its own reference alone is
\* the one to decide on it; the one that drops the last deletes it.
LEMMA DerefSound ==
  ASSUME NEW x \in Objects, NEW y \in Objects, NEW free \in BOOLEAN,
         NEW h \in HolderMaps, NEW g \in HolderMaps, NEW t \in AllThreads,
         NEW to \in SUBSET {"Check", "Delete"},
         Sound(x, free, h), Standing(h), Only(h, t, {"Deref"}), Moved(h, g, t, to),
         "Delete" \in to <=> y._cRefs = 0, "Check" \in to <=> y._cRefs = 1,
         y.alive <=> x.alive, y.core <=> x.core, y.io = x.io, y._ExecState = x._ExecState,
         y._cRefs = x._cRefs - 1
  PROVE  /\ Sound(y, free, g)
         /\ Lives(y, g) <=> Lives(x, h)
         /\ Waits(y, g) <=> Waits(x, h)
<1>0. /\ Cardinality(h["Deref"]) \in Nat \ {0}
      /\ Cardinality(g["Deref"]) = Cardinality(h["Deref"]) - 1
      /\ (Cardinality(g["Deref"]) = 0 <=> g["Deref"] = {})
      /\ t \in h["Deref"] /\ g["Deref"] = h["Deref"] \ {t}
      /\ g["Kick"] = h["Kick"] /\ g["DoWork"] = h["DoWork"] /\ g["Loop"] = h["Loop"]
      /\ g["Receive"] = h["Receive"] /\ g["Free"] = h["Free"] /\ g["Release"] = h["Release"]
      /\ g["Check"] = (IF "Check" \in to THEN h["Check"] \cup {t} ELSE h["Check"])
      /\ g["Delete"] = (IF "Delete" \in to THEN h["Delete"] \cup {t} ELSE h["Delete"])
  BY DerefMoves
<1> DEFINE n == Cardinality(h["Deref"])
           m == Cardinality(g["Deref"])
<1>1. n \in Nat /\ m \in Nat /\ m = n - 1 /\ (m = 0 <=> g["Deref"] = {}) /\ n # 0
  BY <1>0
<1>3. /\ g["Kick"] = h["Kick"] /\ g["DoWork"] = h["DoWork"] /\ g["Loop"] = h["Loop"]
      /\ g["Receive"] = h["Receive"] /\ g["Free"] = h["Free"] /\ g["Release"] = h["Release"]
  BY <1>0
<1>4. /\ g["Check"] = IF y._cRefs = 1 THEN h["Check"] \cup {t} ELSE h["Check"]
      /\ g["Delete"] = IF y._cRefs = 0 THEN h["Delete"] \cup {t} ELSE h["Delete"]
  BY <1>0
<1>5. x._cRefs # 0 /\ Gone(h) = {} /\ x.alive /\ x._cRefs \in Nat /\ y._cRefs \in Nat
  BY DEF Sound, Objects
<1>a. t \notin h["Loop"] /\ h["Loop"] \subseteq h["Deref"]
  BY DEF Only, Roles, Calls, Standing
<1> HIDE DEF n, m
<1>6. Held(y, g) = Held(x, h) - 1 /\ Own(y, g) = Own(x, h) /\ Held(x, h) \in Nat
  BY <1>1, <1>3 DEF Held, Own, Bit, n, m, Objects
<1>7. Drivers(g) = Drivers(h) /\ (Busy(y, free, g) <=> Busy(x, free, h))
  BY <1>3 DEF Drivers, Busy
<1>8. Own(x, h) \in {0, 1} /\ x._cRefs = Own(x, h) + Held(x, h)
  BY <1>5, <1>6 DEF Sound, Own
<1>b. Held(x, h) >= 1
  BY <1>1, <1>6 DEF Held, Bit, n
<1>9. h["Kick"] = {} /\ h["Free"] = {} /\ ~free
  \* nobody else has a reference then
  BY <1>8, <1>b, <1>6 DEF Sound, Busy, Drivers
<1>c. h["Loop"] # {} => m # 0
  BY <1>0, <1>a, <1>1
<1>10. ASSUME y._cRefs = 0 PROVE Sound(y, free, g)
  <2>1. Held(y, g) = 0 /\ Own(y, g) = 0
    BY <1>5, <1>6, <1>8, <1>10, <1>b
  <2>2. m = 0 /\ Gone(g) = {t}
    <3>1. m = 0
      BY <1>1, <2>1 DEF Held, Bit, m
    <3>2. g["Delete"] = {t} /\ g["Release"] = {}
      BY <1>3, <1>4, <1>5, <1>10 DEF Gone
    <3> QED
      BY <3>1, <3>2 DEF Gone
  <2> QED
    BY <1>1, <1>3, <1>4, <1>5, <1>6, <1>7, <1>9, <1>10, <1>c, <2>1, <2>2 DEF Sound, m
<1>11. ASSUME y._cRefs = 1 PROVE Sound(y, free, g)
  <2>1. Gone(g) = {}
    BY <1>3, <1>4, <1>5, <1>11 DEF Gone
  <2>2. CASE Own(x, h) = 1
    <3>1. Held(y, g) = 0 /\ Held(x, h) = 1
      BY <1>5, <1>6, <1>8, <1>11, <2>2
    <3>2. m = 0 /\ y.io = "None" /\ ~y.core /\ g["Receive"] = {} /\ g["DoWork"] = {}
      BY <1>1, <3>1 DEF Held, Bit, m
    <3>3. h["Loop"] = {} /\ Drivers(h) = {}
      BY <1>3, <1>9, <1>c, <3>2 DEF Drivers
    <3>4. x._ExecState # "ERROR"
      BY <2>2, <3>3 DEF Sound
    <3>5. h["Check"] = {}
      BY <1>5, <1>11, <2>2, <3>4 DEF Sound
    <3>6. g["Check"] = {t}
      BY <1>4, <1>11, <3>5
    <3>7. Busy(y, free, g) = FALSE /\ Drivers(g) = {} /\ Own(y, g) = 1
      BY <1>6, <1>7, <1>9, <2>2, <3>2, <3>3 DEF Busy
    <3> QED
      BY <1>1, <1>3, <1>5, <1>9, <1>11, <2>1, <3>2, <3>3, <3>4, <3>6, <3>7 DEF Sound, m
  <2>3. CASE Own(x, h) = 0
    <3>1. ~Busy(x, free, h) /\ Drivers(h) = {}
      BY <2>3 DEF Sound, Busy
    <3>2. Held(x, h) = 2 /\ n = 2
      <4>1. Held(x, h) = 2
        BY <1>5, <1>6, <1>8, <1>11, <2>3
      <4>2. ~(x.io # "None") /\ ~x.core /\ h["Receive"] = {} /\ h["DoWork"] = {}
        BY <3>1 DEF Busy, Drivers
      <4> QED
        BY <1>1, <4>1, <4>2 DEF Held, Bit, n
    <3>3. x._ExecState = "ERROR"
      BY <2>3, <3>2 DEF Sound, n
    <3>4. ~Busy(y, free, g) /\ Drivers(g) = {} /\ Own(y, g) = 0 /\ y._ExecState = "ERROR"
      BY <1>6, <1>7, <2>3, <3>1, <3>3
    <3>5. y.io = x.io /\ y.core = x.core /\ ~x.core /\ x.io = "None"
      BY <3>1 DEF Busy, Objects
    <3> QED
      BY <1>1, <1>3, <1>5, <1>9, <1>11, <2>1, <3>4, <3>5 DEF Sound, Drivers
  <2> QED
    BY <1>8, <2>2, <2>3
<1>12. ASSUME y._cRefs \notin {0, 1} PROVE Sound(y, free, g)
  <2>1. Gone(g) = {} /\ g["Check"] = h["Check"]
    BY <1>3, <1>4, <1>5, <1>12 DEF Gone
  <2>2. Held(y, g) # 0 /\ Held(y, g) \in Nat
    BY <1>5, <1>6, <1>8, <1>12, <1>b
  <2>3. Busy(y, free, g) \/ g["Deref"] # {}
    BY <1>1, <2>2 DEF Held, Bit, Busy, Drivers, m
  <2>4. x._ExecState # "ERROR" /\ Own(x, h) = 0 => m <= 1
    BY <1>1 DEF Sound, n
  <2>5. x._cRefs # 1
    BY <1>5, <1>12
  <2> QED
    BY <1>1, <1>3, <1>5, <1>6, <1>7, <1>8, <1>9, <1>12, <2>1, <2>3, <2>4, <2>5 DEF Sound, m
<1>13. (Lives(y, g) <=> Lives(x, h)) /\ (Waits(y, g) <=> Waits(x, h))
  BY <1>3 DEF Lives, Waits
<1> QED
  BY <1>5, <1>10, <1>11, <1>12, <1>13

\* What a move does to each set of holders, when the thread is not in a call that ks
\* leaves out.
LEMMA MovedSets ==
  ASSUME NEW h \in HolderMaps, NEW g \in HolderMaps, NEW t \in AllThreads, NEW ks, NEW to,
         Only(h, t, ks), Moved(h, g, t, to)
  PROVE  \A k \in Roles : /\ t \in h[k] <=> k \in ks
                          /\ t \in g[k] <=> k \in to
                          /\ k \notin ks /\ k \notin to => g[k] = h[k]
                          /\ k \in ks /\ k \in to => g[k] = h[k]
                          /\ k \in to => g[k] = h[k] \cup {t}
                          /\ k \notin to => g[k] = h[k] \ {t}
BY DEF Only, Moved

LEMMA AllRoles == Roles = Watched \cup {"Deref", "Count", "AddPending", "Adding"}
BY DEF Roles, Calls, Watched, Driving

LEMMA DerefCount ==
  ASSUME NEW h \in HolderMaps
  PROVE  /\ Cardinality(h["Deref"]) \in Nat
         /\ Cardinality(h["Deref"]) = 0 <=> h["Deref"] = {}
BY SomeThreads DEF HolderMaps, Roles, Calls

\* The deciding thread finds that the object is on its way out.
LEMMA CheckReturns ==
  ASSUME NEW x \in Objects, NEW free \in BOOLEAN, NEW h \in HolderMaps, NEW g \in HolderMaps,
         NEW t \in AllThreads,
         Sound(x, free, h), Only(h, t, {"Check"}), Moved(h, g, t, {}),
         x._ExecState = "ERROR"
  PROVE  /\ Sound(x, free, g)
         /\ Lives(x, g) <=> Lives(x, h)
         /\ Waits(x, g) <=> Waits(x, h)
<1>1. /\ t \notin h["Kick"] /\ t \notin h["DoWork"] /\ t \notin h["Loop"]
      /\ t \notin h["Receive"] /\ t \notin h["Free"] /\ t \notin h["Release"]
      /\ t \notin h["Deref"] /\ t \notin h["Delete"] /\ t \in h["Check"]
  BY DEF Only, Roles, Calls
<1>2. /\ g["Kick"] = h["Kick"] /\ g["DoWork"] = h["DoWork"] /\ g["Loop"] = h["Loop"]
      /\ g["Receive"] = h["Receive"] /\ g["Free"] = h["Free"] /\ g["Release"] = h["Release"]
      /\ g["Deref"] = h["Deref"] /\ g["Delete"] = h["Delete"]
      /\ g["Check"] = h["Check"] \ {t}
  <2>1. \A k \in Roles : k # "Check" => g[k] = h[k]
    <3>1. \A k \in Roles : g[k] = h[k] \ {t}
      BY DEF Moved
    <3>2. \A k \in Roles : k # "Check" => t \notin h[k]
      BY DEF Only
    <3> QED
      BY <3>1, <3>2
  <2>2. g["Check"] = h["Check"] \ {t}
    BY DEF Moved, Roles, Calls
  <2> QED
    BY <2>1, <2>2 DEF Roles, Calls
<1>3. Drivers(g) = Drivers(h) /\ Gone(g) = Gone(h) /\ Own(x, g) = Own(x, h)
      /\ (Busy(x, free, g) <=> Busy(x, free, h))
  BY <1>2 DEF Drivers, Gone, Own, Held, Busy
<1>4. Own(x, h) = 0
  BY <1>1 DEF Sound
<1>5. (Lives(x, g) <=> Lives(x, h)) /\ (Waits(x, g) <=> Waits(x, h))
  BY <1>2 DEF Lives, Waits
<1> QED
  BY <1>1, <1>2, <1>3, <1>4, <1>5 DEF Sound

\* It finds the object its own: it starts it over or frees it.
LEMMA CheckDrives ==
  ASSUME NEW x \in Objects, NEW y \in Objects, NEW free \in BOOLEAN,
         NEW h \in HolderMaps, NEW g \in HolderMaps,
         NEW t \in AllThreads, NEW k \in {"Kick", "Free"},
         Sound(x, free, h), Only(h, t, {"Check"}), Moved(h, g, t, {k}),
         x._ExecState # "ERROR", y._cRefs = x._cRefs, y.alive <=> x.alive, y.io = x.io,
         k = "Kick" => y._ExecState = "START" /\ ~y.core,
         k = "Free" => y._ExecState = x._ExecState /\ (y.core <=> x.core)
  PROVE  /\ Sound(y, free, g) /\ DrivenBy(y, g, t, k)
         /\ Lives(x, h) /\ ~Waits(x, h)
<1>1. t \in h["Check"]
  BY DEF Only, Roles, Calls
<1>2. /\ x._cRefs = 1 /\ Own(x, h) = 1 /\ ~free /\ Drivers(h) = {} /\ h["Check"] = {t}
  BY <1>1 DEF Sound
<1>3. x.alive /\ Gone(h) = {}
  BY <1>2 DEF Sound
<1>4. Cardinality(h["Deref"]) \in Nat /\ (Cardinality(h["Deref"]) = 0 <=> h["Deref"] = {})
  BY DerefCount
<1>5. x.io = "None" /\ ~x.core /\ h["Deref"] = {}
  BY <1>2, <1>4 DEF Own, Held, Bit, Drivers
<1>6. \A j \in Watched : g[j] = IF j = k THEN {t} ELSE {}
  <2>1. \A j \in Watched : h[j] = IF j = "Check" THEN {t} ELSE {}
    BY <1>2, <1>3 DEF Watched, Driving, Drivers, Gone
  <2> QED
    BY <2>1, AllRoles DEF Moved
<1>7. g["Deref"] = {}
  BY <1>5, AllRoles DEF Moved
<1>8. Cardinality(g["Deref"]) = 0
  BY <1>7, DerefCount
<1>9. x._ExecState # "CLIENT_CERT"
  BY <1>5 DEF Sound
<1>10. DrivenBy(y, g, t, k)
  BY <1>2, <1>3, <1>5, <1>6, <1>8, <1>9 DEF DrivenBy, Bit
<1>11. k \in Driving
  BY DEF Driving
<1>12. Sound(y, FALSE, g)
  BY <1>10, <1>11, DrivenSound
<1>13. Lives(x, h) /\ ~Waits(x, h)
  BY <1>2, <1>3, <1>5 DEF Lives, Waits, Drivers, Gone
<1> QED
  BY <1>2, <1>10, <1>12, <1>13

\* A thread that would free the object drops its own reference instead.
LEMMA FreeDrops ==
  ASSUME NEW x \in Objects, NEW free \in BOOLEAN, NEW h \in HolderMaps, NEW g \in HolderMaps,
         NEW t \in AllThreads,
         Sound(x, free, h), Only(h, t, {"Free"}), Moved(h, g, t, {"Deref"})
  PROVE  Sound(x, free, g) /\ Lives(x, g) /\ ~Waits(x, g)
<1>0. Only(h, t, CallsOf("Free")) /\ "Free" \in Driving
  BY DEF CallsOf, Inner, Driving
<1>1. DrivenBy(x, h, t, "Free") /\ ~free
  BY <1>0, SoundDriven
<1>2. \A j \in Watched : h[j] = IF j = "Free" THEN {t} ELSE {}
  BY <1>1 DEF DrivenBy
<1>3. x._cRefs = 1 /\ x.alive /\ x.io = "None" /\ x._ExecState \notin {"ERROR", "CLIENT_CERT"}
  BY <1>1 DEF DrivenBy
<1>4. Cardinality(h["Deref"]) \in Nat /\ (Cardinality(h["Deref"]) = 0 <=> h["Deref"] = {})
  BY DerefCount
<1>5. ~x.core /\ h["Deref"] = {}
  BY <1>1, <1>3, <1>4 DEF DrivenBy, Bit
<1>6. g["Deref"] = {t} /\ \A j \in Watched : g[j] = {}
  <2>1. \A j \in Watched : j \in Roles /\ j # "Deref"
    BY DEF Watched, Driving, Roles, Calls
  <2> QED
    BY <1>2, <1>5, <2>1, AllRoles DEF Moved
<1>7. Cardinality(g["Deref"]) = 1
  BY <1>6, FS_Singleton
<1>8. /\ g["Kick"] = {} /\ g["DoWork"] = {} /\ g["Loop"] = {} /\ g["Receive"] = {} /\ g["Free"] = {}
      /\ g["Check"] = {} /\ g["Delete"] = {} /\ g["Release"] = {}
  BY <1>6 DEF Watched, Driving
<1>9. Drivers(g) = {} /\ Gone(g) = {} /\ Own(x, g) = 0
  <2>1. Drivers(g) = {} /\ Gone(g) = {}
    BY <1>8 DEF Drivers, Gone
  <2>2. /\ Bit(x.io # "None") = 0 /\ Bit(x.core) = 0
        /\ Bit(g["Receive"] # {}) = 0 /\ Bit(g["DoWork"] # {}) = 0
    BY <1>3, <1>5, <1>8 DEF Bit
  <2> QED
    BY <1>3, <1>7, <2>1, <2>2 DEF Own, Held
<1>10. Lives(x, g) /\ ~Waits(x, g)
  BY <1>3, <1>8 DEF Lives, Waits
<1> QED
  BY <1>1, <1>3, <1>5, <1>6, <1>7, <1>8, <1>9, <1>10 DEF Sound, Busy

\* It puts the object on the free list.
LEMMA FreeLists ==
  ASSUME NEW x \in Objects, NEW y \in Objects, NEW free \in BOOLEAN,
         NEW h \in HolderMaps, NEW g \in HolderMaps, NEW t \in AllThreads,
         Sound(x, free, h), Only(h, t, {"Free"}), Moved(h, g, t, {}),
         y._cRefs = x._cRefs, y.alive <=> x.alive, y.io = x.io,
         y._ExecState = "START", ~y.core
  PROVE  Sound(y, TRUE, g) /\ Lives(y, g) /\ ~Waits(y, g)
<1>0. Only(h, t, CallsOf("Free")) /\ "Free" \in Driving
  BY DEF CallsOf, Inner, Driving
<1>1. DrivenBy(x, h, t, "Free") /\ ~free
  BY <1>0, SoundDriven
<1>2. \A j \in Watched : h[j] = IF j = "Free" THEN {t} ELSE {}
  BY <1>1 DEF DrivenBy
<1>3. x._cRefs = 1 /\ x.alive /\ x.io = "None"
  BY <1>1 DEF DrivenBy
<1>4. Cardinality(h["Deref"]) \in Nat /\ (Cardinality(h["Deref"]) = 0 <=> h["Deref"] = {})
  BY DerefCount
<1>5. h["Deref"] = {}
  BY <1>1, <1>3, <1>4 DEF DrivenBy, Bit
<1>6. g["Deref"] = {} /\ \A j \in Watched : g[j] = {}
  BY <1>2, <1>5, AllRoles DEF Moved
<1>7. Cardinality(g["Deref"]) = 0
  BY <1>6, DerefCount
<1>8. /\ g["Kick"] = {} /\ g["DoWork"] = {} /\ g["Loop"] = {} /\ g["Receive"] = {} /\ g["Free"] = {}
      /\ g["Check"] = {} /\ g["Delete"] = {} /\ g["Release"] = {}
  BY <1>6 DEF Watched, Driving
<1>9. Drivers(g) = {} /\ Gone(g) = {} /\ Own(y, g) = 1
  BY <1>3, <1>7, <1>8 DEF Drivers, Gone, Own, Held, Bit
<1>10. Lives(y, g) /\ ~Waits(y, g)
  BY <1>3, <1>8 DEF Lives, Waits
<1> QED
  BY <1>3, <1>7, <1>8, <1>9, <1>10 DEF Sound, Busy

\* The destructor has run; then the memory goes.
LEMMA DeleteReleases ==
  ASSUME NEW x \in Objects, NEW free \in BOOLEAN, NEW h \in HolderMaps, NEW g \in HolderMaps,
         NEW t \in AllThreads,
         Sound(x, free, h), Only(h, t, {"Delete"}), Moved(h, g, t, {"Release"})
  PROVE  /\ Sound(x, free, g)
         /\ Lives(x, h) /\ ~Lives(x, g)
         /\ Waits(x, g) <=> Waits(x, h)
<1>1. /\ t \notin h["Kick"] /\ t \notin h["DoWork"] /\ t \notin h["Loop"]
      /\ t \notin h["Receive"] /\ t \notin h["Free"] /\ t \notin h["Release"]
      /\ t \notin h["Deref"] /\ t \notin h["Check"] /\ t \in h["Delete"]
  BY DEF Only, Roles, Calls
<1>2. /\ g["Kick"] = h["Kick"] /\ g["DoWork"] = h["DoWork"] /\ g["Loop"] = h["Loop"]
      /\ g["Receive"] = h["Receive"] /\ g["Free"] = h["Free"] /\ g["Check"] = h["Check"]
      /\ g["Deref"] = h["Deref"] /\ g["Delete"] = h["Delete"] \ {t}
      /\ g["Release"] = h["Release"] \cup {t}
  <2>1. \A k \in Roles : k # "Delete" /\ k # "Release" => g[k] = h[k]
    BY DEF Moved, Only
  <2>2. g["Delete"] = h["Delete"] \ {t}
    BY DEF Moved, Roles, Calls
  <2>3. g["Release"] = h["Release"] \cup {t}
    BY DEF Moved, Roles, Calls
  <2> QED
    BY <2>1, <2>2, <2>3 DEF Roles, Calls
<1>3. Drivers(g) = Drivers(h) /\ Own(x, g) = Own(x, h)
      /\ (Busy(x, free, g) <=> Busy(x, free, h))
  BY <1>2 DEF Drivers, Own, Held, Busy
<1>4. Gone(h) = {t} /\ Gone(g) = {t}
  BY <1>1, <1>2 DEF Sound, Gone
<1>5. x.alive /\ h["Release"] = {}
  BY <1>1, <1>4 DEF Sound, Gone
<1>6. Lives(x, h) /\ ~Lives(x, g) /\ (Waits(x, g) <=> Waits(x, h))
  BY <1>2, <1>5 DEF Lives, Waits
<1> QED
  BY <1>1, <1>2, <1>3, <1>4, <1>6 DEF Sound

LEMMA ReleaseEnds ==
  ASSUME NEW x \in Objects, NEW y \in Objects, NEW free \in BOOLEAN,
         NEW h \in HolderMaps, NEW g \in HolderMaps, NEW t \in AllThreads,
         Sound(x, free, h), Only(h, t, {"Release"}), Moved(h, g, t, {}),
         ~y.alive, y._cRefs = x._cRefs, y.core <=> x.core, y.io = x.io,
         y._ExecState = x._ExecState
  PROVE  /\ Sound(y, free, g)
         /\ ~Lives(x, h) /\ ~Lives(y, g)
         /\ Waits(y, g) <=> Waits(x, h)
<1>1. /\ t \notin h["Kick"] /\ t \notin h["DoWork"] /\ t \notin h["Loop"]
      /\ t \notin h["Receive"] /\ t \notin h["Free"] /\ t \notin h["Delete"]
      /\ t \notin h["Deref"] /\ t \notin h["Check"] /\ t \in h["Release"]
  BY DEF Only, Roles, Calls
<1>2. /\ g["Kick"] = h["Kick"] /\ g["DoWork"] = h["DoWork"] /\ g["Loop"] = h["Loop"]
      /\ g["Receive"] = h["Receive"] /\ g["Free"] = h["Free"] /\ g["Check"] = h["Check"]
      /\ g["Deref"] = h["Deref"] /\ g["Delete"] = h["Delete"]
      /\ g["Release"] = h["Release"] \ {t}
  <2>1. \A k \in Roles : k # "Release" => g[k] = h[k]
    <3>1. \A k \in Roles : g[k] = h[k] \ {t}
      BY DEF Moved
    <3>2. \A k \in Roles : k # "Release" => t \notin h[k]
      BY DEF Only
    <3> QED
      BY <3>1, <3>2
  <2>2. g["Release"] = h["Release"] \ {t}
    BY DEF Moved, Roles, Calls
  <2> QED
    BY <2>1, <2>2 DEF Roles, Calls
<1>3. Drivers(g) = Drivers(h) /\ Own(y, g) = Own(x, h)
      /\ (Busy(y, free, g) <=> Busy(x, free, h))
  BY <1>2 DEF Drivers, Own, Held, Busy, Bit
<1>4. Gone(h) = {t} /\ Gone(g) = {} /\ x._cRefs = 0
  BY <1>1, <1>2 DEF Sound, Gone
<1>5. ~Lives(x, h) /\ ~Lives(y, g) /\ (Waits(y, g) <=> Waits(x, h))
  BY <1>1, <1>2 DEF Lives, Waits
<1> QED
  BY <1>1, <1>2, <1>3, <1>4, <1>5 DEF Sound

\* Where a request object does not exist nobody does anything with it.
LEMMA AllocatedSound ==
  ASSUME NEW x \in Objects, NEW y \in Objects, NEW free \in BOOLEAN,
         NEW h \in HolderMaps, NEW g \in HolderMaps, NEW t \in AllThreads,
         Sound(x, free, h), Moved(h, g, t, {"Kick"}),
         ~x.alive, h["Check"] = {},
         y.alive, y._cRefs = 1, ~y.core, y.io = "None", y._ExecState = "START"
  PROVE  /\ Sound(y, free, g) /\ DrivenBy(y, g, t, "Kick")
         /\ ~Lives(x, h) /\ ~Waits(x, h)
<1>1. x._cRefs = 0 /\ Gone(h) = {}
  BY DEF Sound
<1>2. Cardinality(h["Deref"]) \in Nat /\ (Cardinality(h["Deref"]) = 0 <=> h["Deref"] = {})
  BY DerefCount
<1>3. Held(x, h) \in Nat
  BY <1>2 DEF Held, Bit
<1>4. Own(x, h) = 0 /\ Held(x, h) = 0
  BY <1>1, <1>3 DEF Sound, Own
<1>5. h["Deref"] = {}
  BY <1>2, <1>4 DEF Held, Bit
<1>6. ~free /\ Drivers(h) = {}
  BY <1>4 DEF Sound, Busy
<1>7. \A j \in Watched : h[j] = {}
  BY <1>1, <1>6 DEF Watched, Driving, Drivers, Gone
<1>8. g["Deref"] = {} /\ \A j \in Watched : g[j] = IF j = "Kick" THEN {t} ELSE {}
  BY <1>5, <1>7, AllRoles DEF Moved
<1>9. Cardinality(g["Deref"]) = 0
  BY <1>8, DerefCount
<1>10. DrivenBy(y, g, t, "Kick")
  BY <1>8, <1>9 DEF DrivenBy, Bit
<1>11. Sound(y, FALSE, g)
  BY <1>10, DrivenSound DEF Driving
<1>12. ~Lives(x, h) /\ ~Waits(x, h)
  <2>1. x.io = "None"
    BY <1>4 DEF Sound, Busy
  <2> QED
    BY <1>6, <2>1 DEF Lives, Waits, Drivers
<1> QED
  BY <1>6, <1>10, <1>11, <1>12

\* A free object: its own reference, and nobody at it.
LEMMA ListedAlone ==
  ASSUME NEW x \in Objects, NEW h \in HolderMaps, Sound(x, TRUE, h)
  PROVE  /\ x._cRefs = 1 /\ x._ExecState = "START" /\ x.alive /\ x.io = "None" /\ ~x.core
         /\ h["Deref"] = {} /\ \A j \in Watched : h[j] = {}
<1>1. x._cRefs = 1 /\ x._ExecState = "START" /\ Own(x, h) = 1 /\ h["Check"] = {} /\ Drivers(h) = {}
  BY DEF Sound, Busy
<1>2. Cardinality(h["Deref"]) \in Nat /\ (Cardinality(h["Deref"]) = 0 <=> h["Deref"] = {})
  BY DerefCount
<1>3. x.io = "None" /\ ~x.core /\ h["Deref"] = {}
  BY <1>1, <1>2 DEF Own, Held, Bit
<1>4. x.alive /\ Gone(h) = {}
  BY <1>1 DEF Sound
<1>5. \A j \in Watched : h[j] = {}
  BY <1>1, <1>4 DEF Watched, Driving, Drivers, Gone
<1> QED
  BY <1>1, <1>3, <1>4, <1>5

LEMMA TakenFromList ==
  ASSUME NEW x \in Objects, NEW h \in HolderMaps, NEW g \in HolderMaps, NEW t \in AllThreads,
         Sound(x, TRUE, h), Moved(h, g, t, {"Kick"})
  PROVE  /\ Sound(x, FALSE, g) /\ DrivenBy(x, g, t, "Kick")
         /\ Lives(x, h) /\ ~Waits(x, h)
<1>1. /\ x._cRefs = 1 /\ x._ExecState = "START" /\ x.alive /\ x.io = "None" /\ ~x.core
      /\ h["Deref"] = {} /\ \A j \in Watched : h[j] = {}
  BY ListedAlone
<1>2. g["Deref"] = {} /\ \A j \in Watched : g[j] = IF j = "Kick" THEN {t} ELSE {}
  BY <1>1, AllRoles DEF Moved
<1>3. Cardinality(g["Deref"]) = 0
  BY <1>2, DerefCount
<1>4. DrivenBy(x, g, t, "Kick")
  BY <1>1, <1>2, <1>3 DEF DrivenBy, Bit
<1>5. Sound(x, FALSE, g)
  BY <1>4, DrivenSound DEF Driving
<1>6. Lives(x, h) /\ ~Waits(x, h)
  BY <1>1 DEF Lives, Waits, Watched, Driving
<1> QED
  BY <1>4, <1>5, <1>6

LEMMA DroppedFromList ==
  ASSUME NEW x \in Objects, NEW h \in HolderMaps, NEW g \in HolderMaps, NEW t \in AllThreads,
         Sound(x, TRUE, h), Moved(h, g, t, {"Deref"})
  PROVE  /\ Sound(x, FALSE, g) /\ Lives(x, h) /\ Lives(x, g)
         /\ ~Waits(x, h) /\ ~Waits(x, g)
<1>1. /\ x._cRefs = 1 /\ x._ExecState = "START" /\ x.alive /\ x.io = "None" /\ ~x.core
      /\ h["Deref"] = {} /\ \A j \in Watched : h[j] = {}
  BY ListedAlone
<1>2. g["Deref"] = {t} /\ \A j \in Watched : g[j] = {}
  <2>1. \A j \in Watched : j \in Roles /\ j # "Deref"
    BY DEF Watched, Driving, Roles, Calls
  <2> QED
    BY <1>1, <2>1, AllRoles DEF Moved
<1>3. Cardinality(g["Deref"]) = 1
  BY <1>2, FS_Singleton
<1>4. /\ g["Kick"] = {} /\ g["DoWork"] = {} /\ g["Loop"] = {} /\ g["Receive"] = {} /\ g["Free"] = {}
      /\ g["Check"] = {} /\ g["Delete"] = {} /\ g["Release"] = {}
  BY <1>2 DEF Watched, Driving
<1>5. Drivers(g) = {} /\ Gone(g) = {}
  BY <1>4 DEF Drivers, Gone
<1>6. Own(x, g) = 0
  <2>1. /\ Bit(x.io # "None") = 0 /\ Bit(x.core) = 0
        /\ Bit(g["Receive"] # {}) = 0 /\ Bit(g["DoWork"] # {}) = 0
    BY <1>1, <1>4 DEF Bit
  <2> QED
    BY <1>1, <1>3, <2>1 DEF Own, Held
<1>7. Lives(x, h) /\ Lives(x, g) /\ ~Waits(x, h) /\ ~Waits(x, g)
  BY <1>1, <1>4 DEF Lives, Waits, Watched, Driving
<1> QED
  BY <1>1, <1>2, <1>3, <1>4, <1>5, <1>6, <1>7 DEF Sound, Busy

\* An asynchronous call completes on a thread.
LEMMA CompletedSound ==
  ASSUME NEW x \in Objects, NEW y \in Objects, NEW free \in BOOLEAN,
         NEW h \in HolderMaps, NEW g \in HolderMaps, NEW t \in AllThreads,
         Sound(x, free, h), Only(h, t, {}), Moved(h, g, t, {"DoWork"}), x.io # "None",
         y.io = "None", y.alive <=> x.alive, y._cRefs = x._cRefs, y.core <=> x.core,
         y._ExecState = x._ExecState
  PROVE  /\ Sound(y, free, g) /\ DrivenBy(y, g, t, "DoWork")
         /\ Lives(x, h) /\ (Waits(x, h) <=> x.io = "Receive")
         /\ x.io = "Receive" <=> x._ExecState = "READ"
<1>1. Drivers(h) = {} /\ Own(x, h) = 1
  BY DEF Sound, Busy
<1>2. Cardinality(h["Deref"]) \in Nat
  BY DerefCount
<1>3. x._cRefs = 2 + Bit(x.core) + Cardinality(h["Deref"])
  BY <1>1, <1>2 DEF Own, Held, Bit, Drivers, Objects
<1>4. x.alive /\ Gone(h) = {} /\ ~free
  BY <1>2, <1>3 DEF Sound, Bit
<1>5. h["Check"] = {} /\ x._ExecState # "ERROR"
  BY <1>1, <1>2, <1>3 DEF Sound, Bit, Drivers
<1>6. \A j \in Watched : h[j] = {}
  BY <1>1, <1>4, <1>5 DEF Watched, Driving, Drivers, Gone
<1>7. g["Deref"] = h["Deref"] /\ \A j \in Watched : g[j] = IF j = "DoWork" THEN {t} ELSE {}
  <2>1. t \notin h["Deref"]
    BY DEF Only, Roles, Calls
  <2>2. g["Deref"] = h["Deref"]
    <3>1. g["Deref"] = (h["Deref"] \ {t}) \cup (IF "Deref" \in {"DoWork"} THEN {t} ELSE {})
      BY DEF Moved, Roles, Calls
    <3> QED
      BY <2>1, <3>1
  <2>3. \A j \in Watched : g[j] = IF j = "DoWork" THEN {t} ELSE {}
    BY <1>6, AllRoles DEF Moved
  <2> QED
    BY <2>2, <2>3
<1>8. DrivenBy(y, g, t, "DoWork")
  <2>1. y._cRefs = 1 + Bit(y.core) + Cardinality(g["Deref"]) + Bit("DoWork" \in {"Receive", "DoWork"})
    BY <1>2, <1>3, <1>7 DEF Bit
  <2>2. x.core => x._ExecState \in {"PROCESS", "CLIENT_CERT"}
    BY DEF Sound
  <2>3. x._ExecState = "CLIENT_CERT" => x.core
    BY DEF Sound
  <2> QED
    BY <1>4, <1>5, <1>7, <2>1, <2>2, <2>3 DEF DrivenBy
<1>9. Sound(y, FALSE, g)
  BY <1>8, DrivenSound DEF Driving
<1>10. Lives(x, h) /\ (Waits(x, h) <=> x.io = "Receive")
  BY <1>4, <1>6 DEF Lives, Waits, Watched, Driving
<1>11. x.io = "Receive" <=> x._ExecState = "READ"
  BY DEF Sound, Objects
<1> QED
  BY <1>4, <1>8, <1>9, <1>10, <1>11

\* A request the core has kept, with no call outstanding: nobody drives it.
LEMMA CoreAlone ==
  ASSUME NEW x \in Objects, NEW free \in BOOLEAN, NEW h \in HolderMaps,
         Sound(x, free, h), x.core, x.io = "None", h["Kick"] = {}, h["DoWork"] = {}, h["Loop"] = {}
  PROVE  /\ Drivers(h) = {} /\ Own(x, h) = 1 /\ ~free
         /\ h["Check"] = {} /\ Gone(h) = {} /\ x.alive /\ x._ExecState = "PROCESS"
         /\ x._cRefs = 2 + Cardinality(h["Deref"])
         /\ Cardinality(h["Deref"]) \in Nat
         /\ Cardinality(h["Deref"]) = 0 <=> h["Deref"] = {}
<1>1. Own(x, h) = 1
  BY DEF Sound, Busy
<1>2. Cardinality(h["Deref"]) \in Nat /\ (Cardinality(h["Deref"]) = 0 <=> h["Deref"] = {})
  BY DerefCount
<1>3. h["Receive"] = {} /\ x._ExecState = "PROCESS"
  BY DEF Sound
<1>4. Bit(x.io # "None") = 0 /\ Bit(x.core) = 1 /\ Bit(h["Receive"] # {}) = 0 /\ Bit(h["DoWork"] # {}) = 0
  BY <1>3 DEF Bit
<1>5. x._cRefs = 2 + Cardinality(h["Deref"])
  <2>1. x._cRefs \in Nat
    BY DEF Objects
  <2>2. Held(x, h) = 1 + Cardinality(h["Deref"])
    BY <1>2, <1>3 DEF Held, Bit
  <2> QED
    BY <1>1, <1>2, <2>1, <2>2 DEF Own
<1>6. h["Free"] = {} /\ ~free
  BY <1>2, <1>5 DEF Sound
<1>7. Drivers(h) = {}
  BY <1>3, <1>6 DEF Drivers
<1>8. h["Check"] = {} /\ Gone(h) = {} /\ x.alive
  BY <1>2, <1>3, <1>5 DEF Sound
<1> QED
  BY <1>1, <1>2, <1>3, <1>5, <1>6, <1>7, <1>8

LEMMA CoreCallsSound ==
  ASSUME NEW x \in Objects, NEW y \in Objects, NEW free \in BOOLEAN, NEW h \in HolderMaps,
         Sound(x, free, h), x.core, x.io = "None", h["Kick"] = {}, h["DoWork"] = {}, h["Loop"] = {},
         y.alive <=> x.alive, y._cRefs = x._cRefs + 1, y.core, y.io = "Call",
         y._ExecState \in {"PROCESS", "CLIENT_CERT"}
  PROVE  Sound(y, free, h) /\ Lives(x, h) /\ Lives(y, h) /\ ~Waits(x, h) /\ ~Waits(y, h)
<1>1. /\ Drivers(h) = {} /\ Own(x, h) = 1 /\ ~free
      /\ h["Check"] = {} /\ Gone(h) = {} /\ x.alive
      /\ x._cRefs = 2 + Cardinality(h["Deref"])
      /\ Cardinality(h["Deref"]) \in Nat
  BY CoreAlone
<1>2. h["Free"] = {} /\ h["Receive"] = {}
  BY <1>1 DEF Drivers
<1>3. Own(y, h) = 1 /\ y._cRefs # 0
  <2>1. Bit(y.io # "None") = 1 /\ Bit(y.core) = 1 /\ Bit(h["Receive"] # {}) = 0 /\ Bit(h["DoWork"] # {}) = 0
    BY <1>2 DEF Bit
  <2>2. Held(y, h) = 2 + Cardinality(h["Deref"])
    BY <1>1, <1>2 DEF Held, Bit
  <2> QED
    BY <1>1, <2>2 DEF Own
<1>4. Lives(x, h) /\ Lives(y, h) /\ ~Waits(x, h) /\ ~Waits(y, h)
  BY <1>1, <1>2 DEF Lives, Waits, Gone
<1> QED
  BY <1>1, <1>2, <1>3, <1>4 DEF Sound, Busy

LEMMA CoreLetsGo ==
  ASSUME NEW x \in Objects, NEW y \in Objects, NEW free \in BOOLEAN,
         NEW h \in HolderMaps, NEW g \in HolderMaps, NEW t \in AllThreads,
         Sound(x, free, h), Only(h, t, {}), Moved(h, g, t, {"Deref"}),
         x.core, x.io = "None", h["Kick"] = {}, h["DoWork"] = {}, h["Loop"] = {},
         y.alive <=> x.alive, y._cRefs = x._cRefs, ~y.core, y.io = "None",
         y._ExecState = x._ExecState
  PROVE  Sound(y, free, g) /\ Lives(x, h) /\ Lives(y, g) /\ ~Waits(x, h) /\ ~Waits(y, g)
<1>1. /\ Drivers(h) = {} /\ Own(x, h) = 1 /\ ~free
      /\ h["Check"] = {} /\ Gone(h) = {} /\ x.alive /\ x._ExecState = "PROCESS"
      /\ x._cRefs = 2 + Cardinality(h["Deref"])
      /\ Cardinality(h["Deref"]) \in Nat
  BY CoreAlone
<1>2. \A j \in Watched : h[j] = {}
  BY <1>1 DEF Watched, Driving, Drivers, Gone
<1>3. \A j \in Watched : g[j] = {}
  <2>1. \A j \in Watched : j \in Roles /\ j # "Deref"
    BY DEF Watched, Driving, Roles, Calls
  <2> QED
    BY <1>2, <2>1 DEF Moved
<1>4. /\ g["Kick"] = {} /\ g["DoWork"] = {} /\ g["Loop"] = {} /\ g["Receive"] = {} /\ g["Free"] = {}
      /\ g["Check"] = {} /\ g["Delete"] = {} /\ g["Release"] = {}
  BY <1>3 DEF Watched, Driving
<1>5. t \notin h["Deref"] /\ g["Deref"] = h["Deref"] \cup {t}
  BY DEF Only, Moved, Roles, Calls
<1>6. Cardinality(g["Deref"]) = Cardinality(h["Deref"]) + 1
  <2>1. h["Deref"] \in SUBSET AllThreads
    BY DEF HolderMaps, Roles, Calls
  <2> QED
    BY <1>5, <2>1, SomeThreads
<1>7. Drivers(g) = {} /\ Gone(g) = {}
  BY <1>4 DEF Drivers, Gone
<1>8. Own(y, g) = 1 /\ y._cRefs # 0
  <2>1. Bit(y.io # "None") = 0 /\ Bit(y.core) = 0 /\ Bit(g["Receive"] # {}) = 0 /\ Bit(g["DoWork"] # {}) = 0
    BY <1>4 DEF Bit
  <2> QED
    BY <1>1, <1>6, <2>1 DEF Own, Held
<1>9. Lives(x, h) /\ Lives(y, g) /\ ~Waits(x, h) /\ ~Waits(y, g)
  BY <1>1, <1>2, <1>4 DEF Lives, Waits, Watched, Driving
<1> QED
  BY <1>1, <1>4, <1>5, <1>7, <1>8, <1>9 DEF Sound, Busy

-----------------------------------------------------------------------------
(***************************************************************************)
(* The calls of a thread.                                                  *)
(***************************************************************************)
Push(f, s) == <<f>> \o s

LEMMA PushFacts ==
  ASSUME NEW f \in Frame, NEW s \in Seq(Frame)
  PROVE  /\ Push(f, s) \in Seq(Frame)
         /\ Len(s) \in Nat /\ Len(Push(f, s)) = Len(s) + 1
         /\ Push(f, s)[1] = f
         /\ \A i \in 1 .. Len(s) : Push(f, s)[i + 1] = s[i] /\ s[i] \in Frame
         /\ \A i \in 2 .. Len(Push(f, s)) : Push(f, s)[i] = s[i - 1]
BY DEF Push

LEMMA PopFacts ==
  ASSUME NEW s \in Seq(Frame), s # <<>>
  PROVE  /\ Tail(s) \in Seq(Frame) /\ Head(s) \in Frame /\ Head(s) = s[1]
         /\ Len(s) \in Nat /\ Len(s) >= 1
         /\ Len(Tail(s)) = Len(s) - 1 /\ Len(Tail(s)) \in Nat
         /\ \A i \in 1 .. Len(Tail(s)) : Tail(s)[i] = s[i + 1]
         /\ \A i \in 2 .. Len(s) : s[i] = Tail(s)[i - 1]
OBVIOUS

LEMMA FrameRole ==
  ASSUME NEW f \in Frame
  PROVE  Role(f) \in Roles /\ Role(f) = IF f.fn = "DoWork" /\ f.res = "None" THEN "Kick" ELSE f.fn
BY DEF Role, Roles, Frame

LEMMA RolesPush ==
  ASSUME NEW f \in Frame, NEW s \in Seq(Frame), NEW r
  PROVE  RolesIn(Push(f, s), r) = RolesIn(s, r) \cup (IF f.r = r THEN {Role(f)} ELSE {})
<1> DEFINE p == Push(f, s)
<1>1. /\ Len(s) \in Nat /\ Len(p) = Len(s) + 1 /\ p[1] = f
      /\ \A i \in 1 .. Len(s) : p[i + 1] = s[i]
      /\ \A i \in 2 .. Len(p) : p[i] = s[i - 1]
  BY PushFacts
<1>2. Role(f) \in Roles
  BY FrameRole
<1> HIDE DEF p
<1>3. ASSUME NEW k \in Roles
      PROVE  (\E i \in 1 .. Len(p) : p[i].r = r /\ Role(p[i]) = k)
             <=> (\E i \in 1 .. Len(s) : s[i].r = r /\ Role(s[i]) = k) \/ (f.r = r /\ Role(f) = k)
  <2>1. ASSUME NEW i \in 1 .. Len(p), p[i].r = r, Role(p[i]) = k
        PROVE  (\E j \in 1 .. Len(s) : s[j].r = r /\ Role(s[j]) = k) \/ (f.r = r /\ Role(f) = k)
    <3>1. CASE i = 1
      BY <1>1, <2>1, <3>1
    <3>2. CASE i # 1
      <4>1. i \in 2 .. Len(p) /\ i - 1 \in 1 .. Len(s)
        BY <1>1, <3>2
      <4>2. p[i] = s[i - 1]
        BY <1>1, <4>1
      <4> QED
        BY <2>1, <4>1, <4>2
    <3> QED
      BY <3>1, <3>2
  <2>2. ASSUME NEW i \in 1 .. Len(s), s[i].r = r, Role(s[i]) = k
        PROVE  \E j \in 1 .. Len(p) : p[j].r = r /\ Role(p[j]) = k
    <3>1. i + 1 \in 1 .. Len(p) /\ p[i + 1] = s[i]
      BY <1>1
    <3> QED
      BY <2>2, <3>1
  <2>3. ASSUME f.r = r, Role(f) = k
        PROVE  \E j \in 1 .. Len(p) : p[j].r = r /\ Role(p[j]) = k
    BY <1>1, <2>3
  <2> QED
    BY <2>1, <2>2, <2>3
<1>4. RolesIn(p, r) = RolesIn(s, r) \cup (IF f.r = r THEN {Role(f)} ELSE {})
  BY <1>2, <1>3 DEF RolesIn
<1> QED
  BY <1>4 DEF p

LEMMA PushPop ==
  ASSUME NEW s \in Seq(Frame), s # <<>>
  PROVE  s = Push(Head(s), Tail(s))
BY DEF Push

LEMMA RolesPop ==
  ASSUME NEW s \in Seq(Frame), s # <<>>, NEW r
  PROVE  RolesIn(s, r) = RolesIn(Tail(s), r) \cup (IF Head(s).r = r THEN {Role(Head(s))} ELSE {})
<1>1. PICK f \in Frame, u \in Seq(Frame) : f = Head(s) /\ u = Tail(s) /\ s = Push(f, u)
  BY PopFacts, PushPop
<1>2. RolesIn(Push(f, u), r) = RolesIn(u, r) \cup (IF f.r = r THEN {Role(f)} ELSE {})
  BY RolesPush
<1> QED
  BY <1>1, <1>2

LEMMA RolesEmpty == \A r : RolesIn(<<>>, r) = {}
BY DEF RolesIn

\* Frames that are not about a request.
Plain == {"Count", "AddPending", "Adding"}

\* What Shape says of a frame by itself.
Sane(f) == /\ f.r \in Req <=> f.fn \notin Plain
           /\ f.r \notin Req => f.r = NoReq
           /\ f.fn = "Count" => f.n >= 0

LEMMA ShapeEmpty == Shape(<<>>)
BY DEF Shape

LEMMA ShapePop ==
  ASSUME NEW s \in Seq(Frame), s # <<>>, Shape(s)
  PROVE  Shape(Tail(s))
<1> DEFINE u == Tail(s)
<1>1. /\ Len(s) \in Nat /\ Len(u) = Len(s) - 1 /\ Len(u) \in Nat
      /\ \A i \in 1 .. Len(u) : u[i] = s[i + 1]
  BY PopFacts
<1> HIDE DEF u
<1>2. ASSUME NEW i \in 1 .. Len(u)
      PROVE  /\ u[i].r \in Req <=> u[i].fn \notin {"Count", "AddPending", "Adding"}
             /\ u[i].r \notin Req => u[i].r = NoReq
             /\ u[i].fn \in Inner => /\ i + 1 <= Len(u)
                                     /\ u[i + 1].fn = "Deref" /\ u[i + 1].r = u[i].r
             /\ u[i].fn = "Count" => u[i].n >= 0
  <2>1. i + 1 \in 1 .. Len(s) /\ u[i] = s[i + 1]
    BY <1>1
  <2>2. /\ s[i + 1].r \in Req <=> s[i + 1].fn \notin {"Count", "AddPending", "Adding"}
        /\ s[i + 1].r \notin Req => s[i + 1].r = NoReq
        /\ s[i + 1].fn \in Inner => /\ (i + 1) + 1 <= Len(s)
                                    /\ s[(i + 1) + 1].fn = "Deref" /\ s[(i + 1) + 1].r = s[i + 1].r
        /\ s[i + 1].fn = "Count" => s[i + 1].n >= 0
    BY <2>1 DEF Shape
  <2>3. (i + 1) + 1 <= Len(s) => i + 1 \in 1 .. Len(u) /\ u[i + 1] = s[(i + 1) + 1]
    BY <1>1
  <2> QED
    BY <1>1, <2>1, <2>2, <2>3
<1>3. ASSUME NEW i \in 1 .. Len(u), NEW j \in 1 .. Len(u), i < j
      PROVE  /\ ~(u[i].fn = "Adding" /\ u[j].fn = "Adding")
             /\ u[i].r = u[j].r /\ u[i].r \in Req => j = i + 1 /\ u[i].fn \in Inner
  <2>1. /\ i + 1 \in 1 .. Len(s) /\ u[i] = s[i + 1]
        /\ j + 1 \in 1 .. Len(s) /\ u[j] = s[j + 1] /\ i + 1 < j + 1
    BY <1>1, <1>3
  <2>2. /\ ~(s[i + 1].fn = "Adding" /\ s[j + 1].fn = "Adding")
        /\ s[i + 1].r = s[j + 1].r /\ s[i + 1].r \in Req =>
             j + 1 = (i + 1) + 1 /\ s[i + 1].fn \in Inner
    BY <2>1 DEF Shape
  <2> QED
    BY <2>1, <2>2
<1>4. Shape(u)
  BY <1>2, <1>3 DEF Shape
<1> QED
  BY <1>4 DEF u

\* The calls below the innermost one are about other requests, but for the dereference
\* under the state machine.
LEMMA ShapeTop ==
  ASSUME NEW s \in Seq(Frame), s # <<>>, Shape(s)
  PROVE  /\ Sane(Head(s))
         /\ Head(s).fn \in Inner => /\ Tail(s) # <<>> /\ Head(Tail(s)).fn = "Deref"
                                    /\ Head(Tail(s)).r = Head(s).r
         /\ Head(s).r \in Req => RolesIn(Tail(s), Head(s).r) =
                                   IF Head(s).fn \in Inner THEN {"Deref"} ELSE {}
         /\ Head(s).fn = "Adding" => "Adding" \notin RolesIn(Tail(s), NoReq)
<1> DEFINE u == Tail(s)
           f == Head(s)
<1>1. /\ Len(s) \in Nat /\ Len(u) = Len(s) - 1 /\ Len(u) \in Nat /\ u \in Seq(Frame)
      /\ \A i \in 1 .. Len(u) : u[i] = s[i + 1]
      /\ f = s[1] /\ Len(s) >= 1 /\ f \in Frame
  BY PopFacts
<1>2. Sane(f)
  BY <1>1 DEF Shape, Sane, Plain
<1>3. f.fn \in Inner => /\ 1 <= Len(u) /\ u[1].fn = "Deref" /\ u[1].r = f.r
  BY <1>1 DEF Shape
<1>4. f.fn \in Inner => u # <<>> /\ Head(u).fn = "Deref" /\ Head(u).r = f.r
  <2> SUFFICES ASSUME f.fn \in Inner
               PROVE  u # <<>> /\ Head(u).fn = "Deref" /\ Head(u).r = f.r
    OBVIOUS
  <2> HIDE DEF u
  <2>1. u # <<>>
    BY <1>1, <1>3
  <2>2. Head(u) = u[1]
    BY <1>1, <2>1
  <2> QED
    BY <1>3, <2>1, <2>2
<1>5. ASSUME NEW i \in 1 .. Len(u)
      PROVE  /\ ~(f.fn = "Adding" /\ u[i].fn = "Adding")
             /\ f.r = u[i].r /\ f.r \in Req => i = 1 /\ f.fn \in Inner
  <2>1. 1 \in 1 .. Len(s) /\ i + 1 \in 1 .. Len(s) /\ u[i] = s[i + 1] /\ 1 < i + 1
    BY <1>1
  <2>2. /\ ~(s[1].fn = "Adding" /\ s[i + 1].fn = "Adding")
        /\ s[1].r = s[i + 1].r /\ s[1].r \in Req => i + 1 = 1 + 1 /\ s[1].fn \in Inner
    BY <2>1 DEF Shape
  <2> QED
    BY <1>1, <2>1, <2>2
<1>6. ASSUME f.fn = "Adding", "Adding" \in RolesIn(u, NoReq)
      PROVE  FALSE
  <2>1. PICK i \in 1 .. Len(u) : Role(u[i]) = "Adding"
    BY <1>6 DEF RolesIn
  <2>2. u[i].fn = "Adding"
    BY <2>1 DEF Role
  <2> QED
    BY <1>5, <1>6, <2>2
<1>7. ASSUME f.r \in Req
      PROVE  RolesIn(u, f.r) = IF f.fn \in Inner THEN {"Deref"} ELSE {}
  <2>1. CASE f.fn \in Inner
    <3>1. 1 \in 1 .. Len(u) /\ u[1].r = f.r /\ Role(u[1]) = "Deref"
      BY <1>1, <1>3, <2>1 DEF Role
    <3>2. "Deref" \in RolesIn(u, f.r)
      BY <3>1 DEF RolesIn, Roles, Calls
    <3>3. ASSUME NEW k \in RolesIn(u, f.r) PROVE k = "Deref"
      <4>1. PICK i \in 1 .. Len(u) : u[i].r = f.r /\ Role(u[i]) = k
        BY DEF RolesIn
      <4>2. i = 1
        BY <1>5, <1>7, <4>1
      <4> QED
        BY <3>1, <4>1, <4>2
    <3> QED
      BY <2>1, <3>2, <3>3
  <2>2. CASE f.fn \notin Inner
    <3>1. ASSUME NEW k \in RolesIn(u, f.r) PROVE FALSE
      <4>1. PICK i \in 1 .. Len(u) : u[i].r = f.r /\ Role(u[i]) = k
        BY DEF RolesIn
      <4> QED
        BY <1>5, <1>7, <2>2, <4>1
    <3> QED
      BY <2>2, <3>1
  <2> QED
    BY <2>1, <2>2
<1> QED
  BY <1>2, <1>4, <1>6, <1>7

\* A new call: of the state machine on top of its dereference, or of anything that the
\* thread does not do already.
LEMMA ShapePush ==
  ASSUME NEW f \in Frame, NEW s \in Seq(Frame), Shape(s), Sane(f),
         f.fn \in Inner => s # <<>> /\ Head(s).fn = "Deref" /\ Head(s).r = f.r,
         f.fn \notin Inner /\ f.r \in Req => RolesIn(s, f.r) = {},
         f.fn = "Adding" => "Adding" \notin RolesIn(s, NoReq)
  PROVE  Shape(Push(f, s))
<1> DEFINE p == Push(f, s)
<1>1. /\ Len(s) \in Nat /\ Len(p) = Len(s) + 1 /\ p[1] = f
      /\ \A i \in 1 .. Len(s) : p[i + 1] = s[i] /\ s[i] \in Frame
      /\ \A i \in 2 .. Len(p) : p[i] = s[i - 1]
  BY PushFacts
<1> HIDE DEF p
<1>2. ASSUME NEW i \in 1 .. Len(s)
      PROVE  /\ ~(f.fn = "Adding" /\ s[i].fn = "Adding")
             /\ f.r = s[i].r /\ f.r \in Req => i = 1 /\ f.fn \in Inner
  <2>0. s[i] \in Frame /\ Role(s[i]) \in Roles
    BY <1>1, FrameRole
  <2>1. ASSUME f.fn = "Adding", s[i].fn = "Adding" PROVE FALSE
    <3>1. Role(s[i]) = "Adding"
      BY <2>1 DEF Role
    <3>2. s[i].r = NoReq
      BY <2>1 DEF Shape
    <3> QED
      BY <2>0, <2>1, <3>1, <3>2 DEF RolesIn
  <2>2. ASSUME f.r = s[i].r, f.r \in Req PROVE i = 1 /\ f.fn \in Inner
    <3>1. Role(s[i]) \in RolesIn(s, f.r)
      BY <2>0, <2>2 DEF RolesIn
    <3>2. f.fn \in Inner
      BY <2>2, <3>1
    <3>3. s # <<>> /\ Head(s).fn = "Deref" /\ Head(s).r = f.r
      BY <3>2
    <3>4. Head(s) = s[1] /\ 1 \in 1 .. Len(s)
      BY <1>1, <3>3
    <3>5. CASE i # 1
      <4>1. s[1].fn \in Inner
        BY <1>1, <2>2, <3>3, <3>4, <3>5 DEF Shape
      <4> QED
        BY <3>3, <3>4, <4>1 DEF Inner
    <3> QED
      BY <3>2, <3>5
  <2> QED
    BY <2>1, <2>2
<1>3. ASSUME NEW i \in 1 .. Len(p)
      PROVE  /\ p[i].r \in Req <=> p[i].fn \notin {"Count", "AddPending", "Adding"}
             /\ p[i].r \notin Req => p[i].r = NoReq
             /\ p[i].fn \in Inner => /\ i + 1 <= Len(p)
                                     /\ p[i + 1].fn = "Deref" /\ p[i + 1].r = p[i].r
             /\ p[i].fn = "Count" => p[i].n >= 0
  <2>1. CASE i = 1
    <3>1. f.fn \in Inner => 1 \in 1 .. Len(s) /\ p[1 + 1] = s[1] /\ s[1] = Head(s)
      BY <1>1
    <3> QED
      BY <1>1, <2>1, <3>1 DEF Sane, Plain
  <2>2. CASE i # 1
    <3>1. PICK j \in 1 .. Len(s) : i = j + 1
      <4>1. i - 1 \in 1 .. Len(s) /\ i = (i - 1) + 1
        BY <1>1, <2>2
      <4> QED
        BY <4>1
    <3>2. p[i] = s[j]
      BY <1>1, <3>1
    <3>3. /\ s[j].r \in Req <=> s[j].fn \notin {"Count", "AddPending", "Adding"}
          /\ s[j].r \notin Req => s[j].r = NoReq
          /\ s[j].fn \in Inner => /\ j + 1 <= Len(s)
                                  /\ s[j + 1].fn = "Deref" /\ s[j + 1].r = s[j].r
          /\ s[j].fn = "Count" => s[j].n >= 0
      BY DEF Shape
    <3>4. j + 1 <= Len(s) => i + 1 <= Len(p) /\ p[i + 1] = s[j + 1]
      BY <1>1, <3>1
    <3> QED
      BY <3>2, <3>3, <3>4
  <2> QED
    BY <2>1, <2>2
<1>4. ASSUME NEW i \in 1 .. Len(p), NEW j \in 1 .. Len(p), i < j
      PROVE  /\ ~(p[i].fn = "Adding" /\ p[j].fn = "Adding")
             /\ p[i].r = p[j].r /\ p[i].r \in Req => j = i + 1 /\ p[i].fn \in Inner
  <2>1. PICK m \in 1 .. Len(s) : j = m + 1
    <3>1. j - 1 \in 1 .. Len(s) /\ j = (j - 1) + 1
      BY <1>1, <1>4
    <3> QED
      BY <3>1
  <2>2. p[j] = s[m]
    BY <1>1, <2>1
  <2>3. CASE i = 1
    BY <1>1, <1>2, <2>1, <2>2, <2>3
  <2>4. CASE i # 1
    <3>1. PICK l \in 1 .. Len(s) : i = l + 1
      <4>1. i - 1 \in 1 .. Len(s) /\ i = (i - 1) + 1
        BY <1>1, <2>4
      <4> QED
        BY <4>1
    <3>2. p[i] = s[l] /\ l < m
      BY <1>1, <1>4, <2>1, <3>1
    <3>3. /\ ~(s[l].fn = "Adding" /\ s[m].fn = "Adding")
          /\ s[l].r = s[m].r /\ s[l].r \in Req => m = l + 1 /\ s[l].fn \in Inner
      BY <3>2 DEF Shape
    <3> QED
      BY <2>1, <2>2, <3>1, <3>2, <3>3
  <2> QED
    BY <2>3, <2>4
<1>5. Shape(p)
  BY <1>3, <1>4 DEF Shape
<1> QED
  BY <1>5 DEF p

-----------------------------------------------------------------------------
(***************************************************************************)
(* What a step makes of the calls of its thread.                           *)
(***************************************************************************)
LEMMA Turned ==
  ASSUME NEW st \in [AllThreads -> Seq(Frame)], NEW t \in AllThreads, NEW s \in Seq(Frame),
         NEW r
  PROVE  /\ HoldersOf(st, r) \in HolderMaps /\ HoldersOf([st EXCEPT ![t] = s], r) \in HolderMaps
         /\ Only(HoldersOf(st, r), t, RolesIn(st[t], r))
         /\ Moved(HoldersOf(st, r), HoldersOf([st EXCEPT ![t] = s], r), t, RolesIn(s, r))
<1>1. PICK su : su = [st EXCEPT ![t] = s]
  OBVIOUS
<1>2. \A u \in AllThreads : su[u] = IF u = t THEN s ELSE st[u]
  BY <1>1
<1>3. HoldersOf(st, r) \in HolderMaps /\ HoldersOf(su, r) \in HolderMaps
  BY DEF HoldersOf, HolderMaps
<1>4. Only(HoldersOf(st, r), t, RolesIn(st[t], r))
  BY DEF HoldersOf, Only
<1>5. ASSUME NEW k \in Roles
      PROVE  HoldersOf(su, r)[k] =
               (HoldersOf(st, r)[k] \ {t}) \cup (IF k \in RolesIn(s, r) THEN {t} ELSE {})
  <2>1. HoldersOf(su, r)[k] = {u \in AllThreads : k \in RolesIn(su[u], r)}
    BY DEF HoldersOf
  <2>2. HoldersOf(st, r)[k] = {u \in AllThreads : k \in RolesIn(st[u], r)}
    BY DEF HoldersOf
  <2>3. \A u \in AllThreads : u # t => RolesIn(su[u], r) = RolesIn(st[u], r)
    BY <1>2
  <2>4. RolesIn(su[t], r) = RolesIn(s, r)
    BY <1>2
  <2> QED
    BY <2>1, <2>2, <2>3, <2>4, Zenon
<1> QED
  BY <1>1, <1>3, <1>4, <1>5 DEF Moved

LEMMA TurnedSame ==
  ASSUME NEW st \in [AllThreads -> Seq(Frame)], NEW t \in AllThreads, NEW s \in Seq(Frame),
         NEW r, RolesIn(s, r) = RolesIn(st[t], r)
  PROVE  HoldersOf([st EXCEPT ![t] = s], r) = HoldersOf(st, r)
<1>1. \A u \in AllThreads : RolesIn([st EXCEPT ![t] = s][u], r) = RolesIn(st[u], r)
  OBVIOUS
<1> QED
  BY <1>1 DEF HoldersOf

LEMMA ShapeStands ==
  ASSUME NEW s \in Seq(Frame), Shape(s), NEW r \in Req,
         "Loop" \in RolesIn(s, r) \/ "Receive" \in RolesIn(s, r)
  PROVE  "Deref" \in RolesIn(s, r)
<1>1. PICK i \in 1 .. Len(s) : s[i].r = r /\ Role(s[i]) \in Inner
  BY DEF RolesIn, Inner
<1>2. s[i].fn \in Inner
  BY <1>1 DEF Role, Inner
<1>3. i + 1 <= Len(s) /\ s[i + 1].fn = "Deref" /\ s[i + 1].r = r
  BY <1>1, <1>2 DEF Shape
<1>4. i + 1 \in 1 .. Len(s) /\ Role(s[i + 1]) = "Deref"
  BY <1>3 DEF Role
<1> QED
  BY <1>3, <1>4 DEF RolesIn, Roles, Calls

\* The calls s of a thread become p: of request r it had the calls ks and has the calls to;
\* nothing changes for other requests.
Rewrites(s, p, r, ks, to) ==
  /\ p \in Seq(Frame) /\ Shape(p)
  /\ RolesIn(s, r) = ks /\ RolesIn(p, r) = to
  /\ \A u \in Req \ {r} : RolesIn(p, u) = RolesIn(s, u)

AddsStill(s, p) == "Adding" \in RolesIn(p, NoReq) <=> "Adding" \in RolesIn(s, NoReq)

LEMMA TopRoles ==
  ASSUME NEW s \in Seq(Frame), s # <<>>, Shape(s), Head(s).r \in Req
  PROVE  /\ RolesIn(s, Head(s).r) = CallsOf(Role(Head(s)))
         /\ \A u : u # Head(s).r => RolesIn(s, u) = RolesIn(Tail(s), u)
<1>1. \A u : RolesIn(s, u) = RolesIn(Tail(s), u) \cup (IF Head(s).r = u THEN {Role(Head(s))} ELSE {})
  BY RolesPop
<1>2. RolesIn(Tail(s), Head(s).r) = IF Head(s).fn \in Inner THEN {"Deref"} ELSE {}
  BY ShapeTop
<1>3. RolesIn(s, Head(s).r) = RolesIn(Tail(s), Head(s).r) \cup {Role(Head(s))}
  BY <1>1
<1>4. Head(s).fn \in Inner <=> Role(Head(s)) \in Inner
  BY DEF Role, Inner
<1> QED
  BY <1>1, <1>2, <1>3, <1>4 DEF CallsOf

\* The innermost call returns.
LEMMA Returns ==
  ASSUME NEW s \in Seq(Frame), s # <<>>, Shape(s), Head(s).r \in Req
  PROVE  /\ Rewrites(s, Tail(s), Head(s).r, CallsOf(Role(Head(s))),
                     IF Head(s).fn \in Inner THEN {"Deref"} ELSE {})
         /\ AddsStill(s, Tail(s))
<1>1. Tail(s) \in Seq(Frame) /\ Shape(Tail(s))
  BY PopFacts, ShapePop
<1>2. RolesIn(Tail(s), Head(s).r) = IF Head(s).fn \in Inner THEN {"Deref"} ELSE {}
  BY ShapeTop
<1>3. /\ RolesIn(s, Head(s).r) = CallsOf(Role(Head(s)))
      /\ \A u : u # Head(s).r => RolesIn(s, u) = RolesIn(Tail(s), u)
  BY TopRoles
<1>4. NoReq # Head(s).r
  BY RequestAssumption
<1> QED
  BY <1>1, <1>2, <1>3, <1>4 DEF Rewrites, AddsStill

\* It gives way to another call f for the same request.
LEMMA Replaces ==
  ASSUME NEW s \in Seq(Frame), s # <<>>, Shape(s), Head(s).r \in Req,
         NEW f \in Frame, f.r = Head(s).r, f.fn \notin Plain, f.fn \in Inner <=> Head(s).fn \in Inner
  PROVE  /\ Rewrites(s, Push(f, Tail(s)), Head(s).r, CallsOf(Role(Head(s))), CallsOf(Role(f)))
         /\ AddsStill(s, Push(f, Tail(s)))
<1>1. Tail(s) \in Seq(Frame) /\ Shape(Tail(s))
  BY PopFacts, ShapePop
<1>2. /\ RolesIn(Tail(s), Head(s).r) = IF Head(s).fn \in Inner THEN {"Deref"} ELSE {}
      /\ Head(s).fn \in Inner => Tail(s) # <<>> /\ Head(Tail(s)).fn = "Deref" /\ Head(Tail(s)).r = Head(s).r
  BY ShapeTop
<1>3. /\ RolesIn(s, Head(s).r) = CallsOf(Role(Head(s)))
      /\ \A u : u # Head(s).r => RolesIn(s, u) = RolesIn(Tail(s), u)
  BY TopRoles
<1>4. NoReq # Head(s).r
  BY RequestAssumption
<1>5. Sane(f) /\ f.fn # "Adding"
  BY DEF Sane, Plain
<1>6. Shape(Push(f, Tail(s))) /\ Push(f, Tail(s)) \in Seq(Frame)
  BY <1>1, <1>2, <1>5, ShapePush, PushFacts
<1>7. \A u : RolesIn(Push(f, Tail(s)), u) = RolesIn(Tail(s), u) \cup (IF f.r = u THEN {Role(f)} ELSE {})
  BY <1>1, RolesPush
<1>8. f.fn \in Inner <=> Role(f) \in Inner
  BY DEF Role, Inner
<1>9. RolesIn(Push(f, Tail(s)), Head(s).r) = CallsOf(Role(f))
  BY <1>2, <1>7, <1>8 DEF CallsOf
<1>10. \A u : u # Head(s).r => RolesIn(Push(f, Tail(s)), u) = RolesIn(s, u)
  BY <1>3, <1>7
<1> QED
  BY <1>3, <1>4, <1>6, <1>9, <1>10 DEF Rewrites, AddsStill

LEMMA PushOne ==
  ASSUME NEW a \in Frame
  PROVE  <<a>> = Push(a, <<>>)
BY DEF Push

LEMMA PushTwo ==
  ASSUME NEW a \in Frame, NEW b \in Frame, NEW s \in Seq(Frame)
  PROVE  <<a, b>> \o s = Push(a, Push(b, s))
<1>1. <<a, b>> = <<a>> \o <<b>>
  <2>1. <<a, b>> \in Seq(Frame) /\ <<a>> \o <<b>> \in Seq(Frame)
    OBVIOUS
  <2>2. Len(<<a, b>>) = 2 /\ Len(<<a>> \o <<b>>) = 2
    OBVIOUS
  <2>3. \A i \in 1 .. 2 : <<a, b>>[i] = (<<a>> \o <<b>>)[i]
    OBVIOUS
  <2> QED
    BY <2>1, <2>2, <2>3, SeqEqual
<1>2. <<a>> \in Seq(Frame) /\ <<b>> \in Seq(Frame)
  OBVIOUS
<1>3. (<<a>> \o <<b>>) \o s = <<a>> \o (<<b>> \o s)
  BY <1>2, ConcatAssociative
<1> QED
  BY <1>1, <1>3 DEF Push

LEMMA PushThree ==
  ASSUME NEW a \in Frame, NEW b \in Frame, NEW c \in Frame, NEW s \in Seq(Frame)
  PROVE  <<a, b, c>> \o s = Push(a, Push(b, Push(c, s)))
<1>1. <<a, b, c>> = <<a>> \o <<b, c>>
  OBVIOUS
<1>2. <<a>> \in Seq(Frame) /\ <<b, c>> \in Seq(Frame)
  OBVIOUS
<1>3. (<<a>> \o <<b, c>>) \o s = <<a>> \o (<<b, c>> \o s)
  BY <1>2, ConcatAssociative
<1>4. <<b, c>> \o s = Push(b, Push(c, s))
  BY PushTwo
<1>5. Push(a, Push(b, Push(c, s))) = <<a>> \o Push(b, Push(c, s))
  BY DEF Push
<1> QED
  BY <1>1, <1>3, <1>4, <1>5

\* DoWork has taken its reference and enters the state machine.
LEMMA Enters ==
  ASSUME NEW s \in Seq(Frame), s # <<>>, Shape(s), Head(s).r \in Req, Head(s).fn \notin Inner,
         NEW f \in Frame, f.r = Head(s).r, f.fn = "Loop",
         NEW d \in Frame, d.r = Head(s).r, d.fn = "Deref"
  PROVE  /\ Rewrites(s, <<f, d>> \o Tail(s), Head(s).r, CallsOf(Role(Head(s))), CallsOf("Loop"))
         /\ AddsStill(s, <<f, d>> \o Tail(s))
<1>0. Role(d) = "Deref" /\ Role(f) = "Loop" /\ CallsOf("Deref") = {"Deref"} /\ CallsOf("Loop") = {"Loop", "Deref"}
  BY DEF Role, CallsOf, Inner
<1>1. PICK q : q = Push(d, Tail(s))
  OBVIOUS
<1>2. d.fn \notin Plain /\ (d.fn \in Inner <=> Head(s).fn \in Inner)
  BY DEF Plain, Inner
<1>3. Rewrites(s, q, Head(s).r, CallsOf(Role(Head(s))), {"Deref"}) /\ AddsStill(s, q)
  BY <1>0, <1>1, <1>2, Replaces
<1>4. q \in Seq(Frame) /\ Shape(q) /\ RolesIn(q, Head(s).r) = {"Deref"}
  BY <1>3 DEF Rewrites
<1>5. q # <<>> /\ Head(q) = d
  <2>1. Tail(s) \in Seq(Frame)
    BY PopFacts
  <2> QED
    BY <1>1, <2>1 DEF Push
<1>6. Sane(f) /\ f.fn \in Inner
  BY DEF Sane, Plain, Inner
<1>7. Shape(Push(f, q)) /\ Push(f, q) \in Seq(Frame)
  BY <1>4, <1>5, <1>6, ShapePush, PushFacts DEF Plain
<1>8. \A u : RolesIn(Push(f, q), u) = RolesIn(q, u) \cup (IF f.r = u THEN {"Loop"} ELSE {})
  BY <1>0, <1>4, RolesPush
<1>9. <<f, d>> \o Tail(s) = Push(f, q)
  <2>1. Tail(s) \in Seq(Frame)
    BY PopFacts
  <2> QED
    BY <1>1, <2>1, PushTwo
<1>10. NoReq # Head(s).r
  BY RequestAssumption
<1>11. Rewrites(s, Push(f, q), Head(s).r, CallsOf(Role(Head(s))), {"Loop", "Deref"})
  <2>1. RolesIn(Push(f, q), Head(s).r) = {"Loop", "Deref"}
    BY <1>4, <1>8
  <2>2. \A u \in Req \ {Head(s).r} : RolesIn(Push(f, q), u) = RolesIn(q, u)
    BY <1>8
  <2> QED
    BY <1>3, <1>7, <2>1, <2>2 DEF Rewrites
<1>12. AddsStill(s, Push(f, q))
  BY <1>3, <1>8, <1>10 DEF AddsStill
<1> QED
  BY <1>0, <1>9, <1>11, <1>12

\* A call that is not about a request, on top of the others.
LEMMA PlainPush ==
  ASSUME NEW s \in Seq(Frame), Shape(s), NEW f \in Frame, f.fn \in Plain, f.r = NoReq,
         f.fn = "Count" => f.n >= 0, f.fn = "Adding" => "Adding" \notin RolesIn(s, NoReq)
  PROVE  /\ Push(f, s) \in Seq(Frame) /\ Shape(Push(f, s))
         /\ \A u \in Req : RolesIn(Push(f, s), u) = RolesIn(s, u)
         /\ f.fn # "Adding" => AddsStill(s, Push(f, s))
         /\ f.fn = "Adding" => "Adding" \in RolesIn(Push(f, s), NoReq)
<1>1. Sane(f) /\ f.fn \notin Inner /\ NoReq \notin Req
  BY RequestAssumption DEF Sane, Plain, Inner
<1>2. Shape(Push(f, s)) /\ Push(f, s) \in Seq(Frame)
  BY <1>1, ShapePush, PushFacts
<1>3. \A u : RolesIn(Push(f, s), u) = RolesIn(s, u) \cup (IF f.r = u THEN {Role(f)} ELSE {})
  BY RolesPush
<1>4. Role(f) = f.fn
  BY DEF Role, Plain
<1>5. \A u \in Req : RolesIn(Push(f, s), u) = RolesIn(s, u)
  BY <1>1, <1>3
<1>6. RolesIn(Push(f, s), NoReq) = RolesIn(s, NoReq) \cup {f.fn}
  BY <1>3, <1>4
<1> QED
  BY <1>2, <1>5, <1>6 DEF AddsStill, Plain

LEMMA PlainPop ==
  ASSUME NEW s \in Seq(Frame), s # <<>>, Shape(s), Head(s).fn \in Plain
  PROVE  /\ Tail(s) \in Seq(Frame) /\ Shape(Tail(s)) /\ Head(s).r = NoReq
         /\ \A u \in Req : RolesIn(Tail(s), u) = RolesIn(s, u)
         /\ Head(s).fn # "Adding" => AddsStill(s, Tail(s))
         /\ Head(s).fn = "Adding" => "Adding" \notin RolesIn(Tail(s), NoReq) /\ "Adding" \in RolesIn(s, NoReq)
         /\ Head(s).fn = "Count" => Head(s).n >= 0
<1>1. Tail(s) \in Seq(Frame) /\ Shape(Tail(s))
  BY PopFacts, ShapePop
<1>2. /\ Sane(Head(s))
      /\ Head(s).fn = "Adding" => "Adding" \notin RolesIn(Tail(s), NoReq)
  BY ShapeTop
<1>3. Head(s).r = NoReq /\ NoReq \notin Req
  BY <1>2, RequestAssumption DEF Sane
<1>4. \A u : RolesIn(s, u) = RolesIn(Tail(s), u) \cup (IF Head(s).r = u THEN {Role(Head(s))} ELSE {})
  BY RolesPop
<1>5. Role(Head(s)) = Head(s).fn
  BY DEF Role, Plain
<1>6. \A u \in Req : RolesIn(Tail(s), u) = RolesIn(s, u)
  BY <1>3, <1>4
<1>7. RolesIn(s, NoReq) = RolesIn(Tail(s), NoReq) \cup {Head(s).fn}
  BY <1>3, <1>4, <1>5
<1> QED
  BY <1>1, <1>2, <1>3, <1>6, <1>7 DEF AddsStill, Sane, Plain

\* The object is on the free list; then the list's length is written.
LEMMA Lists ==
  ASSUME NEW s \in Seq(Frame), s # <<>>, Shape(s), Head(s).r \in Req, Head(s).fn \notin Inner,
         NEW f \in Frame, f.fn = "Count", f.r = NoReq, f.n >= 0
  PROVE  /\ Rewrites(s, <<f>> \o Tail(s), Head(s).r, CallsOf(Role(Head(s))), {})
         /\ AddsStill(s, <<f>> \o Tail(s))
<1>1. Rewrites(s, Tail(s), Head(s).r, CallsOf(Role(Head(s))), {}) /\ AddsStill(s, Tail(s))
  BY Returns
<1>2. Tail(s) \in Seq(Frame) /\ Shape(Tail(s))
  BY <1>1 DEF Rewrites
<1>3. f.fn \in Plain /\ f.fn # "Adding"
  BY DEF Plain
<1>4. /\ Push(f, Tail(s)) \in Seq(Frame) /\ Shape(Push(f, Tail(s)))
      /\ \A u \in Req : RolesIn(Push(f, Tail(s)), u) = RolesIn(Tail(s), u)
      /\ AddsStill(Tail(s), Push(f, Tail(s)))
  BY <1>2, <1>3, PlainPush
<1>5. <<f>> \o Tail(s) = Push(f, Tail(s))
  BY DEF Push
<1> QED
  BY <1>1, <1>4, <1>5 DEF Rewrites, AddsStill

\* More requests are asked for before the state machine goes on.
LEMMA AsksForMore ==
  ASSUME NEW s \in Seq(Frame), s # <<>>, Shape(s), Head(s).r \in Req,
         NEW f \in Frame, f.fn = "AddPending", f.r = NoReq
  PROVE  /\ Rewrites(s, <<f, Head(s)>> \o Tail(s), Head(s).r, CallsOf(Role(Head(s))), CallsOf(Role(Head(s))))
         /\ AddsStill(s, <<f, Head(s)>> \o Tail(s))
<1>1. f.fn \in Plain /\ f.fn # "Adding" /\ f.fn # "Count"
  BY DEF Plain
<1>2. /\ Push(f, s) \in Seq(Frame) /\ Shape(Push(f, s))
      /\ \A u \in Req : RolesIn(Push(f, s), u) = RolesIn(s, u)
      /\ AddsStill(s, Push(f, s))
  BY <1>1, PlainPush
<1>3. <<f, Head(s)>> \o Tail(s) = Push(f, s)
  <2>1. Head(s) \in Frame /\ Tail(s) \in Seq(Frame) /\ s = Push(Head(s), Tail(s))
    BY PopFacts, PushPop
  <2>2. <<f, Head(s)>> \o Tail(s) = Push(f, Push(Head(s), Tail(s)))
    BY <2>1, PushTwo
  <2> QED
    BY <2>1, <2>2
<1>4. RolesIn(s, Head(s).r) = CallsOf(Role(Head(s)))
  BY TopRoles
<1> QED
  BY <1>2, <1>3, <1>4 DEF Rewrites

\* A thread that has nothing to do begins a call for a request.
LEMMA Begins ==
  ASSUME NEW f \in Frame, f.r \in Req, f.fn \notin Plain, f.fn \notin Inner
  PROVE  Rewrites(<<>>, <<f>>, f.r, {}, {Role(f)}) /\ AddsStill(<<>>, <<f>>)
<1>1. <<f>> = Push(f, <<>>) /\ <<>> \in Seq(Frame) /\ \A u : RolesIn(<<>>, u) = {}
  BY PushOne, RolesEmpty
<1>2. \A u : RolesIn(Push(f, <<>>), u) = RolesIn(<<>>, u) \cup (IF f.r = u THEN {Role(f)} ELSE {})
  BY <1>1, RolesPush
<1>3. Sane(f) /\ f.fn # "Adding"
  BY DEF Sane, Plain
<1>4. Shape(Push(f, <<>>)) /\ Push(f, <<>>) \in Seq(Frame)
  BY <1>1, <1>3, ShapeEmpty, ShapePush, PushFacts
<1>5. NoReq # f.r
  BY RequestAssumption
<1>6. RolesIn(<<f>>, f.r) = {Role(f)} /\ \A u : u # f.r => RolesIn(<<f>>, u) = {}
  BY <1>1, <1>2
<1> QED
  BY <1>1, <1>4, <1>5, <1>6 DEF Rewrites, AddsStill

\* The loop that adds requests starts one, which the thread has nothing to do with yet.
LEMMA Adds ==
  ASSUME NEW s \in Seq(Frame), s # <<>>, Shape(s), Head(s).fn = "Adding",
         NEW k \in Frame, k.r \in Req, Role(k) = "Kick", RolesIn(s, k.r) = {},
         NEW a \in Frame, a.fn = "Adding", a.r = NoReq,
         NEW c \in Frame, c.fn = "Count", c.r = NoReq, c.n >= 0
  PROVE  /\ Rewrites(s, <<k, a>> \o Tail(s), k.r, {}, {"Kick"})
         /\ AddsStill(s, <<k, a>> \o Tail(s))
         /\ Rewrites(s, <<c, k, a>> \o Tail(s), k.r, {}, {"Kick"})
         /\ AddsStill(s, <<c, k, a>> \o Tail(s))
<1>1. /\ Tail(s) \in Seq(Frame) /\ Shape(Tail(s)) /\ Head(s).r = NoReq
      /\ \A u \in Req : RolesIn(Tail(s), u) = RolesIn(s, u)
      /\ "Adding" \notin RolesIn(Tail(s), NoReq) /\ "Adding" \in RolesIn(s, NoReq)
  BY PlainPop DEF Plain
<1>2. PICK p : p = Push(a, Tail(s))
  OBVIOUS
<1>3. /\ p \in Seq(Frame) /\ Shape(p)
      /\ \A u \in Req : RolesIn(p, u) = RolesIn(Tail(s), u)
      /\ "Adding" \in RolesIn(p, NoReq)
  BY <1>1, <1>2, PlainPush DEF Plain
<1>4. PICK q : q = Push(k, p)
  OBVIOUS
<1>5. k.fn = "DoWork"
  BY DEF Role, Frame, Calls
<1>6. \A u : RolesIn(q, u) = RolesIn(p, u) \cup (IF k.r = u THEN {"Kick"} ELSE {})
  BY <1>3, <1>4, RolesPush
<1>7. Sane(k) /\ k.fn \notin Inner /\ k.fn # "Adding" /\ RolesIn(p, k.r) = {}
  BY <1>1, <1>3, <1>5 DEF Sane, Plain, Inner
<1>8. Shape(q) /\ q \in Seq(Frame)
  BY <1>3, <1>4, <1>7, ShapePush, PushFacts
<1>9. NoReq # k.r
  BY RequestAssumption
<1>10. Rewrites(s, q, k.r, {}, {"Kick"}) /\ AddsStill(s, q)
  <2>1. RolesIn(q, k.r) = {"Kick"} /\ \A u \in Req \ {k.r} : RolesIn(q, u) = RolesIn(s, u)
    <3>1. RolesIn(q, k.r) = RolesIn(p, k.r) \cup {"Kick"}
      BY <1>6
    <3>2. \A u \in Req \ {k.r} : RolesIn(q, u) = RolesIn(p, u)
      BY <1>6
    <3>3. \A u \in Req \ {k.r} : RolesIn(q, u) = RolesIn(s, u)
      BY <1>1, <1>3, <3>2
    <3> QED
      BY <1>7, <3>1, <3>3
  <2>2. RolesIn(q, NoReq) = RolesIn(p, NoReq)
    BY <1>6, <1>9, ZenonT(40)
  <2> QED
    BY <1>1, <1>3, <1>8, <2>1, <2>2 DEF Rewrites, AddsStill
<1>11. /\ Push(c, q) \in Seq(Frame) /\ Shape(Push(c, q))
       /\ \A u \in Req : RolesIn(Push(c, q), u) = RolesIn(q, u)
       /\ AddsStill(q, Push(c, q))
  BY <1>8, PlainPush DEF Plain
<1>12. Rewrites(s, Push(c, q), k.r, {}, {"Kick"}) /\ AddsStill(s, Push(c, q))
  BY <1>10, <1>11 DEF Rewrites, AddsStill
<1>13. <<k, a>> \o Tail(s) = q /\ <<c, k, a>> \o Tail(s) = Push(c, q)
  <2>1. <<k, a>> \o Tail(s) = Push(k, Push(a, Tail(s)))
    BY <1>1, PushTwo, ZenonT(40)
  <2>2. <<c, k, a>> \o Tail(s) = Push(c, Push(k, Push(a, Tail(s))))
    <3>1. \A z \in Seq(Frame) : <<c, k, a>> \o z = Push(c, Push(k, Push(a, z)))
      BY PushThree
    <3> QED
      BY <1>1, <3>1, Zenon
  <2> QED
    BY <1>2, <1>4, <2>1, <2>2
<1> QED
  BY <1>10, <1>12, <1>13

-----------------------------------------------------------------------------
(***************************************************************************)
(* A step of thread t that touches request r alone.                        *)
(***************************************************************************)
Touches(t, r, ks, to) ==
  /\ stack' = [stack EXCEPT ![t] = stack'[t]]
  /\ Rewrites(stack[t], stack'[t], r, ks, to)
  /\ req' \in [Req -> Objects]
  /\ \A u \in Req \ {r} : /\ req'[u] = req[u]
                          /\ u \in pool'.sm_FreeList <=> u \in pool.sm_FreeList

LEMMA Types ==
  ASSUME TypeOK
  PROVE  req \in [Req -> Objects] /\ stack \in [AllThreads -> Seq(Frame)]
BY DEF TypeOK, Objects

LEMMA StandingHolders ==
  ASSUME TypeOK, ShapeInv, NEW r \in Req
  PROVE  Standing(Holders(r))
<1>1. \A t \in AllThreads : stack[t] \in Seq(Frame) /\ Shape(stack[t])
  BY Types DEF ShapeInv
<1>2. \A t \in AllThreads : "Loop" \in RolesIn(stack[t], r) \/ "Receive" \in RolesIn(stack[t], r)
                              => "Deref" \in RolesIn(stack[t], r)
  BY <1>1, ShapeStands
<1>3. "Loop" \in Roles /\ "Receive" \in Roles /\ "Deref" \in Roles
  BY DEF Roles, Calls
<1> QED
  BY <1>2, <1>3 DEF Standing, Holders, HoldersOf

LEMMA TouchedObject ==
  ASSUME TypeOK, ShapeInv, SoundInv, NEW t \in AllThreads, NEW r \in Req, NEW ks, NEW to,
         Touches(t, r, ks, to)
  PROVE  /\ Holders(r) \in HolderMaps /\ Holders(r)' \in HolderMaps
         /\ Only(Holders(r), t, ks) /\ Moved(Holders(r), Holders(r)', t, to)
         /\ Standing(Holders(r))
         /\ Sound(req[r], r \in pool.sm_FreeList, Holders(r))
         /\ req[r] \in Objects /\ req'[r] \in Objects
         /\ (r \in pool.sm_FreeList) \in BOOLEAN
<1>1. stack \in [AllThreads -> Seq(Frame)] /\ req \in [Req -> Objects]
  BY Types
<1>2. PICK p : p = stack'[t]
  OBVIOUS
<1>3. /\ p \in Seq(Frame) /\ stack' = [stack EXCEPT ![t] = p]
      /\ RolesIn(stack[t], r) = ks /\ RolesIn(p, r) = to
  BY <1>2 DEF Touches, Rewrites
<1>4. /\ HoldersOf(stack, r) \in HolderMaps /\ HoldersOf([stack EXCEPT ![t] = p], r) \in HolderMaps
      /\ Only(HoldersOf(stack, r), t, RolesIn(stack[t], r))
      /\ Moved(HoldersOf(stack, r), HoldersOf([stack EXCEPT ![t] = p], r), t, RolesIn(p, r))
  BY <1>1, <1>3, Turned
<1>5. Holders(r) = HoldersOf(stack, r) /\ Holders(r)' = HoldersOf([stack EXCEPT ![t] = p], r)
  BY <1>3 DEF Holders
<1>6. Standing(Holders(r))
  BY StandingHolders
<1>7. Sound(req[r], r \in pool.sm_FreeList, Holders(r))
  BY DEF SoundInv
<1>8. req[r] \in Objects /\ req'[r] \in Objects
  BY <1>1 DEF Touches
<1> QED
  BY <1>3, <1>4, <1>5, <1>6, <1>7, <1>8

LEMMA TouchedOthers ==
  ASSUME TypeOK, NEW t \in AllThreads, NEW r \in Req, NEW ks, NEW to, Touches(t, r, ks, to)
  PROVE  \A u \in Req \ {r} : Holders(u)' = Holders(u)
<1>1. stack \in [AllThreads -> Seq(Frame)]
  BY Types
<1>2. PICK p : p = stack'[t]
  OBVIOUS
<1>3. /\ p \in Seq(Frame) /\ stack' = [stack EXCEPT ![t] = p]
      /\ \A u \in Req \ {r} : RolesIn(p, u) = RolesIn(stack[t], u)
  BY <1>2 DEF Touches, Rewrites
<1>4. \A u \in Req \ {r} : HoldersOf([stack EXCEPT ![t] = p], u) = HoldersOf(stack, u)
  <2> SUFFICES ASSUME NEW u \in Req \ {r}
               PROVE  HoldersOf([stack EXCEPT ![t] = p], u) = HoldersOf(stack, u)
    OBVIOUS
  <2>0. p \in Seq(Frame)
    BY <1>3
  <2>1. RolesIn(p, u) = RolesIn(stack[t], u)
    BY <1>3
  <2> QED
    BY <1>1, <2>0, <2>1, TurnedSame
<1> QED
  BY <1>3, <1>4 DEF Holders

LEMMA TouchedSound ==
  ASSUME TypeOK, ShapeInv, SoundInv, NEW t \in AllThreads, NEW r \in Req, NEW ks, NEW to,
         Touches(t, r, ks, to),
         Sound(req'[r], r \in pool'.sm_FreeList, Holders(r)')
  PROVE  SoundInv' /\ ShapeInv'
<1>1. \A u \in Req \ {r} : Holders(u)' = Holders(u)
  BY TouchedOthers
<1>2. ASSUME NEW u \in Req
      PROVE  Sound(req'[u], u \in pool'.sm_FreeList, Holders(u)')
  <2>1. CASE u = r
    BY <2>1
  <2>2. CASE u # r
    <3>1. Sound(req[u], u \in pool.sm_FreeList, Holders(u))
      BY DEF SoundInv
    <3>2. req'[u] = req[u] /\ Holders(u)' = Holders(u)
          /\ (u \in pool'.sm_FreeList <=> u \in pool.sm_FreeList)
      BY <1>1, <2>2 DEF Touches
    <3>3. Sound(req[u], u \in pool'.sm_FreeList, Holders(u))
      BY <3>1, <3>2 DEF Sound, Busy
    <3> QED
      BY <3>2, <3>3
  <2> QED
    BY <2>1, <2>2
<1>3. SoundInv'
  BY <1>2 DEF SoundInv
<1>4. ASSUME NEW u \in AllThreads PROVE Shape(stack'[u])
  <2>1. stack \in [AllThreads -> Seq(Frame)]
    BY Types
  <2>2. u # t => stack'[u] = stack[u]
    BY <2>1 DEF Touches
  <2>3. u = t => Shape(stack'[u])
    BY DEF Touches, Rewrites
  <2> QED
    BY <2>2, <2>3 DEF ShapeInv
<1>5. ShapeInv'
  BY <1>4 DEF ShapeInv
<1> QED
  BY <1>3, <1>5

LEMMA CountOne ==
  ASSUME NEW S \in SUBSET Req, NEW T \in SUBSET Req, NEW r \in Req,
         \A u \in Req \ {r} : u \in T <=> u \in S
  PROVE  /\ Cardinality(S) \in Nat /\ Cardinality(T) \in Nat
         /\ Cardinality(T) = Cardinality(S) - Bit(r \in S) + Bit(r \in T)
<1>1. IsFiniteSet(S) /\ IsFiniteSet(T)
  BY RequestAssumption, FS_Subset
<1>2. Cardinality(S) \in Nat /\ Cardinality(T) \in Nat
  BY <1>1, FS_CardinalityType
<1>3. CASE r \in S /\ r \in T
  <2>1. S = T
    BY <1>3
  <2> QED
    BY <1>2, <1>3, <2>1 DEF Bit
<1>4. CASE r \notin S /\ r \notin T
  <2>1. S = T
    BY <1>4
  <2> QED
    BY <1>2, <1>4, <2>1 DEF Bit
<1>5. CASE r \in S /\ r \notin T
  <2>1. T = S \ {r}
    BY <1>5
  <2>2. Cardinality(S \ {r}) = Cardinality(S) - 1
    BY <1>1, <1>5, FS_RemoveElement
  <2> QED
    BY <1>2, <1>5, <2>1, <2>2 DEF Bit
<1>6. CASE r \notin S /\ r \in T
  <2>1. T = S \cup {r}
    BY <1>6
  <2>2. Cardinality(S \cup {r}) = Cardinality(S) + 1
    BY <1>1, <1>6, FS_AddElement
  <2> QED
    BY <1>2, <1>6, <2>1, <2>2 DEF Bit
<1> QED
  BY <1>3, <1>4, <1>5, <1>6

LEMMA TouchedCounts ==
  ASSUME TypeOK, NEW t \in AllThreads, NEW r \in Req, NEW ks, NEW to, Touches(t, r, ks, to)
  PROVE  /\ Cardinality(Living) \in Nat /\ Cardinality(Living') \in Nat
         /\ Cardinality(WaitSet) \in Nat /\ Cardinality(WaitSet') \in Nat
         /\ Cardinality(Living') = Cardinality(Living)
              - Bit(Lives(req[r], Holders(r))) + Bit(Lives(req'[r], Holders(r)'))
         /\ Cardinality(WaitSet') = Cardinality(WaitSet)
              - Bit(Waits(req[r], Holders(r))) + Bit(Waits(req'[r], Holders(r)'))
<1>1. \A u \in Req \ {r} : Holders(u)' = Holders(u) /\ req'[u] = req[u]
  BY TouchedOthers DEF Touches
<1>2. /\ Living \in SUBSET Req /\ Living' \in SUBSET Req
      /\ WaitSet \in SUBSET Req /\ WaitSet' \in SUBSET Req
  BY DEF Living, WaitSet
<1>3. \A u \in Req \ {r} : (u \in Living' <=> u \in Living) /\ (u \in WaitSet' <=> u \in WaitSet)
  BY <1>1 DEF Living, WaitSet
<1>4. /\ r \in Living <=> Lives(req[r], Holders(r))
      /\ r \in Living' <=> Lives(req'[r], Holders(r)')
      /\ r \in WaitSet <=> Waits(req[r], Holders(r))
      /\ r \in WaitSet' <=> Waits(req'[r], Holders(r)')
  BY DEF Living, WaitSet
<1>5. PICK S \in SUBSET Req, T \in SUBSET Req : S = Living /\ T = Living'
  BY <1>2
<1>6. PICK U \in SUBSET Req, V \in SUBSET Req : U = WaitSet /\ V = WaitSet'
  BY <1>2
<1>7. /\ Cardinality(S) \in Nat /\ Cardinality(T) \in Nat
      /\ Cardinality(T) = Cardinality(S) - Bit(r \in S) + Bit(r \in T)
  BY <1>3, <1>5, CountOne
<1>8. /\ Cardinality(U) \in Nat /\ Cardinality(V) \in Nat
      /\ Cardinality(V) = Cardinality(U) - Bit(r \in U) + Bit(r \in V)
  BY <1>3, <1>6, CountOne
<1> QED
  BY <1>4, <1>5, <1>6, <1>7, <1>8 DEF Bit

\* What is known of the request that the innermost call of a thread is about.
LEMMA TopObject ==
  ASSUME TypeOK, ShapeInv, SoundInv, NEW t \in AllThreads, stack[t] # <<>>, Head(stack[t]).r \in Req
  PROVE  /\ stack[t] \in Seq(Frame) /\ Shape(stack[t]) /\ Head(stack[t]) \in Frame
         /\ Holders(Head(stack[t]).r) \in HolderMaps
         /\ Only(Holders(Head(stack[t]).r), t, CallsOf(Role(Head(stack[t]))))
         /\ Sound(req[Head(stack[t]).r], Head(stack[t]).r \in pool.sm_FreeList, Holders(Head(stack[t]).r))
         /\ req[Head(stack[t]).r] \in Objects
<1>1. PICK r \in Req : r = Head(stack[t]).r
  OBVIOUS
<1>2. stack[t] \in Seq(Frame) /\ Shape(stack[t]) /\ req \in [Req -> Objects]
      /\ stack \in [AllThreads -> Seq(Frame)]
  BY Types DEF ShapeInv
<1>3. Head(stack[t]) \in Frame
  BY <1>2, PopFacts
<1>4. RolesIn(stack[t], r) = CallsOf(Role(Head(stack[t])))
  BY <1>1, <1>2, TopRoles
<1>5. HoldersOf(stack, r) \in HolderMaps /\ Only(HoldersOf(stack, r), t, RolesIn(stack[t], r))
  BY <1>2, Turned
<1>6. Sound(req[r], r \in pool.sm_FreeList, Holders(r)) /\ req[r] \in Objects
  BY <1>2 DEF SoundInv
<1> QED
  BY <1>1, <1>2, <1>3, <1>4, <1>5, <1>6 DEF Holders

\* The invariant without the types of what no counter and no request depends on, and those.
Rest ==
  /\ ShapeInv /\ SoundInv /\ CountInv /\ AddInv
  /\ req \in [Req -> Objects] /\ stack \in [AllThreads -> Seq(Frame)]
  /\ pool.sm_cRequests \in Nat /\ pool.sm_cRequestsPending \in Nat

Others ==
  /\ pool \in [settings : Settings, sm_cRequests : Int,
               sm_cRequestsPending : Int, sm_cRequestsServed : Nat,
               sm_fAddingRequests : BOOLEAN, sm_cFreeRequests : Nat,
               sm_FreeList : SUBSET Req]
  /\ wp \in [_fShutdown : BOOLEAN,
             _fImmediateShutdown : {"garbage", "yes", "no"},
             handle : {"open", "shutdown", "closed"}, monitor : BOOLEAN,
             idle : BOOLEAN, _BusySignal : BOOLEAN, _CurrentIdleTick : Nat,
             read : Int, sent : SUBSET {"Idle", "Restart"}, sm_cOutstanding : Nat,
             faults : Nat]
  /\ main \in {"Start", "Listening", "StopListening", "StopMonitor", "Release",
              "Disconnects", "Terminate", "Done"}

LEMMA InvParts ==
  ASSUME Rest', Others'
  PROVE  Inv'
<1>1. pool' \in [settings : Settings, sm_cRequests : Nat,
                sm_cRequestsPending : Nat, sm_cRequestsServed : Nat,
                sm_fAddingRequests : BOOLEAN, sm_cFreeRequests : Nat,
                sm_FreeList : SUBSET Req]
  BY DEF Rest, Others
<1>2. req' \in [Req -> [alive : BOOLEAN, _ExecState : ExecState, _cRefs : Nat,
                       io : {"None", "Receive", "Call"}, core : BOOLEAN]]
  BY DEF Rest, Objects
<1>3. TypeOK'
  BY <1>1, <1>2 DEF TypeOK, Rest, Others
<1> QED
  BY <1>3 DEF Inv, Rest

LEMMA Slack ==
  ASSUME NEW p \in Int, NEW w \in Int, NEW a \in Int, NEW b \in Int, NEW d \in Int, NEW e \in Nat,
         NEW f \in Int, p - w \in 0 .. f, d - (b - a) \in 0 .. e
  PROVE  (p + d) - (w - a + b) \in 0 .. (f + e)
OBVIOUS

\* What holds of the pool as a whole, when the counters follow what became of r.
LEMMA TouchedInv ==
  ASSUME Inv, NEW t \in AllThreads, NEW r \in Req, NEW ks, NEW to, Touches(t, r, ks, to),
         Sound(req'[r], r \in pool'.sm_FreeList, Holders(r)'),
         AddsStill(stack[t], stack'[t]),
         pool'.sm_fAddingRequests = pool.sm_fAddingRequests, pool'.settings = pool.settings,
         NEW c \in Int, pool'.sm_cRequests = pool.sm_cRequests + c,
         NEW d \in Int, pool'.sm_cRequestsPending = pool.sm_cRequestsPending + d,
         NEW e \in Nat, wp'.faults = wp.faults - e,
         c = Bit(Lives(req'[r], Holders(r)')) - Bit(Lives(req[r], Holders(r))),
         d - (Bit(Waits(req'[r], Holders(r)')) - Bit(Waits(req[r], Holders(r)))) \in 0 .. e
  PROVE  Rest'
<1>1. TypeOK /\ ShapeInv /\ SoundInv /\ CountInv /\ AddInv
  BY DEF Inv
<1>2. SoundInv' /\ ShapeInv'
  BY <1>1, TouchedSound
<1>3. /\ Cardinality(Living) \in Nat /\ Cardinality(Living') \in Nat
      /\ Cardinality(WaitSet) \in Nat /\ Cardinality(WaitSet') \in Nat
      /\ Cardinality(Living') = Cardinality(Living)
           - Bit(Lives(req[r], Holders(r))) + Bit(Lives(req'[r], Holders(r)'))
      /\ Cardinality(WaitSet') = Cardinality(WaitSet)
           - Bit(Waits(req[r], Holders(r))) + Bit(Waits(req'[r], Holders(r)'))
  BY <1>1, TouchedCounts
<1>4. /\ Bit(Waits(req[r], Holders(r))) \in Int /\ Bit(Waits(req'[r], Holders(r)')) \in Int
      /\ Bit(Lives(req[r], Holders(r))) \in Int /\ Bit(Lives(req'[r], Holders(r)')) \in Int
  BY DEF Bit
<1>5. /\ pool.sm_cRequests \in Nat /\ pool.sm_cRequestsPending \in Nat /\ wp.faults \in Nat
      /\ pool.settings.maxFaults \in Nat /\ stack \in [AllThreads -> Seq(Frame)]
  BY <1>1, SettingsAssumption DEF TypeOK, Setting
<1>6. Failures \in Int /\ Failures' = Failures + e /\ wp'.faults \in Int
  <2>1. /\ Failures = pool.settings.maxFaults - wp.faults
        /\ Failures' = pool'.settings.maxFaults - wp'.faults
    BY DEF Failures
  <2>2. PICK m \in Nat, f \in Nat : m = pool.settings.maxFaults /\ f = wp.faults
    BY <1>5
  <2>3. Failures = m - f /\ Failures' = m - (f - e) /\ wp'.faults = f - e
    BY <2>1, <2>2
  <2>4. m - f \in Int /\ m - (f - e) = (m - f) + e /\ f - e \in Int
    OBVIOUS
  <2> QED
    BY <2>3, <2>4
<1>7. /\ pool.sm_cRequests = Cardinality(Living)
      /\ pool.sm_cRequestsPending - Cardinality(WaitSet) \in 0 .. Failures
      /\ wp.faults <= pool.settings.maxFaults
  BY <1>1 DEF CountInv
<1>8. pool'.sm_cRequests = Cardinality(Living')
  BY <1>3, <1>4, <1>7
<1>9. pool'.sm_cRequestsPending - Cardinality(WaitSet') \in 0 .. Failures'
  <2>1. PICK a \in Int, b \in Int : /\ a = Bit(Waits(req[r], Holders(r)))
                                    /\ b = Bit(Waits(req'[r], Holders(r)'))
    BY <1>4
  <2>2. d - (b - a) \in 0 .. e /\ Cardinality(WaitSet') = Cardinality(WaitSet) - a + b
    BY <1>3, <2>1
  <2>3. pool.sm_cRequestsPending \in Int /\ Cardinality(WaitSet) \in Int
    BY <1>3, <1>5
  <2>4. (pool.sm_cRequestsPending + d) - (Cardinality(WaitSet) - a + b) \in 0 .. (Failures + e)
    BY <1>6, <1>7, <2>2, <2>3, Slack
  <2> QED
    BY <1>6, <2>2, <2>4
<1>10. CountInv'
  <2>1. wp'.faults <= pool'.settings.maxFaults
    BY <1>5, <1>7, SMTT(30)
  <2> QED
    BY <1>8, <1>9, <2>1 DEF CountInv
<1>11. Adders' = Adders
  <2>1. stack' = [stack EXCEPT ![t] = stack'[t]]
    BY DEF Touches
  <2>2. \A u \in AllThreads : u # t => stack'[u] = stack[u]
    BY <1>5, <2>1
  <2>3. \A u \in AllThreads : "Adding" \in RolesIn(stack'[u], NoReq) <=> "Adding" \in RolesIn(stack[u], NoReq)
    BY <2>2 DEF AddsStill
  <2> QED
    BY <2>3 DEF Adders
<1>12. AddInv'
  BY <1>1, <1>6, <1>11 DEF AddInv
<1>13. req' \in [Req -> Objects] /\ stack' \in [AllThreads -> Seq(Frame)]
  <2>1. req' \in [Req -> Objects] /\ stack' = [stack EXCEPT ![t] = stack'[t]] /\ stack'[t] \in Seq(Frame)
    BY DEF Touches, Rewrites
  <2> QED
    BY <1>5, <2>1
<1>14. pool'.sm_cRequests \in Nat /\ pool'.sm_cRequestsPending \in Nat
  <2>1. pool'.sm_cRequestsPending \in Int
    BY <1>5
  <2> QED
    BY <1>3, <1>6, <1>8, <1>9, <2>1
<1> QED
  BY <1>2, <1>10, <1>12, <1>13, <1>14 DEF Rest

\* Nothing is done with any request.
LEMMA SameHolders ==
  ASSUME TypeOK, ShapeInv, SoundInv,
         NEW t \in AllThreads, NEW p \in Seq(Frame), stack' = [stack EXCEPT ![t] = p],
         Shape(p), \A u \in Req : RolesIn(p, u) = RolesIn(stack[t], u),
         req' = req, pool'.sm_FreeList = pool.sm_FreeList
  PROVE  /\ ShapeInv' /\ SoundInv' /\ Living' = Living /\ WaitSet' = WaitSet
         /\ req' \in [Req -> Objects] /\ stack' \in [AllThreads -> Seq(Frame)]
<1>1. stack \in [AllThreads -> Seq(Frame)] /\ req \in [Req -> Objects]
  BY Types
<1>2. \A u \in Req : Holders(u)' = Holders(u)
  <2> SUFFICES ASSUME NEW u \in Req PROVE HoldersOf([stack EXCEPT ![t] = p], u) = HoldersOf(stack, u)
    BY DEF Holders
  <2>1. RolesIn(p, u) = RolesIn(stack[t], u)
    OBVIOUS
  <2> QED
    BY <1>1, <2>1, TurnedSame
<1>3. SoundInv'
  <2> SUFFICES ASSUME NEW u \in Req
               PROVE  Sound(req'[u], u \in pool'.sm_FreeList, Holders(u)')
    BY DEF SoundInv
  <2>1. Sound(req[u], u \in pool.sm_FreeList, Holders(u))
    BY DEF SoundInv
  <2> QED
    BY <1>2, <2>1
<1>4. Living' = Living /\ WaitSet' = WaitSet
  BY <1>2 DEF Living, WaitSet
<1>5. ShapeInv'
  BY <1>1 DEF ShapeInv
<1>6. stack' \in [AllThreads -> Seq(Frame)]
  BY <1>1
<1> QED
  BY <1>1, <1>3, <1>4, <1>5, <1>6

\* What a step may do to the counters of the pool: c objects more, d more that wait, e
\* failures more.
Counters(c, d, e) ==
  /\ pool'.sm_fAddingRequests = pool.sm_fAddingRequests /\ pool'.settings = pool.settings
  /\ pool'.sm_cRequests = pool.sm_cRequests + c
  /\ pool'.sm_cRequestsPending = pool.sm_cRequestsPending + d
  /\ wp'.faults = wp.faults - e

Waiting1(x, k) == k = "Receive" \/ (x._ExecState = "READ" /\ k # "Free")

\* The object x becomes y when its driver goes from call k to call m.
Advances(x, y, k, m) ==
  /\ (y.alive <=> x.alive) /\ (y.core <=> x.core) /\ y.io = x.io
  /\ y._cRefs = x._cRefs + Bit(m \in Inner) - Bit(k \in Inner)
                 + Bit(m \in {"Receive", "DoWork"}) - Bit(k \in {"Receive", "DoWork"})
  /\ m \in {"Kick", "Free"} => y._cRefs = 1
  /\ m = "Kick" => y._ExecState = "START"
  /\ m = "Receive" => y._ExecState = "READ"
  /\ y._ExecState = "ERROR" => m = "Loop"
  /\ y.core => y._ExecState \in {"PROCESS", "CLIENT_CERT"}
  /\ y._ExecState = "CLIENT_CERT" => y.core /\ m \in {"DoWork", "Loop"}

\* The driver of a request goes on with it.
LEMMA DriverStep ==
  ASSUME Inv, NEW t \in AllThreads, NEW r \in Req, NEW k \in Driving, NEW m \in Driving,
         Touches(t, r, CallsOf(k), CallsOf(m)), AddsStill(stack[t], stack'[t]),
         NEW d \in Int, NEW e \in Nat, Counters(0, d, e),
         pool'.sm_FreeList = pool.sm_FreeList,
         Advances(req[r], req'[r], k, m),
         d - (Bit(Waiting1(req'[r], m)) - Bit(Waiting1(req[r], k))) \in 0 .. e
  PROVE  Rest'
<1>1. TypeOK /\ ShapeInv /\ SoundInv
  BY DEF Inv
<1>2. PICK ks, to : ks = CallsOf(k) /\ to = CallsOf(m)
  OBVIOUS
<1>3. Touches(t, r, ks, to)
  BY <1>2
<1>4. /\ Holders(r) \in HolderMaps /\ Holders(r)' \in HolderMaps
      /\ Only(Holders(r), t, ks) /\ Moved(Holders(r), Holders(r)', t, to)
      /\ Sound(req[r], r \in pool.sm_FreeList, Holders(r))
      /\ req[r] \in Objects /\ req'[r] \in Objects
  BY <1>1, <1>3, TouchedObject
<1>a. PICK free \in BOOLEAN : free = (r \in pool.sm_FreeList)
  <2>1. (r \in pool.sm_FreeList) \in BOOLEAN
    OBVIOUS
  <2> QED
    BY <2>1
<1>5. PICK x \in Objects, y \in Objects, h \in HolderMaps, g \in HolderMaps :
        x = req[r] /\ y = req'[r] /\ h = Holders(r) /\ g = Holders(r)'
  BY <1>4
<1>6. Sound(x, free, h) /\ Only(h, t, CallsOf(k)) /\ Moved(h, g, t, CallsOf(m))
  BY <1>2, <1>4, <1>5, <1>a, Zenon
<1>7. Advances(x, y, k, m)
  BY <1>5
<1>8. Sound(y, free, g) /\ DrivenBy(y, g, t, m)
  BY <1>6, <1>7, DriverGoesOn, Zenon DEF Advances
<1>9. DrivenBy(x, h, t, k)
  BY <1>6, SoundDriven
<1>10. /\ Lives(x, h) /\ (Waits(x, h) <=> Waiting1(x, k))
       /\ Lives(y, g) /\ (Waits(y, g) <=> Waiting1(y, m))
  BY <1>8, <1>9, DrivenCounts DEF Waiting1
<1>11. /\ 0 = Bit(Lives(req'[r], Holders(r)')) - Bit(Lives(req[r], Holders(r)))
       /\ d - (Bit(Waits(req'[r], Holders(r)')) - Bit(Waits(req[r], Holders(r)))) \in 0 .. e
  BY <1>5, <1>10 DEF Bit
<1>12. Sound(req'[r], r \in pool'.sm_FreeList, Holders(r)')
  BY <1>5, <1>8, <1>a, Zenon
<1> QED
  BY <1>3, <1>11, <1>12, TouchedInv DEF Counters

LEMMA Observed ==
  ASSUME Inv, NEW t \in AllThreads, NEW r \in Req, NEW ks, NEW to, Touches(t, r, ks, to)
  PROVE  \E x \in Objects, y \in Objects, h \in HolderMaps, g \in HolderMaps, free \in BOOLEAN :
           /\ x = req[r] /\ y = req'[r] /\ h = Holders(r) /\ g = Holders(r)'
           /\ free = (r \in pool.sm_FreeList)
           /\ Sound(x, free, h) /\ Standing(h) /\ Only(h, t, ks) /\ Moved(h, g, t, to)
<1>1. TypeOK /\ ShapeInv /\ SoundInv
  BY DEF Inv
<1>2. /\ Holders(r) \in HolderMaps /\ Holders(r)' \in HolderMaps
      /\ Only(Holders(r), t, ks) /\ Moved(Holders(r), Holders(r)', t, to)
      /\ Standing(Holders(r))
      /\ Sound(req[r], r \in pool.sm_FreeList, Holders(r))
      /\ req[r] \in Objects /\ req'[r] \in Objects
  BY <1>1, TouchedObject
<1>3. PICK free \in BOOLEAN : free = (r \in pool.sm_FreeList)
  <2>1. (r \in pool.sm_FreeList) \in BOOLEAN
    OBVIOUS
  <2> QED
    BY <2>1
<1>4. PICK x \in Objects, y \in Objects, h \in HolderMaps, g \in HolderMaps :
        x = req[r] /\ y = req'[r] /\ h = Holders(r) /\ g = Holders(r)'
  BY <1>2
<1>5. Sound(x, free, h) /\ Standing(h) /\ Only(h, t, ks) /\ Moved(h, g, t, to)
  BY <1>2, <1>3, <1>4, Zenon
<1> QED
  BY <1>3, <1>4, <1>5, Zenon

\* The object x becomes y when its driver leaves it; own is the object's own reference.
Leaves(x, y, k, own) ==
  /\ y.alive <=> x.alive
  /\ y._cRefs = x._cRefs - 1 - Bit(x.core) - Bit(k = "Receive")
                 + own + Bit(y.io # "None") + Bit(y.core)
  /\ own = 0 => y._ExecState = "ERROR" /\ y.io = "None" /\ ~y.core
  /\ own = 1 => y._ExecState # "ERROR"
  /\ y.core => y._ExecState \in {"PROCESS", "CLIENT_CERT"}
  /\ y.io = "Call" => y.core
  /\ y.io = "Receive" => y._ExecState = "READ"
  /\ y._ExecState = "CLIENT_CERT" => y.core /\ y.io = "Call"

\* The driver hands the request over or gives it up.
LEMMA LeaveStep ==
  ASSUME Inv, NEW t \in AllThreads, NEW r \in Req, NEW k \in Inner, NEW own \in {0, 1},
         Touches(t, r, CallsOf(k), {"Deref"}), AddsStill(stack[t], stack'[t]),
         NEW d \in Int, NEW e \in Nat, Counters(0, d, e),
         pool'.sm_FreeList = pool.sm_FreeList,
         Leaves(req[r], req'[r], k, own),
         d - (Bit(req'[r].io = "Receive") - Bit(Waiting1(req[r], k))) \in 0 .. e
  PROVE  Rest'
<1>1. PICK ks, to : ks = CallsOf(k) /\ to = {"Deref"}
  OBVIOUS
<1>2. Touches(t, r, ks, to)
  BY <1>1
<1>3. PICK x \in Objects, y \in Objects, h \in HolderMaps, g \in HolderMaps, free \in BOOLEAN :
           /\ x = req[r] /\ y = req'[r] /\ h = Holders(r) /\ g = Holders(r)'
           /\ free = (r \in pool.sm_FreeList)
           /\ Sound(x, free, h) /\ Standing(h) /\ Only(h, t, ks) /\ Moved(h, g, t, to)
  BY <1>2, Observed
<1>4. Sound(x, free, h) /\ Only(h, t, CallsOf(k)) /\ Moved(h, g, t, {"Deref"})
  BY <1>1, <1>3
<1>5. Leaves(x, y, k, own)
  BY <1>3
<1>6. Sound(y, free, g) /\ Lives(y, g) /\ (Waits(y, g) <=> y.io = "Receive")
  BY <1>4, <1>5, DriverLeaves DEF Leaves
<1>7. k \in Driving
  BY DEF Driving, Inner
<1>8. DrivenBy(x, h, t, k)
  BY <1>4, <1>7, SoundDriven
<1>9. Lives(x, h) /\ (Waits(x, h) <=> Waiting1(x, k))
  BY <1>7, <1>8, DrivenCounts DEF Waiting1
<1>10. /\ 0 = Bit(Lives(req'[r], Holders(r)')) - Bit(Lives(req[r], Holders(r)))
       /\ d - (Bit(Waits(req'[r], Holders(r)')) - Bit(Waits(req[r], Holders(r)))) \in 0 .. e
  BY <1>3, <1>6, <1>9 DEF Bit
<1>11. Sound(req'[r], r \in pool'.sm_FreeList, Holders(r)')
  BY <1>3, <1>6, Zenon
<1> QED
  BY <1>2, <1>10, <1>11, TouchedInv DEF Counters

LEMMA Frames ==
  ASSUME NEW fn \in Calls, NEW r \in Req \cup {NoReq}, NEW n \in Int
  PROVE  /\ Call(fn, r) \in Frame /\ Call(fn, r).fn = fn /\ Call(fn, r).r = r /\ Call(fn, r).res = "None"
         /\ Counted(fn, n) \in Frame /\ Counted(fn, n).fn = fn /\ Counted(fn, n).r = NoReq
         /\ Counted(fn, n).n = n
BY DEF Frame, Call, Counted

LEMMA LoopFrame ==
  ASSUME NEW f \in Frame
  PROVE  \E l \in Frame : l = [f EXCEPT !.fn = "Loop"] /\ l.fn = "Loop" /\ l.r = f.r
<1>1. [f EXCEPT !.fn = "Loop"] \in Frame
  BY DEF Frame, Calls
<1>2. [f EXCEPT !.fn = "Loop"].fn = "Loop" /\ [f EXCEPT !.fn = "Loop"].r = f.r
  BY DEF Frame
<1> QED
  BY <1>1, <1>2

\* The updates of a request object.
LEMMA UpdateRefs ==
  ASSUME NEW x \in Objects, NEW n \in Nat
  PROVE  \E y \in Objects :
           /\ y = [x EXCEPT !._cRefs = n]
           /\ y.alive = x.alive /\ y._ExecState = x._ExecState /\ y._cRefs = n /\ y.io = x.io /\ y.core = x.core
<1> DEFINE z == [x EXCEPT !._cRefs = n]
<1>1. z \in Objects /\ z.alive = x.alive /\ z._ExecState = x._ExecState /\ z._cRefs = n /\ z.io = x.io /\ z.core = x.core
  BY DEF Objects
<1> QED
  BY <1>1

LEMMA UpdateState ==
  ASSUME NEW x \in Objects, NEW e \in ExecState
  PROVE  \E y \in Objects :
           /\ y = [x EXCEPT !._ExecState = e]
           /\ y.alive = x.alive /\ y._ExecState = e /\ y._cRefs = x._cRefs /\ y.io = x.io /\ y.core = x.core
<1> DEFINE z == [x EXCEPT !._ExecState = e]
<1>1. z \in Objects /\ z.alive = x.alive /\ z._ExecState = e /\ z._cRefs = x._cRefs /\ z.io = x.io /\ z.core = x.core
  BY DEF Objects
<1> QED
  BY <1>1

\* The updates of several members of a request object.
StateRefs(x, e, n) == [x EXCEPT !._ExecState = e, !._cRefs = n]
StateCore(x, e, c) == [x EXCEPT !._ExecState = e, !.core = c]
Kept(x, n) == [x EXCEPT !._ExecState = "PROCESS", !.core = TRUE, !._cRefs = n]
Called(x, e, n) == [x EXCEPT !._ExecState = e, !.core = TRUE, !.io = "Call", !._cRefs = n]
Finished(x, n) == [x EXCEPT !._ExecState = "PROCESS", !.core = FALSE, !._cRefs = n]

LEMMA UpdateStateRefs ==
  ASSUME NEW x \in Objects, NEW e \in ExecState, NEW n \in Nat
  PROVE  \E y \in Objects :
           /\ y = StateRefs(x, e, n)
           /\ y.alive = x.alive /\ y._ExecState = e /\ y._cRefs = n /\ y.io = x.io /\ y.core = x.core
<1> DEFINE z == StateRefs(x, e, n)
<1>1. z \in Objects /\ z.alive = x.alive /\ z._ExecState = e /\ z._cRefs = n /\ z.io = x.io /\ z.core = x.core
  BY DEF Objects, StateRefs
<1> QED
  BY <1>1

LEMMA UpdateIo ==
  ASSUME NEW x \in Objects, NEW i \in {"None", "Receive", "Call"}
  PROVE  \E y \in Objects :
           /\ y = [x EXCEPT !.io = i]
           /\ y.alive = x.alive /\ y._ExecState = x._ExecState /\ y._cRefs = x._cRefs /\ y.io = i /\ y.core = x.core
<1> DEFINE z == [x EXCEPT !.io = i]
<1>1. z \in Objects /\ z.alive = x.alive /\ z._ExecState = x._ExecState /\ z._cRefs = x._cRefs /\ z.io = i /\ z.core = x.core
  BY DEF Objects
<1> QED
  BY <1>1

LEMMA UpdateReset ==
  ASSUME NEW x \in Objects, NEW e \in ExecState, NEW c \in BOOLEAN
  PROVE  \E y \in Objects :
           /\ y = StateCore(x, e, c)
           /\ y.alive = x.alive /\ y._ExecState = e /\ y._cRefs = x._cRefs /\ y.io = x.io /\ y.core = c
<1> DEFINE z == StateCore(x, e, c)
<1>1. z \in Objects /\ z.alive = x.alive /\ z._ExecState = e /\ z._cRefs = x._cRefs /\ z.io = x.io /\ z.core = c
  BY DEF Objects, StateCore
<1> QED
  BY <1>1

LEMMA UpdateKept ==
  ASSUME NEW x \in Objects, NEW n \in Nat
  PROVE  \E y \in Objects :
           /\ y = Kept(x, n)
           /\ y.alive = x.alive /\ y._ExecState = "PROCESS" /\ y._cRefs = n /\ y.io = x.io /\ y.core
<1> DEFINE z == Kept(x, n)
<1>1. z \in Objects /\ z.alive = x.alive /\ z._ExecState = "PROCESS" /\ z._cRefs = n /\ z.io = x.io /\ z.core
  BY DEF Objects, ExecState, Kept
<1> QED
  BY <1>1

LEMMA UpdateCalled ==
  ASSUME NEW x \in Objects, NEW e \in ExecState, NEW n \in Nat
  PROVE  \E y \in Objects :
           /\ y = Called(x, e, n)
           /\ y.alive = x.alive /\ y._ExecState = e /\ y._cRefs = n /\ y.io = "Call" /\ y.core
<1> DEFINE z == Called(x, e, n)
<1>1. z \in Objects /\ z.alive = x.alive /\ z._ExecState = e /\ z._cRefs = n /\ z.io = "Call" /\ z.core
  BY DEF Objects, ExecState, Called
<1> QED
  BY <1>1

LEMMA UpdateFinished ==
  ASSUME NEW x \in Objects, NEW n \in Nat
  PROVE  \E y \in Objects :
           /\ y = Finished(x, n)
           /\ y.alive = x.alive /\ y._ExecState = "PROCESS" /\ y._cRefs = n /\ y.io = x.io /\ ~y.core
<1> DEFINE z == Finished(x, n)
<1>1. z \in Objects /\ z.alive = x.alive /\ z._ExecState = "PROCESS" /\ z._cRefs = n /\ z.io = x.io /\ ~z.core
  BY DEF Objects, ExecState, Finished
<1> QED
  BY <1>1

LEMMA UpdateAlive ==
  ASSUME NEW x \in Objects, NEW a \in BOOLEAN
  PROVE  \E y \in Objects :
           /\ y = [x EXCEPT !.alive = a]
           /\ y.alive = a /\ y._ExecState = x._ExecState /\ y._cRefs = x._cRefs /\ y.io = x.io /\ y.core = x.core
<1> DEFINE z == [x EXCEPT !.alive = a]
<1>1. z \in Objects /\ z.alive = a /\ z._ExecState = x._ExecState /\ z._cRefs = x._cRefs /\ z.io = x.io /\ z.core = x.core
  BY DEF Objects
<1> QED
  BY <1>1

LEMMA UpdateCoreOnly ==
  ASSUME NEW x \in Objects, NEW c \in BOOLEAN
  PROVE  \E y \in Objects :
           /\ y = [x EXCEPT !.core = c]
           /\ y.alive = x.alive /\ y._ExecState = x._ExecState /\ y._cRefs = x._cRefs /\ y.io = x.io /\ y.core = c
<1> DEFINE z == [x EXCEPT !.core = c]
<1>1. z \in Objects /\ z.alive = x.alive /\ z._ExecState = x._ExecState /\ z._cRefs = x._cRefs /\ z.io = x.io /\ z.core = c
  BY DEF Objects
<1> QED
  BY <1>1

\* A step of thread t: its calls become p, and the object r becomes y.
Writes(t, r, p, y) ==
  /\ stack' = [stack EXCEPT ![t] = p] /\ req' = [req EXCEPT ![r] = y]
  /\ \A u \in Req \ {r} : u \in pool'.sm_FreeList <=> u \in pool.sm_FreeList

LEMMA TouchesBy ==
  ASSUME TypeOK, NEW t \in AllThreads, NEW r \in Req, NEW ks, NEW to, NEW p, NEW y \in Objects,
         Writes(t, r, p, y), Rewrites(stack[t], p, r, ks, to), AddsStill(stack[t], p)
  PROVE  Touches(t, r, ks, to) /\ AddsStill(stack[t], stack'[t]) /\ req'[r] = y
<1>1. req \in [Req -> Objects] /\ stack \in [AllThreads -> Seq(Frame)]
  BY Types
<1>2. stack'[t] = p
  BY <1>1 DEF Writes
<1>3. req' \in [Req -> Objects] /\ req'[r] = y /\ \A u \in Req \ {r} : req'[u] = req[u]
  BY <1>1 DEF Writes
<1>4. Touches(t, r, ks, to)
  BY <1>2, <1>3 DEF Touches, Writes
<1> QED
  BY <1>2, <1>3, <1>4

\* A thread in a call for a request.
LEMMA TopCall ==
  ASSUME Inv, NEW t \in AllThreads, NEW fn \in Calls \ Plain, Is(t, fn)
  PROVE  \E s \in Seq(Frame), f \in Frame, r \in Req, x \in Objects :
           /\ s = stack[t] /\ s # <<>> /\ Shape(s) /\ f = Head(s) /\ f = Top(t)
           /\ f.fn = fn /\ f.r = r /\ Top(t).r = r /\ x = req[r]
<1>1. TypeOK /\ ShapeInv
  BY DEF Inv
<1>2. stack[t] # <<>> /\ Head(stack[t]).fn = fn /\ Top(t) = Head(stack[t])
  BY DEF Is, Idle, Top
<1>3. stack[t] \in Seq(Frame) /\ Shape(stack[t]) /\ req \in [Req -> Objects]
  BY <1>1, Types DEF ShapeInv
<1>4. Head(stack[t]) \in Frame /\ Sane(Head(stack[t]))
  BY <1>2, <1>3, PopFacts, ShapeTop
<1>5. Head(stack[t]).r \in Req
  BY <1>2, <1>4 DEF Sane
<1>6. req[Head(stack[t]).r] \in Objects
  BY <1>3, <1>5
<1> QED
  BY <1>2, <1>3, <1>4, <1>5, <1>6

\* A thread that drives a request.
LEMMA TopDriver ==
  ASSUME Inv, NEW t \in AllThreads, NEW s, NEW f, NEW r \in Req, NEW x, NEW k \in Driving,
         s = stack[t], s # <<>>, f = Head(s), f.r = r, x = req[r], k = Role(f)
  PROVE  /\ DrivenBy(x, Holders(r), t, k) /\ r \notin pool.sm_FreeList
         /\ x._cRefs \in Nat /\ x._cRefs >= 1 + Bit(x.core) + Bit(k \in Inner) + Bit(k \in {"Receive", "DoWork"})
<1>1. TypeOK /\ ShapeInv /\ SoundInv
  BY DEF Inv
<1>2. /\ Holders(r) \in HolderMaps /\ Only(Holders(r), t, CallsOf(k))
      /\ Sound(x, r \in pool.sm_FreeList, Holders(r)) /\ x \in Objects
  BY <1>1, TopObject
<1>3. PICK h \in HolderMaps : h = Holders(r)
  BY <1>2
<1>4. PICK free \in BOOLEAN : free = (r \in pool.sm_FreeList)
  <2>1. (r \in pool.sm_FreeList) \in BOOLEAN
    OBVIOUS
  <2> QED
    BY <2>1
<1>5. Sound(x, free, h) /\ Only(h, t, CallsOf(k))
  BY <1>2, <1>3, <1>4, Zenon
<1>6. DrivenBy(x, h, t, k) /\ ~free
  BY <1>2, <1>5, SoundDriven
<1>7. Cardinality(h["Deref"]) \in Nat /\ (Cardinality(h["Deref"]) = 0 <=> h["Deref"] = {})
  BY DerefCount
<1>8. x._cRefs = 1 + Bit(x.core) + Cardinality(h["Deref"]) + Bit(k \in {"Receive", "DoWork"})
      /\ (k \in Inner => h["Deref"] # {}) /\ x._cRefs \in Nat
  BY <1>2, <1>6 DEF DrivenBy, Inner, Objects
<1>9. x._cRefs >= 1 + Bit(x.core) + Bit(k \in Inner) + Bit(k \in {"Receive", "DoWork"})
  BY <1>7, <1>8 DEF Bit
<1> QED
  BY <1>3, <1>4, <1>6, <1>8, <1>9

LEMMA DoWorkRest ==
  ASSUME Inv, NEW t \in AllThreads, DoWork(t)
  PROVE  Rest'
<1>1. PICK s \in Seq(Frame), f \in Frame, r \in Req, x \in Objects :
        /\ s = stack[t] /\ s # <<>> /\ Shape(s) /\ f = Head(s) /\ f = Top(t)
        /\ f.fn = "DoWork" /\ f.r = r /\ Top(t).r = r /\ x = req[r]
  BY TopCall DEF DoWork, Calls, Plain
<1>2. PICK k \in {"Kick", "DoWork"} : k = Role(f) /\ (k = "Kick" <=> f.res = "None")
  BY <1>1 DEF Role
<1>3. k \in Driving /\ "Loop" \in Driving
  BY DEF Driving
<1>4. /\ DrivenBy(x, Holders(r), t, k) /\ r \notin pool.sm_FreeList
      /\ x._cRefs \in Nat
  BY <1>1, <1>2, <1>3, TopDriver
<1>5. PICK n \in Nat : n = IF f.res = "None" THEN x._cRefs + 1 ELSE x._cRefs
  BY <1>4
<1>6. PICK y \in Objects :
        /\ y = [x EXCEPT !._cRefs = n] /\ y.alive = x.alive /\ y._ExecState = x._ExecState
        /\ y._cRefs = n /\ y.io = x.io /\ y.core = x.core
  BY UpdateRefs
<1>7. PICK l \in Frame : l = [f EXCEPT !.fn = "Loop"] /\ l.fn = "Loop" /\ l.r = f.r
  BY LoopFrame
<1>a. PICK d \in Frame : d = Call("Deref", r) /\ d.fn = "Deref" /\ d.r = r
  BY Frames DEF Calls
<1>8. stack' = [stack EXCEPT ![t] = <<l, d>> \o Tail(s)]
  BY <1>1, <1>7, <1>a DEF DoWork, Continue
<1>9. f.fn \notin Inner
  BY <1>1 DEF Inner
<1>10. /\ Rewrites(s, <<l, d>> \o Tail(s), r, CallsOf(k), CallsOf("Loop"))
       /\ AddsStill(s, <<l, d>> \o Tail(s))
  BY <1>1, <1>2, <1>7, <1>9, <1>a, Enters
<1>11. pool' = pool /\ wp' = wp
  BY DEF DoWork
<1>12. Touches(t, r, CallsOf(k), CallsOf("Loop")) /\ AddsStill(stack[t], stack'[t]) /\ req'[r] = y
  <2>1. req' = [req EXCEPT ![r] = y]
    BY <1>1, <1>5, <1>6 DEF DoWork
  <2>2. Writes(t, r, <<l, d>> \o Tail(s), y)
    BY <1>8, <1>11, <2>1 DEF Writes
  <2> QED
    BY <1>1, <1>10, <2>2, TouchesBy DEF Inv
<1>13. Counters(0, 0, 0)
  BY <1>11 DEF Counters, Inv, TypeOK
<1>14. /\ (y.alive <=> x.alive) /\ (y.core <=> x.core) /\ y.io = x.io /\ y._ExecState = x._ExecState
       /\ y._cRefs = IF k = "Kick" THEN x._cRefs + 1 ELSE x._cRefs
  BY <1>2, <1>5, <1>6
<1>15. y._cRefs = x._cRefs + Bit("Loop" \in Inner) - Bit(k \in Inner)
                     + Bit("Loop" \in {"Receive", "DoWork"}) - Bit(k \in {"Receive", "DoWork"})
  BY <1>2, <1>4, <1>14 DEF Bit, Inner
<1>16. /\ x.core => x._ExecState \in {"PROCESS", "CLIENT_CERT"}
       /\ x._ExecState = "CLIENT_CERT" => x.core
       /\ x._ExecState # "ERROR"
  BY <1>4 DEF DrivenBy
<1>17. 0 - (Bit(Waiting1(y, "Loop")) - Bit(Waiting1(x, k))) \in 0 .. 0
  BY <1>14 DEF Bit, Waiting1
<1>18. Advances(x, y, k, "Loop")
  BY <1>14, <1>15, <1>16 DEF Advances
<1>19. pool'.sm_FreeList = pool.sm_FreeList
  BY <1>11
<1> QED
  BY <1>1, <1>3, <1>12, <1>13, <1>17, <1>18, <1>19, DriverStep

LEMMA InLoop ==
  ASSUME Inv, NEW t \in AllThreads, Is(t, "Loop")
  PROVE  \E s \in Seq(Frame), f \in Frame, r \in Req, x \in Objects :
           /\ s = stack[t] /\ s # <<>> /\ Shape(s) /\ f = Head(s) /\ f = Top(t)
           /\ f.fn = "Loop" /\ f.r = r /\ Top(t).r = r /\ x = req[r] /\ Role(f) = "Loop"
           /\ DrivenBy(x, Holders(r), t, "Loop") /\ r \notin pool.sm_FreeList
           /\ x._cRefs \in Nat /\ x._cRefs >= 2 + Bit(x.core)
<1>1. PICK s \in Seq(Frame), f \in Frame, r \in Req, x \in Objects :
        /\ s = stack[t] /\ s # <<>> /\ Shape(s) /\ f = Head(s) /\ f = Top(t)
        /\ f.fn = "Loop" /\ f.r = r /\ Top(t).r = r /\ x = req[r]
  BY TopCall DEF Calls, Plain
<1>2. Role(f) = "Loop" /\ "Loop" \in Driving
  BY <1>1 DEF Role, Driving
<1>3. /\ DrivenBy(x, Holders(r), t, "Loop") /\ r \notin pool.sm_FreeList
      /\ x._cRefs \in Nat
      /\ x._cRefs >= 1 + Bit(x.core) + Bit("Loop" \in Inner) + Bit("Loop" \in {"Receive", "DoWork"})
  BY <1>1, <1>2, TopDriver
<1>4. x._cRefs >= 2 + Bit(x.core)
  BY <1>3 DEF Bit, Inner
<1> QED
  BY <1>1, <1>2, <1>3, <1>4

\* A step in the loop of the state machine that leaves the calls as they are.
LEMMA StaysInLoop ==
  ASSUME Inv, NEW t \in AllThreads, NEW r \in Req, NEW y \in Objects,
         stack[t] # <<>>, Head(stack[t]).r = r, Role(Head(stack[t])) = "Loop",
         Writes(t, r, stack[t], y)
  PROVE  /\ Touches(t, r, CallsOf("Loop"), CallsOf("Loop")) /\ AddsStill(stack[t], stack'[t])
         /\ req'[r] = y
<1>1. TypeOK /\ ShapeInv
  BY DEF Inv
<1>2. stack[t] \in Seq(Frame) /\ Shape(stack[t])
  BY <1>1, Types DEF ShapeInv
<1>3. RolesIn(stack[t], r) = CallsOf("Loop")
  BY <1>2, TopRoles
<1>4. Rewrites(stack[t], stack[t], r, CallsOf("Loop"), CallsOf("Loop")) /\ AddsStill(stack[t], stack[t])
  BY <1>2, <1>3 DEF Rewrites, AddsStill
<1> QED
  BY <1>1, <1>4, TouchesBy

LEMMA StartRest ==
  ASSUME Inv, NEW t \in AllThreads, DoStateStart(t)
  PROVE  Rest'
<1>1. PICK s \in Seq(Frame), f \in Frame, r \in Req, x \in Objects :
        /\ s = stack[t] /\ s # <<>> /\ Shape(s) /\ f = Head(s) /\ f = Top(t)
        /\ f.fn = "Loop" /\ f.r = r /\ Top(t).r = r /\ x = req[r] /\ Role(f) = "Loop"
        /\ DrivenBy(x, Holders(r), t, "Loop") /\ r \notin pool.sm_FreeList
        /\ x._cRefs \in Nat /\ x._cRefs >= 2 + Bit(x.core)
  BY InLoop DEF DoStateStart, InState
<1>2. x._ExecState = "START" /\ ~x.core /\ "Loop" \in Driving /\ "Receive" \in Driving
  BY <1>1 DEF DoStateStart, InState, DrivenBy, Driving
<1>3. CASE StartRefused(t)
  <2>1. PICK y \in Objects :
          /\ y = [x EXCEPT !._ExecState = "ERROR"] /\ y.alive = x.alive /\ y._ExecState = "ERROR"
          /\ y._cRefs = x._cRefs /\ y.io = x.io /\ y.core = x.core
    BY UpdateState DEF ExecState
  <2>2. req' = [req EXCEPT ![r] = y] /\ stack' = stack /\ pool' = pool
    BY <1>1, <1>3, <2>1 DEF StartRefused
  <2>a. pool'.sm_FreeList = pool.sm_FreeList
    BY <2>2
  <2>3. wp'.faults = wp.faults
    BY <1>3 DEF StartRefused, Inv, TypeOK
  <2>4. Touches(t, r, CallsOf("Loop"), CallsOf("Loop")) /\ AddsStill(stack[t], stack'[t]) /\ req'[r] = y
    <3>1. Writes(t, r, stack[t], y)
      BY <2>2, <2>a, Types DEF Writes, Inv
    <3> QED
      BY <1>1, <3>1, StaysInLoop
  <2>5. Counters(0, 0, 0)
    BY <2>2, <2>3 DEF Counters, Inv, TypeOK
  <2>6. 0 - (Bit(Waiting1(y, "Loop")) - Bit(Waiting1(x, "Loop"))) \in 0 .. 0
    <3>1. ~Waiting1(y, "Loop") /\ ~Waiting1(x, "Loop")
      BY <1>2, <2>1 DEF Waiting1
    <3>2. Bit(Waiting1(y, "Loop")) = 0 /\ Bit(Waiting1(x, "Loop")) = 0
      BY <3>1 DEF Bit
    <3> QED
      BY <3>2
  <2>7. y._cRefs = x._cRefs + Bit("Loop" \in Inner) - Bit("Loop" \in Inner)
                   + Bit("Loop" \in {"Receive", "DoWork"}) - Bit("Loop" \in {"Receive", "DoWork"})
    BY <1>1, <2>1 DEF Bit
  <2>8. Advances(x, y, "Loop", "Loop")
    BY <1>2, <2>1, <2>7 DEF Advances
  <2> QED
    BY <1>1, <1>2, <2>4, <2>5, <2>6, <2>8, <2>a, DriverStep
<1>4. CASE StartAllowed(t)
  <2>0. PICK n \in Nat : n = x._cRefs + 1
    BY <1>1
  <2>e. PICK e \in ExecState : e = "READ"
    BY DEF ExecState
  <2>1. PICK y \in Objects :
          /\ y = StateRefs(x, e, n)
          /\ y.alive = x.alive /\ y._ExecState = e /\ y._cRefs = n /\ y.io = x.io /\ y.core = x.core
    BY UpdateStateRefs
  <2>2. PICK d \in Frame : d = Call("Receive", r) /\ d.fn = "Receive" /\ d.r = r
    BY Frames DEF Calls
  <2>3. stack' = [stack EXCEPT ![t] = Push(d, Tail(s))]
    BY <1>1, <1>4, <2>2 DEF StartAllowed, Continue, Push
  <2>4. Role(d) = "Receive" /\ d.fn \notin Plain /\ (d.fn \in Inner <=> f.fn \in Inner)
    BY <1>1, <2>2 DEF Role, Plain, Inner
  <2>5. /\ Rewrites(s, Push(d, Tail(s)), r, CallsOf("Loop"), CallsOf("Receive"))
        /\ AddsStill(s, Push(d, Tail(s)))
    BY <1>1, <2>2, <2>4, Replaces
  <2>6. req' = [req EXCEPT ![r] = y]
    BY <1>1, <1>4, <2>0, <2>1, <2>e DEF StartAllowed, StateRefs
  <2>7. /\ pool'.sm_FreeList = pool.sm_FreeList /\ wp' = wp
        /\ Counters(0, 1, 0)
    BY <1>4 DEF StartAllowed, Counters, Inv, TypeOK
  <2>8. Writes(t, r, Push(d, Tail(s)), y)
    BY <2>3, <2>6, <2>7 DEF Writes
  <2>9. Touches(t, r, CallsOf("Loop"), CallsOf("Receive")) /\ AddsStill(stack[t], stack'[t]) /\ req'[r] = y
    BY <1>1, <2>5, <2>8, TouchesBy DEF Inv
  <2>10. 1 - (Bit(Waiting1(y, "Receive")) - Bit(Waiting1(x, "Loop"))) \in 0 .. 0
    BY <1>2, <2>1, <2>e DEF Bit, Waiting1
  <2>11. y._cRefs = x._cRefs + Bit("Receive" \in Inner) - Bit("Loop" \in Inner)
                   + Bit("Receive" \in {"Receive", "DoWork"}) - Bit("Loop" \in {"Receive", "DoWork"})
    BY <1>1, <2>0, <2>1 DEF Bit, Inner
  <2>12. Advances(x, y, "Loop", "Receive")
    BY <1>2, <2>1, <2>11, <2>e DEF Advances
  <2> QED
    BY <1>1, <1>2, <2>7, <2>9, <2>10, <2>12, DriverStep
<1> QED
  BY <1>3, <1>4 DEF DoStateStart

LEMMA InReceive ==
  ASSUME Inv, NEW t \in AllThreads, Is(t, "Receive")
  PROVE  \E s \in Seq(Frame), f \in Frame, r \in Req, x \in Objects :
           /\ s = stack[t] /\ s # <<>> /\ Shape(s) /\ f = Head(s) /\ f = Top(t)
           /\ f.fn = "Receive" /\ f.r = r /\ Top(t).r = r /\ x = req[r] /\ Role(f) = "Receive"
           /\ DrivenBy(x, Holders(r), t, "Receive") /\ x._cRefs \in Nat /\ x._cRefs >= 3
           /\ x._ExecState = "READ" /\ ~x.core /\ x.io = "None"
<1>1. PICK s \in Seq(Frame), f \in Frame, r \in Req, x \in Objects :
        /\ s = stack[t] /\ s # <<>> /\ Shape(s) /\ f = Head(s) /\ f = Top(t)
        /\ f.fn = "Receive" /\ f.r = r /\ Top(t).r = r /\ x = req[r]
  BY TopCall DEF Calls, Plain
<1>2. Role(f) = "Receive" /\ "Receive" \in Driving
  BY <1>1 DEF Role, Driving
<1>3. /\ DrivenBy(x, Holders(r), t, "Receive") /\ r \notin pool.sm_FreeList
      /\ x._cRefs \in Nat
      /\ x._cRefs >= 1 + Bit(x.core) + Bit("Receive" \in Inner) + Bit("Receive" \in {"Receive", "DoWork"})
  BY <1>1, <1>2, TopDriver
<1>4. x._ExecState = "READ" /\ ~x.core /\ x.io = "None"
  BY <1>3 DEF DrivenBy
<1>5. x._cRefs >= 3
  BY <1>3, <1>4 DEF Bit, Inner
<1> QED
  BY <1>1, <1>2, <1>3, <1>4, <1>5

LEMMA ReceiveRest ==
  ASSUME Inv, NEW t \in AllThreads, Receive(t)
  PROVE  Rest'
<1>1. PICK s \in Seq(Frame), f \in Frame, r \in Req, x \in Objects :
        /\ s = stack[t] /\ s # <<>> /\ Shape(s) /\ f = Head(s) /\ f = Top(t)
        /\ f.fn = "Receive" /\ f.r = r /\ Top(t).r = r /\ x = req[r] /\ Role(f) = "Receive"
        /\ DrivenBy(x, Holders(r), t, "Receive") /\ x._cRefs \in Nat /\ x._cRefs >= 3
        /\ x._ExecState = "READ" /\ ~x.core /\ x.io = "None"
  BY InReceive DEF Receive
<1>2. "Receive" \in Driving /\ "Loop" \in Driving /\ "Receive" \in Inner /\ "Loop" \in Inner
  BY DEF Driving, Inner
<1>3. CASE ReceivePending(t)
  <2>1. PICK i \in {"None", "Receive", "Call"} : i = "Receive"
    OBVIOUS
  <2>2. PICK y \in Objects :
          /\ y = [x EXCEPT !.io = i]
          /\ y.alive = x.alive /\ y._ExecState = x._ExecState /\ y._cRefs = x._cRefs /\ y.io = i /\ y.core = x.core
    BY UpdateIo
  <2>3. req' = [req EXCEPT ![r] = y] /\ stack' = [stack EXCEPT ![t] = Tail(s)] /\ pool' = pool /\ wp' = wp
    BY <1>1, <1>3, <2>1, <2>2 DEF ReceivePending, Return
  <2>4. pool'.sm_FreeList = pool.sm_FreeList
    BY <2>3
  <2>5. Writes(t, r, Tail(s), y)
    BY <2>3, <2>4 DEF Writes
  <2>6. Rewrites(s, Tail(s), r, CallsOf("Receive"), {"Deref"}) /\ AddsStill(s, Tail(s))
    BY <1>1, <1>2, Returns
  <2>7. Touches(t, r, CallsOf("Receive"), {"Deref"}) /\ AddsStill(stack[t], stack'[t]) /\ req'[r] = y
    BY <1>1, <2>5, <2>6, TouchesBy, SMTT(30) DEF Inv
  <2>8. Counters(0, 0, 0)
    BY <2>3 DEF Counters, Inv, TypeOK
  <2>9. 0 - (Bit(y.io = "Receive") - Bit(Waiting1(x, "Receive"))) \in 0 .. 0
    <3>1. y.io = "Receive" /\ Waiting1(x, "Receive")
      BY <2>1, <2>2 DEF Waiting1
    <3>2. Bit(y.io = "Receive") = 1 /\ Bit(Waiting1(x, "Receive")) = 1
      BY <3>1 DEF Bit
    <3> QED
      BY <3>2
  <2>10. y._cRefs = x._cRefs - 1 - Bit(x.core) - Bit("Receive" = "Receive") + 1 + Bit(y.io # "None") + Bit(y.core)
    BY <1>1, <2>1, <2>2 DEF Bit
  <2>11. Leaves(x, y, "Receive", 1)
    BY <1>1, <2>1, <2>2, <2>10 DEF Leaves
  <2> QED
    BY <1>1, <1>2, <2>4, <2>7, <2>8, <2>9, <2>11, LeaveStep
<1>4. CASE ReceiveFailed(t)
  <2>1. PICK n \in Nat : n = x._cRefs - 1
    BY <1>1
  <2>2. PICK e \in ExecState : e = "ERROR"
    BY DEF ExecState
  <2>3. PICK y \in Objects :
          /\ y = StateRefs(x, e, n)
          /\ y.alive = x.alive /\ y._ExecState = e /\ y._cRefs = n /\ y.io = x.io /\ y.core = x.core
    BY UpdateStateRefs
  <2>4. PICK d \in Frame : d = Call("Loop", r) /\ d.fn = "Loop" /\ d.r = r
    BY Frames DEF Calls
  <2>5. stack' = [stack EXCEPT ![t] = Push(d, Tail(s))]
    BY <1>1, <1>4, <2>4 DEF ReceiveFailed, Continue, Push
  <2>6. Role(d) = "Loop" /\ d.fn \notin Plain /\ (d.fn \in Inner <=> f.fn \in Inner)
    BY <1>1, <2>4 DEF Role, Plain, Inner
  <2>7. /\ Rewrites(s, Push(d, Tail(s)), r, CallsOf("Receive"), CallsOf("Loop"))
        /\ AddsStill(s, Push(d, Tail(s)))
    BY <1>1, <2>4, <2>6, Replaces
  <2>8. req' = [req EXCEPT ![r] = y]
    BY <1>1, <1>4, <2>1, <2>2, <2>3 DEF ReceiveFailed, StateRefs
  <2>9. pool'.sm_FreeList = pool.sm_FreeList
    BY <1>4 DEF ReceiveFailed, Inv, TypeOK
  <2>10. PICK m \in Nat : wp'.faults = wp.faults - m
    <3>1. wp.faults \in Nat /\ wp.faults = wp.faults - 0
      BY DEF Inv, TypeOK
    <3>2. CASE wp' = wp
      BY <3>1, <3>2
    <3>3. CASE Failed
      BY <3>3 DEF Failed, Inv, TypeOK
    <3> QED
      BY <1>4, <3>2, <3>3 DEF ReceiveFailed
  <2>11. Counters(0, -1, m)
    BY <1>4, <2>10 DEF ReceiveFailed, Counters, Inv, TypeOK
  <2>12. Writes(t, r, Push(d, Tail(s)), y)
    BY <2>5, <2>8, <2>9 DEF Writes
  <2>13. Touches(t, r, CallsOf("Receive"), CallsOf("Loop")) /\ AddsStill(stack[t], stack'[t]) /\ req'[r] = y
    BY <1>1, <2>7, <2>12, TouchesBy DEF Inv
  <2>14. -1 - (Bit(Waiting1(y, "Loop")) - Bit(Waiting1(x, "Receive"))) \in 0 .. m
    <3>1. ~Waiting1(y, "Loop") /\ Waiting1(x, "Receive")
      BY <2>2, <2>3 DEF Waiting1
    <3>2. Bit(Waiting1(y, "Loop")) = 0 /\ Bit(Waiting1(x, "Receive")) = 1
      BY <3>1 DEF Bit
    <3> QED
      BY <3>2
  <2>15. y._cRefs = x._cRefs + Bit("Loop" \in Inner) - Bit("Receive" \in Inner)
                   + Bit("Loop" \in {"Receive", "DoWork"}) - Bit("Receive" \in {"Receive", "DoWork"})
    BY <1>1, <2>1, <2>3 DEF Bit, Inner
  <2>16. Advances(x, y, "Receive", "Loop")
    BY <1>1, <2>2, <2>3, <2>15 DEF Advances
  <2> QED
    BY <1>1, <1>2, <2>9, <2>11, <2>13, <2>14, <2>16, DriverStep
<1> QED
  BY <1>3, <1>4 DEF Receive

\* In the state that is given to a thread the loop takes a step and goes on.
LEMMA LoopGoesOn ==
  ASSUME Inv, NEW t \in AllThreads, NEW r \in Req, NEW x \in Objects, NEW y \in Objects,
         x = req[r], x._cRefs \in Nat, y._cRefs = x._cRefs, y.alive = x.alive, y.io = x.io,
         y.core = x.core, ~x.core, y._ExecState # "CLIENT_CERT",
         Touches(t, r, CallsOf("Loop"), CallsOf("Loop")), AddsStill(stack[t], stack'[t]), req'[r] = y,
         NEW d \in Int, NEW e \in Nat, Counters(0, d, e), pool'.sm_FreeList = pool.sm_FreeList,
         d - (Bit(y._ExecState = "READ") - Bit(x._ExecState = "READ")) \in 0 .. e
  PROVE  Rest'
<1>1. "Loop" \in Driving
  BY DEF Driving
<1>2. y._cRefs = x._cRefs + Bit("Loop" \in Inner) - Bit("Loop" \in Inner)
                   + Bit("Loop" \in {"Receive", "DoWork"}) - Bit("Loop" \in {"Receive", "DoWork"})
  BY DEF Bit
<1>3. Advances(x, y, "Loop", "Loop")
  BY <1>2 DEF Advances
<1>4. (Waiting1(y, "Loop") <=> y._ExecState = "READ") /\ (Waiting1(x, "Loop") <=> x._ExecState = "READ")
  BY DEF Waiting1
<1>5. Bit(Waiting1(y, "Loop")) = Bit(y._ExecState = "READ") /\ Bit(Waiting1(x, "Loop")) = Bit(x._ExecState = "READ")
  BY <1>4 DEF Bit
<1>6. d - (Bit(Waiting1(y, "Loop")) - Bit(Waiting1(x, "Loop"))) \in 0 .. e
  BY <1>5
<1> QED
  BY <1>1, <1>3, <1>6, DriverStep

LEMMA ReadRest ==
  ASSUME Inv, NEW t \in AllThreads, DoStateRead(t)
  PROVE  Rest'
<1>1. PICK s \in Seq(Frame), f \in Frame, r \in Req, x \in Objects :
        /\ s = stack[t] /\ s # <<>> /\ Shape(s) /\ f = Head(s) /\ f = Top(t)
        /\ f.fn = "Loop" /\ f.r = r /\ Top(t).r = r /\ x = req[r] /\ Role(f) = "Loop"
        /\ DrivenBy(x, Holders(r), t, "Loop") /\ r \notin pool.sm_FreeList
        /\ x._cRefs \in Nat /\ x._cRefs >= 2 + Bit(x.core)
  BY InLoop DEF DoStateRead, InState
<1>2. x._ExecState = "READ" /\ ~x.core
  BY <1>1 DEF DoStateRead, InState, DrivenBy
<1>3. CASE ReadDone(t)
  <2>1. PICK e \in ExecState : e = "PROCESS"
    BY DEF ExecState
  <2>2. PICK y \in Objects :
          /\ y = [x EXCEPT !._ExecState = e] /\ y.alive = x.alive /\ y._ExecState = e
          /\ y._cRefs = x._cRefs /\ y.io = x.io /\ y.core = x.core
    BY UpdateState
  <2>3. req' = [req EXCEPT ![r] = y] /\ wp' = wp
    BY <1>1, <1>3, <2>1, <2>2 DEF ReadDone
  <2>4. pool'.sm_FreeList = pool.sm_FreeList /\ Counters(0, -1, 0)
    BY <1>3, <2>3 DEF ReadDone, Counters, Inv, TypeOK
  <2>5. Touches(t, r, CallsOf("Loop"), CallsOf("Loop")) /\ AddsStill(stack[t], stack'[t]) /\ req'[r] = y
    <3>1. CASE stack' = stack
      <4>1. Writes(t, r, stack[t], y)
        BY <2>3, <2>4, <3>1, Types DEF Writes, Inv
      <4> QED
        BY <1>1, <4>1, StaysInLoop
    <3>2. CASE stack' # stack
      <4>1. PICK n \in Int : n = pool.settings.desired - (pool.sm_cRequestsPending - 1)
        <5>1. pool.settings \in Settings /\ pool.sm_cRequestsPending \in Nat
          BY DEF Inv, TypeOK
        <5>2. pool.settings.desired \in Nat
          BY <5>1, SettingsAssumption DEF Setting
        <5> QED
          BY <5>1, <5>2
      <4>2. PICK a \in Frame : a = Counted("AddPending", n) /\ a.fn = "AddPending" /\ a.r = NoReq
        BY Frames DEF Calls
      <4>3. stack' = [stack EXCEPT ![t] = <<a, f>> \o Tail(s)]
        BY <1>1, <1>3, <3>2, <4>1, <4>2 DEF ReadDone, Continue
      <4>4. /\ Rewrites(s, <<a, f>> \o Tail(s), r, CallsOf("Loop"), CallsOf("Loop"))
            /\ AddsStill(s, <<a, f>> \o Tail(s))
        BY <1>1, <4>2, AsksForMore
      <4>5. Writes(t, r, <<a, f>> \o Tail(s), y)
        BY <2>3, <2>4, <4>3 DEF Writes
      <4> QED
        BY <1>1, <4>4, <4>5, TouchesBy DEF Inv
    <3> QED
      BY <3>1, <3>2
  <2>6. -1 - (Bit(y._ExecState = "READ") - Bit(x._ExecState = "READ")) \in 0 .. 0
    <3>1. Bit(y._ExecState = "READ") = 0 /\ Bit(x._ExecState = "READ") = 1
      BY <1>2, <2>1, <2>2 DEF Bit
    <3> QED
      BY <3>1
  <2>7. y._ExecState # "CLIENT_CERT"
    BY <2>1, <2>2
  <2>8. y.core = x.core /\ y.alive = x.alive /\ y._cRefs = x._cRefs /\ y.io = x.io
    BY <2>2
  <2> QED
    BY <1>1, <1>2, <2>4, <2>5, <2>6, <2>7, <2>8, LoopGoesOn
<1>4. CASE ReadFailed(t)
  <2>1. PICK e \in ExecState, c \in BOOLEAN : e = "START" /\ c = FALSE
    BY DEF ExecState
  <2>2. PICK y \in Objects :
          /\ y = StateCore(x, e, c)
          /\ y.alive = x.alive /\ y._ExecState = e /\ y._cRefs = x._cRefs /\ y.io = x.io /\ y.core = c
    BY UpdateReset
  <2>3. req' = [req EXCEPT ![r] = y] /\ wp' = wp /\ stack' = stack
    BY <1>1, <1>4, <2>1, <2>2 DEF ReadFailed, Reset, StateCore
  <2>4. pool'.sm_FreeList = pool.sm_FreeList /\ Counters(0, -1, 0)
    BY <1>4, <2>3 DEF ReadFailed, Counters, Inv, TypeOK
  <2>5. Touches(t, r, CallsOf("Loop"), CallsOf("Loop")) /\ AddsStill(stack[t], stack'[t]) /\ req'[r] = y
    <3>1. Writes(t, r, stack[t], y)
      BY <2>3, <2>4, Types DEF Writes, Inv
    <3> QED
      BY <1>1, <3>1, StaysInLoop
  <2>6. -1 - (Bit(y._ExecState = "READ") - Bit(x._ExecState = "READ")) \in 0 .. 0
    <3>1. Bit(y._ExecState = "READ") = 0 /\ Bit(x._ExecState = "READ") = 1
      BY <1>2, <2>1, <2>2 DEF Bit
    <3> QED
      BY <3>1
  <2>7. y._ExecState # "CLIENT_CERT"
    BY <2>1, <2>2
  <2>8. y.core = x.core
    BY <1>2, <2>1, <2>2 DEF Objects
  <2> QED
    BY <1>1, <1>2, <2>2, <2>4, <2>5, <2>6, <2>7, <2>8, LoopGoesOn
<1>5. CASE NoBuffer(t)
  <2>1. PICK e \in ExecState : e = "ERROR"
    BY DEF ExecState
  <2>2. PICK y \in Objects :
          /\ y = [x EXCEPT !._ExecState = e] /\ y.alive = x.alive /\ y._ExecState = e
          /\ y._cRefs = x._cRefs /\ y.io = x.io /\ y.core = x.core
    BY UpdateState
  <2>3. req' = [req EXCEPT ![r] = y] /\ pool' = pool /\ stack' = stack
    BY <1>1, <1>5, <2>1, <2>2 DEF NoBuffer
  <2>4. pool'.sm_FreeList = pool.sm_FreeList
    BY <2>3
  <2>5. Counters(0, 0, 1)
    BY <1>5, <2>3 DEF NoBuffer, Failed, Counters, Inv, TypeOK
  <2>6. Touches(t, r, CallsOf("Loop"), CallsOf("Loop")) /\ AddsStill(stack[t], stack'[t]) /\ req'[r] = y
    <3>1. Writes(t, r, stack[t], y)
      BY <2>3, <2>4, Types DEF Writes, Inv
    <3> QED
      BY <1>1, <3>1, StaysInLoop
  <2>7. 0 - (Bit(y._ExecState = "READ") - Bit(x._ExecState = "READ")) \in 0 .. 1
    <3>1. Bit(y._ExecState = "READ") = 0 /\ Bit(x._ExecState = "READ") = 1
      BY <1>2, <2>1, <2>2 DEF Bit
    <3> QED
      BY <3>1
  <2>8. y._ExecState # "CLIENT_CERT"
    BY <2>1, <2>2
  <2>9. y.core = x.core /\ y.alive = x.alive /\ y._cRefs = x._cRefs /\ y.io = x.io
    BY <2>2
  <2> QED
    BY <1>1, <1>2, <2>4, <2>5, <2>6, <2>7, <2>8, <2>9, LoopGoesOn
<1> QED
  BY <1>3, <1>4, <1>5 DEF DoStateRead

\* The loop ends for now: the driver leaves y to others.
LEMMA LoopLeaves ==
  ASSUME Inv, NEW t \in AllThreads, NEW s \in Seq(Frame), NEW r \in Req,
         NEW x \in Objects, NEW y \in Objects, NEW own \in {0, 1},
         s = stack[t], s # <<>>, Shape(s), Head(s).r = r, Head(s).fn = "Loop",
         x = req[r], x._ExecState # "READ", y.io # "Receive",
         req' = [req EXCEPT ![r] = y], stack' = [stack EXCEPT ![t] = Tail(s)],
         pool' = pool, wp'.faults = wp.faults,
         Leaves(x, y, "Loop", own)
  PROVE  Rest'
<1>1. Role(Head(s)) = "Loop" /\ "Loop" \in Inner
  BY DEF Role, Inner
<1>2. pool'.sm_FreeList = pool.sm_FreeList
  OBVIOUS
<1>3. Writes(t, r, Tail(s), y)
  BY <1>2 DEF Writes
<1>4. Rewrites(s, Tail(s), r, CallsOf("Loop"), {"Deref"}) /\ AddsStill(s, Tail(s))
  BY <1>1, Returns
<1>5. Touches(t, r, CallsOf("Loop"), {"Deref"}) /\ AddsStill(stack[t], stack'[t]) /\ req'[r] = y
  BY <1>3, <1>4, TouchesBy DEF Inv
<1>6. Counters(0, 0, 0)
  BY DEF Counters, Inv, TypeOK
<1>7. 0 - (Bit(y.io = "Receive") - Bit(Waiting1(x, "Loop"))) \in 0 .. 0
  <2>1. ~Waiting1(x, "Loop")
    BY DEF Waiting1
  <2>2. Bit(y.io = "Receive") = 0 /\ Bit(Waiting1(x, "Loop")) = 0
    BY <2>1 DEF Bit
  <2> QED
    BY <2>2
<1>8. Leaves(req[r], req'[r], "Loop", own)
  BY <1>5
<1>9. 0 - (Bit(req'[r].io = "Receive") - Bit(Waiting1(req[r], "Loop"))) \in 0 .. 0
  BY <1>5, <1>7
<1>10. Touches(t, r, CallsOf("Loop"), {"Deref"}) /\ AddsStill(stack[t], stack'[t])
  BY <1>5
<1>11. 0 \in Int /\ 0 \in Nat
  OBVIOUS
<1> QED
  BY <1>1, <1>2, <1>6, <1>8, <1>9, <1>10, <1>11, LeaveStep, Zenon

\* The core is called with the request.
LEMMA CoreStep ==
  ASSUME Inv, NEW t \in AllThreads, NEW s \in Seq(Frame), NEW r \in Req,
         NEW x \in Objects, NEW refs,
         s = stack[t], s # <<>>, Shape(s), Head(s).r = r, Head(s).fn = "Loop",
         x = req[r], x._ExecState \in {"PROCESS", "CLIENT_CERT"}, x.io = "None",
         x._cRefs \in Nat, x._cRefs >= 2 + Bit(x.core),
         refs = IF x.core THEN 0 ELSE 1, CoreCalled(r, refs),
         Return(t), pool' = pool, wp'.faults = wp.faults
  PROVE  Rest'
<1>1. stack' = [stack EXCEPT ![t] = Tail(s)]
  BY DEF Return
<1>2. x._ExecState # "READ" /\ refs \in {0, 1} /\ Bit(x.core) = 1 - refs
  BY DEF Bit
<1>3. CASE CoreKeeps(r, refs)
  <2>1. PICK n \in Nat : n = x._cRefs + refs
    BY <1>2
  <2>2. PICK y \in Objects :
           /\ y = Kept(x, n)
           /\ y.alive = x.alive /\ y._ExecState = "PROCESS" /\ y._cRefs = n /\ y.io = x.io /\ y.core
    BY UpdateKept
  <2>3. req' = [req EXCEPT ![r] = y]
    BY <1>3, <2>1, <2>2 DEF CoreKeeps, Kept
  <2>4. Bit(y.io # "None") = 0 /\ Bit(y.core) = 1 /\ Bit("Loop" = "Receive") = 0
    BY <2>2 DEF Bit
  <2>5. y._cRefs = x._cRefs - 1 - Bit(x.core) - Bit("Loop" = "Receive") + 1 + Bit(y.io # "None") + Bit(y.core)
    <3>1. y._cRefs = n
      BY <2>2
    <3> QED
      BY <1>2, <2>1, <2>4, <3>1
  <2>6. Leaves(x, y, "Loop", 1) /\ y.io # "Receive"
    <3>1. y.alive <=> x.alive
      BY <2>2
    <3>2. y._ExecState \in {"PROCESS", "CLIENT_CERT"} /\ y.io # "Receive"
      BY <2>2
    <3>3. (y.io = "Call" => y.core) /\ (y._ExecState = "CLIENT_CERT" => y.core /\ y.io = "Call")
      BY <2>2
    <3> QED
      BY <2>5, <3>1, <3>2, <3>3 DEF Leaves
  <2> QED
    BY <1>1, <1>2, <2>3, <2>6, LoopLeaves
<1>4. CASE CoreCalls(r, refs)
  <2>1. PICK n \in Nat : n = x._cRefs + refs + 1
    BY <1>2
  <2>a. PICK e \in ExecState :
          /\ e \in {"PROCESS", "CLIENT_CERT"}
          /\ req' = [req EXCEPT ![r]._ExecState = e, ![r].core = TRUE,
                                ![r].io = "Call", ![r]._cRefs = @ + refs + 1]
    BY <1>4 DEF CoreCalls, ExecState
  <2>2. PICK y \in Objects :
           /\ y = Called(x, e, n)
           /\ y.alive = x.alive /\ y._ExecState = e /\ y._cRefs = n /\ y.io = "Call" /\ y.core
    BY UpdateCalled
  <2>3. req' = [req EXCEPT ![r] = y]
    BY <2>1, <2>2, <2>a DEF Called
  <2>4. Bit(y.io # "None") = 1 /\ Bit(y.core) = 1 /\ Bit("Loop" = "Receive") = 0
    BY <2>2 DEF Bit
  <2>5. y._cRefs = x._cRefs - 1 - Bit(x.core) - Bit("Loop" = "Receive") + 1 + Bit(y.io # "None") + Bit(y.core)
    <3>1. y._cRefs = n
      BY <2>2
    <3> QED
      BY <1>2, <2>1, <2>4, <3>1
  <2>6. Leaves(x, y, "Loop", 1) /\ y.io # "Receive"
    <3>1. y.alive <=> x.alive
      BY <2>2
    <3>2. y._ExecState \in {"PROCESS", "CLIENT_CERT"} /\ y.io # "Receive"
      BY <2>2, <2>a
    <3>3. (y.io = "Call" => y.core) /\ (y._ExecState = "CLIENT_CERT" => y.core /\ y.io = "Call")
      BY <2>2
    <3> QED
      BY <2>5, <3>1, <3>2, <3>3 DEF Leaves
  <2> QED
    BY <1>1, <1>2, <2>3, <2>6, LoopLeaves
<1>5. CASE CoreFinishes(r, refs)
  <2>1. PICK n \in Nat : n = x._cRefs + refs - 1
    BY <1>2
  <2>2. PICK y \in Objects :
           /\ y = Finished(x, n)
           /\ y.alive = x.alive /\ y._ExecState = "PROCESS" /\ y._cRefs = n /\ y.io = x.io /\ ~y.core
    BY UpdateFinished, ZenonT(30)
  <2>3. req' = [req EXCEPT ![r] = y]
    BY <1>5, <2>1, <2>2 DEF CoreFinishes, Finished
  <2>4. Bit(y.io # "None") = 0 /\ Bit(y.core) = 0 /\ Bit("Loop" = "Receive") = 0
    BY <2>2 DEF Bit
  <2>5. y._cRefs = x._cRefs - 1 - Bit(x.core) - Bit("Loop" = "Receive") + 1 + Bit(y.io # "None") + Bit(y.core)
    <3>1. y._cRefs = n
      BY <2>2
    <3> QED
      BY <1>2, <2>1, <2>4, <3>1
  <2>6. Leaves(x, y, "Loop", 1) /\ y.io # "Receive"
    <3>1. y.alive <=> x.alive
      BY <2>2
    <3>2. y._ExecState \in {"PROCESS", "CLIENT_CERT"} /\ y.io # "Receive"
      BY <2>2
    <3>3. (y.io = "Call" => y.core) /\ (y._ExecState = "CLIENT_CERT" => y.core /\ y.io = "Call")
      BY <2>2
    <3> QED
      BY <2>5, <3>1, <3>2, <3>3 DEF Leaves
  <2> QED
    BY <1>1, <1>2, <2>3, <2>6, LoopLeaves
<1> QED
  BY <1>3, <1>4, <1>5 DEF CoreCalled

LEMMA ProcessRest ==
  ASSUME Inv, NEW t \in AllThreads, DoStateProcess(t) \/ DoStateClientCertificate(t)
  PROVE  Rest'
<1>1. PICK s \in Seq(Frame), f \in Frame, r \in Req, x \in Objects :
        /\ s = stack[t] /\ s # <<>> /\ Shape(s) /\ f = Head(s) /\ f = Top(t)
        /\ f.fn = "Loop" /\ f.r = r /\ Top(t).r = r /\ x = req[r] /\ Role(f) = "Loop"
        /\ DrivenBy(x, Holders(r), t, "Loop") /\ r \notin pool.sm_FreeList
        /\ x._cRefs \in Nat /\ x._cRefs >= 2 + Bit(x.core)
  BY InLoop DEF DoStateProcess, DoStateClientCertificate, InState
<1>2. x.io = "None" /\ (x._ExecState = "CLIENT_CERT" => x.core)
  BY <1>1 DEF DrivenBy
<1>3. PICK refs : refs = IF x.core THEN 0 ELSE 1
  OBVIOUS
<1>4. pool' = pool /\ Return(t)
  BY DEF DoStateProcess, DoStateClientCertificate
<1>5. x._ExecState \in {"PROCESS", "CLIENT_CERT"} /\ CoreCalled(r, refs) /\ wp'.faults = wp.faults
  <2>1. CASE DoStateProcess(t)
    BY <1>1, <1>3, <2>1 DEF DoStateProcess, InState, Inv, TypeOK
  <2>2. CASE DoStateClientCertificate(t)
    BY <1>1, <1>2, <1>3, <2>2 DEF DoStateClientCertificate, InState
  <2> QED
    BY <2>1, <2>2
<1> QED
  BY <1>1, <1>2, <1>3, <1>4, <1>5, CoreStep

LEMMA ErrorRest ==
  ASSUME Inv, NEW t \in AllThreads, DoStateError(t)
  PROVE  Rest'
<1>1. PICK s \in Seq(Frame), f \in Frame, r \in Req, x \in Objects :
        /\ s = stack[t] /\ s # <<>> /\ Shape(s) /\ f = Head(s) /\ f = Top(t)
        /\ f.fn = "Loop" /\ f.r = r /\ Top(t).r = r /\ x = req[r] /\ Role(f) = "Loop"
        /\ DrivenBy(x, Holders(r), t, "Loop") /\ r \notin pool.sm_FreeList
        /\ x._cRefs \in Nat /\ x._cRefs >= 2 + Bit(x.core)
  BY InLoop DEF DoStateError, InState
<1>2. x.io = "None" /\ ~x.core /\ x._ExecState = "ERROR"
  BY <1>1 DEF DoStateError, InState, DrivenBy
<1>3. PICK n \in Nat : n = x._cRefs - 1
  BY <1>1 DEF Bit
<1>4. PICK y \in Objects :
        /\ y = [x EXCEPT !._cRefs = n] /\ y.alive = x.alive /\ y._ExecState = x._ExecState
        /\ y._cRefs = n /\ y.io = x.io /\ y.core = x.core
  BY UpdateRefs
<1>5. /\ req' = [req EXCEPT ![r] = y] /\ stack' = [stack EXCEPT ![t] = Tail(s)]
      /\ pool' = pool /\ wp'.faults = wp.faults
  BY <1>1, <1>3, <1>4 DEF DoStateError, Return
<1>6. Bit(y.io # "None") = 0 /\ Bit(y.core) = 0 /\ Bit("Loop" = "Receive") = 0 /\ Bit(x.core) = 0
  BY <1>2, <1>4 DEF Bit
<1>7. y._cRefs = x._cRefs - 1 - Bit(x.core) - Bit("Loop" = "Receive") + 0 + Bit(y.io # "None") + Bit(y.core)
  BY <1>1, <1>3, <1>4, <1>6
<1>8. Leaves(x, y, "Loop", 0) /\ x._ExecState # "READ" /\ y.io # "Receive"
  BY <1>2, <1>4, <1>7 DEF Leaves
<1> QED
  BY <1>1, <1>5, <1>8, LoopLeaves

\* Request r is x and h before a step, y and g after it.
Becomes(r, x, h, y, g) == x = req[r] /\ y = req'[r] /\ h = Holders(r) /\ g = Holders(r)'

\* A step on request r, seen from the pool.
LEMMA Settles ==
  ASSUME Inv, NEW t \in AllThreads, NEW r \in Req, NEW ks, NEW to, Touches(t, r, ks, to),
         AddsStill(stack[t], stack'[t]),
         NEW c \in Int, NEW d \in Int, NEW e \in Nat, Counters(c, d, e),
         NEW x, NEW h, NEW y, NEW g, Becomes(r, x, h, y, g),
         NEW free, free = (r \in pool'.sm_FreeList), Sound(y, free, g),
         c = Bit(Lives(y, g)) - Bit(Lives(x, h)),
         d - (Bit(Waits(y, g)) - Bit(Waits(x, h))) \in 0 .. e
  PROVE  Rest'
<1>1. /\ c = Bit(Lives(req'[r], Holders(r)')) - Bit(Lives(req[r], Holders(r)))
      /\ d - (Bit(Waits(req'[r], Holders(r)')) - Bit(Waits(req[r], Holders(r)))) \in 0 .. e
  BY DEF Becomes
<1>2. Sound(req'[r], r \in pool'.sm_FreeList, Holders(r)')
  BY Zenon DEF Becomes
<1> QED
  BY <1>1, <1>2, TouchedInv DEF Counters

\* One that no counter tells.
LEMMA SettlesUnseen ==
  ASSUME Inv, NEW t \in AllThreads, NEW r \in Req, NEW ks, NEW to, Touches(t, r, ks, to),
         AddsStill(stack[t], stack'[t]), Counters(0, 0, 0),
         NEW x, NEW h, NEW y, NEW g, Becomes(r, x, h, y, g),
         NEW free, free = (r \in pool'.sm_FreeList), Sound(y, free, g),
         Lives(y, g) <=> Lives(x, h), Waits(y, g) <=> Waits(x, h)
  PROVE  Rest'
<1>1. Bit(Lives(y, g)) = Bit(Lives(x, h)) /\ Bit(Waits(y, g)) = Bit(Waits(x, h))
  BY DEF Bit
<1>2. Bit(Lives(x, h)) \in Int /\ Bit(Waits(x, h)) \in Int
  BY DEF Bit
<1>3. /\ 0 = Bit(Lives(y, g)) - Bit(Lives(x, h))
      /\ 0 - (Bit(Waits(y, g)) - Bit(Waits(x, h))) \in 0 .. 0
  BY <1>1, <1>2
<1>4. 0 \in Int /\ 0 \in Nat
  OBVIOUS
<1> QED
  BY <1>3, <1>4, Settles, Zenon

LEMMA SeenBy ==
  ASSUME Inv, NEW t \in AllThreads, NEW r \in Req, NEW ks, NEW to, Touches(t, r, ks, to)
  PROVE  \E x \in Objects, y \in Objects, h \in HolderMaps, g \in HolderMaps, free \in BOOLEAN :
           /\ Becomes(r, x, h, y, g) /\ free = (r \in pool.sm_FreeList)
           /\ Sound(x, free, h) /\ Standing(h) /\ Only(h, t, ks) /\ Moved(h, g, t, to)
<1>1. PICK x \in Objects, y \in Objects, h \in HolderMaps, g \in HolderMaps, free \in BOOLEAN :
           /\ x = req[r] /\ y = req'[r] /\ h = Holders(r) /\ g = Holders(r)'
           /\ free = (r \in pool.sm_FreeList)
           /\ Sound(x, free, h) /\ Standing(h) /\ Only(h, t, ks) /\ Moved(h, g, t, to)
  BY Observed
<1>2. Becomes(r, x, h, y, g)
  BY <1>1 DEF Becomes
<1> QED
  BY <1>1, <1>2, Zenon

\* x becomes y when a reference is dropped.
Drops(x, y, to) ==
  /\ to \in SUBSET {"Check", "Delete"}
  /\ "Delete" \in to <=> y._cRefs = 0
  /\ "Check" \in to <=> y._cRefs = 1
  /\ y.alive <=> x.alive
  /\ y.core <=> x.core
  /\ y.io = x.io /\ y._ExecState = x._ExecState /\ y._cRefs = x._cRefs - 1

LEMMA DropsSound ==
  ASSUME NEW x \in Objects, NEW y \in Objects, NEW free \in BOOLEAN,
         NEW h \in HolderMaps, NEW g \in HolderMaps, NEW t \in AllThreads, NEW to,
         Drops(x, y, to),
         Sound(x, free, h), Standing(h), Only(h, t, {"Deref"}), Moved(h, g, t, to)
  PROVE  /\ Sound(y, free, g)
         /\ Lives(y, g) <=> Lives(x, h)
         /\ Waits(y, g) <=> Waits(x, h)
BY DerefSound DEF Drops

LEMMA DerefRest ==
  ASSUME Inv, NEW t \in AllThreads, DereferenceWorkerRequest(t)
  PROVE  Rest'
<1>1. PICK s \in Seq(Frame), f \in Frame, r \in Req, x \in Objects :
        /\ s = stack[t] /\ s # <<>> /\ Shape(s) /\ f = Head(s) /\ f = Top(t)
        /\ f.fn = "Deref" /\ f.r = r /\ Top(t).r = r /\ x = req[r]
  BY TopCall DEF DereferenceWorkerRequest, Calls, Plain
<1>2. Role(f) = "Deref" /\ CallsOf("Deref") = {"Deref"} /\ f.fn \notin Inner
  BY <1>1 DEF Role, CallsOf, Inner
<1>3. x._cRefs >= 1 /\ x._cRefs \in Nat
  <2>1. TypeOK /\ ShapeInv /\ SoundInv
    BY DEF Inv
  <2>2. /\ Holders(r) \in HolderMaps /\ Only(Holders(r), t, {"Deref"})
        /\ Sound(x, r \in pool.sm_FreeList, Holders(r))
    BY <1>1, <1>2, <2>1, TopObject
  <2>3. PICK h \in HolderMaps : h = Holders(r)
    BY <2>2
  <2>4. Own(x, h) \in {0, 1} /\ t \in h["Deref"]
    BY <2>2, <2>3 DEF Sound, Only, Roles, Calls
  <2>5. Cardinality(h["Deref"]) \in Nat /\ Cardinality(h["Deref"]) # 0
    BY <2>4, DerefCount
  <2>6. Held(x, h) \in Nat /\ Held(x, h) >= 1
    BY <2>5 DEF Held, Bit
  <2> QED
    BY <2>4, <2>6 DEF Own, Objects
<1>4. PICK n \in Nat : n = x._cRefs - 1
  BY <1>3
<1>5. PICK y \in Objects :
        /\ y = [x EXCEPT !._cRefs = n] /\ y.alive = x.alive /\ y._ExecState = x._ExecState
        /\ y._cRefs = n /\ y.io = x.io /\ y.core = x.core
  BY UpdateRefs
<1>6. req' = [req EXCEPT ![r] = y] /\ pool' = pool /\ wp' = wp
  BY <1>1, <1>4, <1>5 DEF DereferenceWorkerRequest
<1>7. pool'.sm_FreeList = pool.sm_FreeList
  BY <1>6
<1>8. PICK to, p :
        /\ to \in SUBSET {"Check", "Delete"}
        /\ "Delete" \in to <=> n = 0
        /\ "Check" \in to <=> n = 1
        /\ Rewrites(s, p, r, {"Deref"}, to) /\ AddsStill(s, p)
        /\ stack' = [stack EXCEPT ![t] = p]
  <2>1. CASE n \in {0, 1}
    <3>1. PICK fn \in {"Delete", "Check"} : fn = IF n = 0 THEN "Delete" ELSE "Check"
      OBVIOUS
    <3>2. PICK d \in Frame : d = Call(fn, r) /\ d.fn = fn /\ d.r = r
      BY Frames DEF Calls
    <3>3. stack' = [stack EXCEPT ![t] = Push(d, Tail(s))]
      BY <1>1, <1>4, <2>1, <3>1, <3>2 DEF DereferenceWorkerRequest, Continue, Push
    <3>4. Role(d) = fn /\ CallsOf(fn) = {fn} /\ d.fn \notin Plain /\ (d.fn \in Inner <=> f.fn \in Inner)
      BY <1>2, <3>2 DEF Role, Plain, Inner, CallsOf
    <3>5. Rewrites(s, Push(d, Tail(s)), r, {"Deref"}, {fn}) /\ AddsStill(s, Push(d, Tail(s)))
      BY <1>1, <1>2, <3>2, <3>4, Replaces
    <3>6. ("Delete" \in {fn} <=> n = 0) /\ ("Check" \in {fn} <=> n = 1) /\ {fn} \in SUBSET {"Check", "Delete"}
      BY <2>1, <3>1
    <3> QED
      BY <3>3, <3>5, <3>6
  <2>2. CASE n \notin {0, 1}
    <3>1. stack' = [stack EXCEPT ![t] = Tail(s)]
      BY <1>1, <1>4, <2>2 DEF DereferenceWorkerRequest, Return
    <3>2. PICK to : to = {}
      OBVIOUS
    <3>3. PICK p : p = Tail(s)
      OBVIOUS
    <3>4. Rewrites(s, p, r, {"Deref"}, to) /\ AddsStill(s, p)
      BY <1>1, <1>2, <3>2, <3>3, Returns
    <3>5. /\ to \in SUBSET {"Check", "Delete"}
          /\ "Delete" \in to <=> n = 0
          /\ "Check" \in to <=> n = 1
      BY <2>2, <3>2
    <3>6. stack' = [stack EXCEPT ![t] = p]
      BY <3>1, <3>3
    <3> QED
      BY <3>4, <3>5, <3>6
  <2> QED
    BY <2>1, <2>2
<1>9. Writes(t, r, p, y)
  BY <1>6, <1>7, <1>8 DEF Writes
<1>10. PICK ks : ks = {"Deref"}
  OBVIOUS
<1>11. Touches(t, r, ks, to) /\ AddsStill(stack[t], stack'[t]) /\ req'[r] = y
  BY <1>1, <1>8, <1>9, <1>10, TouchesBy DEF Inv
<1>12. PICK x1 \in Objects, y1 \in Objects, h \in HolderMaps, g \in HolderMaps, free \in BOOLEAN :
           /\ Becomes(r, x1, h, y1, g) /\ free = (r \in pool.sm_FreeList)
           /\ Sound(x1, free, h) /\ Standing(h) /\ Only(h, t, ks) /\ Moved(h, g, t, to)
  BY <1>11, SeenBy
<1>13. x1 = x /\ y1 = y
  BY <1>1, <1>11, <1>12 DEF Becomes
<1>14. Drops(x, y, to)
  BY <1>4, <1>5, <1>8 DEF Drops
<1>15. Becomes(r, x, h, y, g)
  BY <1>12, <1>13
<1>a. Sound(x, free, h) /\ Standing(h) /\ Only(h, t, {"Deref"}) /\ Moved(h, g, t, to)
  BY <1>10, <1>12, <1>13
<1>16. Sound(y, free, g) /\ (Lives(y, g) <=> Lives(x, h)) /\ (Waits(y, g) <=> Waits(x, h))
  BY <1>14, <1>a, DropsSound
<1>17. Counters(0, 0, 0)
  BY <1>6 DEF Counters, Inv, TypeOK
<1>18. free = (r \in pool'.sm_FreeList)
  BY <1>7, <1>12, Zenon
<1> QED
  BY <1>11, <1>15, <1>16, <1>17, <1>18, SettlesUnseen

\* A thread in a call that is not the state machine's.
LEMMA TopOuter ==
  ASSUME Inv, NEW t \in AllThreads, NEW fn \in {"Check", "Free", "Delete", "Release"}, Is(t, fn)
  PROVE  \E s \in Seq(Frame), f \in Frame, r \in Req, x \in Objects :
           /\ s = stack[t] /\ s # <<>> /\ Shape(s) /\ f = Head(s) /\ f = Top(t)
           /\ f.fn = fn /\ f.r = r /\ Top(t).r = r /\ x = req[r]
           /\ Role(f) = fn /\ CallsOf(Role(f)) = {fn} /\ f.fn \notin Inner
           /\ Rewrites(s, Tail(s), r, {fn}, {}) /\ AddsStill(s, Tail(s))
<1>1. fn \in Calls \ Plain
  BY DEF Calls, Plain
<1>2. PICK s \in Seq(Frame), f \in Frame, r \in Req, x \in Objects :
           /\ s = stack[t] /\ s # <<>> /\ Shape(s) /\ f = Head(s) /\ f = Top(t)
           /\ f.fn = fn /\ f.r = r /\ Top(t).r = r /\ x = req[r]
  BY <1>1, TopCall
<1>3. Role(f) = fn /\ CallsOf(Role(f)) = {fn} /\ f.fn \notin Inner
  BY <1>2 DEF Role, CallsOf, Inner
<1>4. Rewrites(s, Tail(s), r, {fn}, {}) /\ AddsStill(s, Tail(s))
  BY <1>2, <1>3, Returns
<1> QED
  BY <1>2, <1>3, <1>4

\* It gives way to another such call.
LEMMA OuterReplaced ==
  ASSUME NEW s \in Seq(Frame), s # <<>>, Shape(s), NEW r \in Req, Head(s).r = r,
         NEW ks, CallsOf(Role(Head(s))) = ks, Head(s).fn \notin Inner,
         NEW fn \in {"DoWork", "Free", "Deref", "Release"}, NEW d, d = Call(fn, r)
  PROVE  /\ Rewrites(s, Push(d, Tail(s)), r, ks, {Role(d)}) /\ AddsStill(s, Push(d, Tail(s)))
         /\ Role(d) = IF fn = "DoWork" THEN "Kick" ELSE fn
<1>1. d \in Frame /\ d.fn = fn /\ d.r = r /\ d.res = "None"
  BY Frames DEF Calls
<1>2. Role(d) = (IF fn = "DoWork" THEN "Kick" ELSE fn)
  BY <1>1 DEF Role
<1>3. d.fn \notin Plain /\ d.fn \notin Inner /\ CallsOf(Role(d)) = {Role(d)}
  BY <1>1, <1>2 DEF Plain, Inner, CallsOf
<1>4. Rewrites(s, Push(d, Tail(s)), r, ks, CallsOf(Role(d))) /\ AddsStill(s, Push(d, Tail(s)))
  BY <1>1, <1>3, Replaces
<1> QED
  BY <1>2, <1>3, <1>4

\* An object that is not written.
LEMMA Unwritten ==
  ASSUME Inv, NEW r \in Req, req' = req
  PROVE  req' = [req EXCEPT ![r] = req[r]]
BY Types DEF Inv

LEMMA CheckErrorRest ==
  ASSUME Inv, NEW t \in AllThreads, Is(t, "Check"), req[Top(t).r]._ExecState = "ERROR",
         Return(t), req' = req, pool' = pool, wp' = wp
  PROVE  Rest'
<1>1. PICK s \in Seq(Frame), f \in Frame, r \in Req, x \in Objects :
        /\ s = stack[t] /\ s # <<>> /\ Shape(s) /\ f = Head(s) /\ f = Top(t)
        /\ f.fn = "Check" /\ f.r = r /\ Top(t).r = r /\ x = req[r]
        /\ Role(f) = "Check" /\ CallsOf(Role(f)) = {"Check"} /\ f.fn \notin Inner
        /\ Rewrites(s, Tail(s), r, {"Check"}, {}) /\ AddsStill(s, Tail(s))
  BY TopOuter
<1>2. pool'.sm_FreeList = pool.sm_FreeList
  OBVIOUS
<1>3. Writes(t, r, Tail(s), x)
  BY <1>1, <1>2, Unwritten DEF Writes, Return
<1>4. PICK ks, to : ks = {"Check"} /\ to = {}
  OBVIOUS
<1>5. Touches(t, r, ks, to) /\ AddsStill(stack[t], stack'[t]) /\ req'[r] = x
  BY <1>1, <1>3, <1>4, TouchesBy DEF Inv
<1>6. PICK x1 \in Objects, y1 \in Objects, h \in HolderMaps, g \in HolderMaps, free \in BOOLEAN :
           /\ Becomes(r, x1, h, y1, g) /\ free = (r \in pool.sm_FreeList)
           /\ Sound(x1, free, h) /\ Standing(h) /\ Only(h, t, ks) /\ Moved(h, g, t, to)
  BY <1>5, SeenBy
<1>7. x1 = x /\ y1 = x
  BY <1>1, <1>5, <1>6 DEF Becomes
<1>8. Becomes(r, x, h, x, g) /\ Sound(x, free, h) /\ Only(h, t, {"Check"}) /\ Moved(h, g, t, {})
  BY <1>4, <1>6, <1>7
<1>9. x._ExecState = "ERROR"
  BY <1>1
<1>10. Sound(x, free, g) /\ (Lives(x, g) <=> Lives(x, h)) /\ (Waits(x, g) <=> Waits(x, h))
  BY <1>8, <1>9, CheckReturns
<1>11. Counters(0, 0, 0)
  BY DEF Counters, Inv, TypeOK
<1>12. free = (r \in pool'.sm_FreeList)
  BY <1>2, <1>6, Zenon
<1> QED
  BY <1>5, <1>8, <1>10, <1>11, <1>12, SettlesUnseen

\* x becomes y when it is started over, in call k.
Restarts(x, y, k) ==
  /\ x._ExecState # "ERROR" /\ y._cRefs = x._cRefs /\ y.io = x.io
  /\ y.alive <=> x.alive
  /\ k = "Kick" => y._ExecState = "START" /\ ~y.core
  /\ k = "Free" => y._ExecState = x._ExecState /\ (y.core <=> x.core)

LEMMA RestartsSound ==
  ASSUME NEW x \in Objects, NEW y \in Objects, NEW free \in BOOLEAN,
         NEW h \in HolderMaps, NEW g \in HolderMaps,
         NEW t \in AllThreads, NEW k \in {"Kick", "Free"}, Restarts(x, y, k),
         NEW ks, NEW to, ks = {"Check"}, to = {k},
         Sound(x, free, h), Only(h, t, ks), Moved(h, g, t, to)
  PROVE  Sound(y, free, g) /\ Lives(x, h) /\ Lives(y, g) /\ ~Waits(x, h) /\ ~Waits(y, g)
<1>a. /\ x._ExecState # "ERROR" /\ y._cRefs = x._cRefs /\ y.io = x.io
      /\ y.alive <=> x.alive
      /\ k = "Kick" => y._ExecState = "START" /\ ~y.core
      /\ k = "Free" => y._ExecState = x._ExecState /\ (y.core <=> x.core)
  BY DEF Restarts
<1>b. Only(h, t, {"Check"}) /\ Moved(h, g, t, {k})
  OBVIOUS
<1>1. Sound(y, free, g) /\ DrivenBy(y, g, t, k) /\ Lives(x, h) /\ ~Waits(x, h)
  BY <1>a, <1>b, CheckDrives
<1>2. k \in Driving
  BY DEF Driving
<1>3. Lives(y, g) /\ (Waits(y, g) <=> k = "Receive" \/ (y._ExecState = "READ" /\ k # "Free"))
  BY <1>1, <1>2, DrivenCounts
<1>4. ~Waits(y, g)
  BY <1>3 DEF Restarts
<1> QED
  BY <1>1, <1>3, <1>4

LEMMA StartOverRest ==
  ASSUME Inv, NEW t \in AllThreads, Is(t, "Check"), req[Top(t).r]._ExecState # "ERROR",
         StartOver(t), wp' = wp
  PROVE  Rest'
<1>1. PICK s \in Seq(Frame), f \in Frame, r \in Req, x \in Objects :
        /\ s = stack[t] /\ s # <<>> /\ Shape(s) /\ f = Head(s) /\ f = Top(t)
        /\ f.fn = "Check" /\ f.r = r /\ Top(t).r = r /\ x = req[r]
        /\ Role(f) = "Check" /\ CallsOf(Role(f)) = {"Check"} /\ f.fn \notin Inner
        /\ Rewrites(s, Tail(s), r, {"Check"}, {}) /\ AddsStill(s, Tail(s))
  BY TopOuter
<1>2. pool'.sm_FreeList = pool.sm_FreeList /\ Counters(0, 0, 0)
  BY DEF StartOver, Counters, Inv, TypeOK
<1>3. PICK fn \in {"DoWork", "Free"} :
        fn = IF pool.sm_cRequestsPending > pool.settings.desired * 2 THEN "Free" ELSE "DoWork"
  OBVIOUS
<1>a. PICK d : d = Call(fn, r)
  OBVIOUS
<1>4. /\ Rewrites(s, Push(d, Tail(s)), r, {"Check"}, {Role(d)}) /\ AddsStill(s, Push(d, Tail(s)))
      /\ Role(d) = IF fn = "DoWork" THEN "Kick" ELSE fn
  <2>1. PICK fn1 \in {"DoWork", "Free", "Deref", "Release"} : fn1 = fn
    OBVIOUS
  <2>2. PICK ks : ks = {"Check"}
    OBVIOUS
  <2>3. Head(s).r = r /\ CallsOf(Role(Head(s))) = ks /\ Head(s).fn \notin Inner
    BY <1>1, <2>2
  <2>4. s # <<>> /\ Shape(s)
    BY <1>1
  <2>5. d = Call(fn1, r)
    BY <1>a, <2>1
  <2>6. /\ Rewrites(s, Push(d, Tail(s)), r, ks, {Role(d)}) /\ AddsStill(s, Push(d, Tail(s)))
        /\ Role(d) = IF fn1 = "DoWork" THEN "Kick" ELSE fn1
    BY <2>3, <2>4, <2>5, OuterReplaced
  <2> QED
    BY <2>1, <2>2, <2>6
<1>5. PICK k \in {"Kick", "Free"} : k = Role(d) /\ (k = "Free" <=> fn = "Free")
  BY <1>4
<1>6. stack' = [stack EXCEPT ![t] = Push(d, Tail(s))]
  BY <1>1, <1>3, <1>a DEF StartOver, Continue, Kick, Push
<1>7. PICK y \in Objects : req' = [req EXCEPT ![r] = y] /\ Restarts(x, y, k)
  <2>1. CASE fn = "Free"
    <3>1. req' = req
      BY <1>3, <2>1 DEF StartOver
    <3>2. req' = [req EXCEPT ![r] = x]
      BY <1>1, <3>1, Unwritten
    <3>3. Restarts(x, x, k)
      BY <1>1, <1>5, <2>1 DEF Restarts
    <3> QED
      BY <3>2, <3>3
  <2>2. CASE fn = "DoWork"
    <3>1. PICK e \in ExecState, c \in BOOLEAN : e = "START" /\ c = FALSE
      BY DEF ExecState
    <3>2. PICK y \in Objects :
            /\ y = StateCore(x, e, c)
            /\ y.alive = x.alive /\ y._ExecState = e /\ y._cRefs = x._cRefs /\ y.io = x.io /\ y.core = c
      BY UpdateReset
    <3>3. req' = [req EXCEPT ![r] = y]
      BY <1>1, <1>3, <2>2, <3>1, <3>2, ZenonT(40) DEF StartOver, Reset, StateCore
    <3>4. Restarts(x, y, k)
      BY <1>1, <1>5, <2>2, <3>1, <3>2 DEF Restarts
    <3> QED
      BY <3>3, <3>4
  <2> QED
    BY <2>1, <2>2
<1>8. Writes(t, r, Push(d, Tail(s)), y)
  BY <1>2, <1>6, <1>7 DEF Writes
<1>9. PICK ks, to : ks = {"Check"} /\ to = {k}
  OBVIOUS
<1>10. Touches(t, r, ks, to) /\ AddsStill(stack[t], stack'[t]) /\ req'[r] = y
  BY <1>1, <1>4, <1>5, <1>8, <1>9, TouchesBy DEF Inv
<1>11. PICK x1 \in Objects, y1 \in Objects, h \in HolderMaps, g \in HolderMaps, free \in BOOLEAN :
           /\ Becomes(r, x1, h, y1, g) /\ free = (r \in pool.sm_FreeList)
           /\ Sound(x1, free, h) /\ Standing(h) /\ Only(h, t, ks) /\ Moved(h, g, t, to)
  BY <1>10, SeenBy
<1>12. x1 = x /\ y1 = y
  BY <1>1, <1>10, <1>11 DEF Becomes
<1>13. Becomes(r, x, h, y, g) /\ Sound(x, free, h) /\ Only(h, t, ks) /\ Moved(h, g, t, to)
  BY <1>11, <1>12
<1>14. Sound(y, free, g) /\ Lives(x, h) /\ Lives(y, g) /\ ~Waits(x, h) /\ ~Waits(y, g)
  BY <1>7, <1>9, <1>13, RestartsSound
<1>15. free = (r \in pool'.sm_FreeList)
  BY <1>2, <1>11, Zenon
<1> QED
  BY <1>2, <1>10, <1>13, <1>14, <1>15, SettlesUnseen

LEMMA CheckRest ==
  ASSUME Inv, NEW t \in AllThreads, CheckState(t)
  PROVE  Rest'
BY CheckErrorRest, StartOverRest DEF CheckState

Seen(r, x, h, y, g, free, t, ks, to) ==
  /\ Becomes(r, x, h, y, g) /\ free = (r \in pool.sm_FreeList)
  /\ Sound(x, free, h) /\ Standing(h) /\ Only(h, t, ks) /\ Moved(h, g, t, to)

LEMMA SeenOf ==
  ASSUME Inv, NEW t \in AllThreads, NEW r \in Req, NEW x \in Objects, NEW y \in Objects,
         NEW ks, NEW to, Touches(t, r, ks, to), x = req[r], y = req'[r]
  PROVE  \E h \in HolderMaps, g \in HolderMaps, free \in BOOLEAN :
           Seen(r, x, h, y, g, free, t, ks, to)
<1>2. PICK x1 \in Objects, y1 \in Objects, h \in HolderMaps, g \in HolderMaps, free \in BOOLEAN :
           /\ Becomes(r, x1, h, y1, g) /\ free = (r \in pool.sm_FreeList)
           /\ Sound(x1, free, h) /\ Standing(h) /\ Only(h, t, ks) /\ Moved(h, g, t, to)
  BY SeenBy
<1>3. x1 = x /\ y1 = y
  BY <1>2 DEF Becomes
<1>4. Seen(r, x, h, y, g, free, t, ks, to)
  BY <1>2, <1>3 DEF Seen
<1> QED
  BY <1>4

\* The thread in an outer call has the calls p afterwards, and the object is y.
LEMMA OuterSeen ==
  ASSUME Inv, NEW t \in AllThreads, NEW r \in Req, NEW x \in Objects, NEW y \in Objects,
         NEW s, NEW p, NEW ks, NEW to, s = stack[t], x = req[r],
         Writes(t, r, p, y), Rewrites(s, p, r, ks, to), AddsStill(s, p)
  PROVE  Touches(t, r, ks, to) /\ AddsStill(stack[t], stack'[t]) /\ x = req[r] /\ y = req'[r]
BY TouchesBy DEF Inv

LEMMA DeleteRest ==
  ASSUME Inv, NEW t \in AllThreads, RemoveFromRequestList(t)
  PROVE  Rest'
<1>1. PICK s \in Seq(Frame), f \in Frame, r \in Req, x \in Objects :
        /\ s = stack[t] /\ s # <<>> /\ Shape(s) /\ f = Head(s) /\ f = Top(t)
        /\ f.fn = "Delete" /\ f.r = r /\ Top(t).r = r /\ x = req[r]
        /\ Role(f) = "Delete" /\ CallsOf(Role(f)) = {"Delete"} /\ f.fn \notin Inner
        /\ Rewrites(s, Tail(s), r, {"Delete"}, {}) /\ AddsStill(s, Tail(s))
  BY TopOuter DEF RemoveFromRequestList
<1>2. PICK fn, ks, to :
        fn \in {"DoWork", "Free", "Deref", "Release"} /\ fn = "Release" /\ ks = {"Delete"} /\ to = {"Release"}
  OBVIOUS
<1>3. PICK d : d = Call(fn, r)
  OBVIOUS
<1>4. Rewrites(s, Push(d, Tail(s)), r, ks, to) /\ AddsStill(s, Push(d, Tail(s)))
  <2>1. Head(s).r = r /\ CallsOf(Role(Head(s))) = ks /\ Head(s).fn \notin Inner
    BY <1>1, <1>2
  <2>2. s # <<>> /\ Shape(s)
    BY <1>1
  <2>3. /\ Rewrites(s, Push(d, Tail(s)), r, ks, {Role(d)}) /\ AddsStill(s, Push(d, Tail(s)))
        /\ Role(d) = IF fn = "DoWork" THEN "Kick" ELSE fn
    BY <1>2, <1>3, <2>1, <2>2, OuterReplaced
  <2>4. {Role(d)} = to
    BY <1>2, <2>3
  <2> QED
    BY <2>3, <2>4
<1>5. stack' = [stack EXCEPT ![t] = Push(d, Tail(s))] /\ req' = req /\ wp' = wp
  BY <1>1, <1>2, <1>3 DEF RemoveFromRequestList, Continue, Push
<1>6. pool'.sm_FreeList = pool.sm_FreeList /\ Counters(-1, 0, 0)
  BY <1>5 DEF RemoveFromRequestList, Counters, Inv, TypeOK
<1>7. Writes(t, r, Push(d, Tail(s)), x)
  BY <1>1, <1>5, <1>6, Unwritten DEF Writes
<1>8. Touches(t, r, ks, to) /\ AddsStill(stack[t], stack'[t]) /\ x = req[r] /\ x = req'[r]
  BY <1>1, <1>4, <1>7, OuterSeen
<1>9a. PICK h \in HolderMaps, g \in HolderMaps, free \in BOOLEAN : Seen(r, x, h, x, g, free, t, ks, to)
  BY <1>8, SeenOf
<1>9. /\ Becomes(r, x, h, x, g) /\ free = (r \in pool.sm_FreeList)
     /\ Sound(x, free, h) /\ Standing(h) /\ Only(h, t, ks) /\ Moved(h, g, t, to)
  BY <1>9a DEF Seen
<1>10. Sound(x, free, h) /\ Only(h, t, {"Delete"}) /\ Moved(h, g, t, {"Release"})
  BY <1>2, <1>9
<1>11. Sound(x, free, g) /\ Lives(x, h) /\ ~Lives(x, g) /\ (Waits(x, g) <=> Waits(x, h))
  BY <1>10, DeleteReleases
<1>12. /\ -1 = Bit(Lives(x, g)) - Bit(Lives(x, h))
       /\ 0 - (Bit(Waits(x, g)) - Bit(Waits(x, h))) \in 0 .. 0
  <2>1. Bit(Lives(x, g)) = 0 /\ Bit(Lives(x, h)) = 1
    BY <1>11 DEF Bit
  <2>2. Bit(Waits(x, g)) = Bit(Waits(x, h)) /\ Bit(Waits(x, h)) \in Int
    BY <1>11 DEF Bit
  <2> QED
    BY <2>1, <2>2
<1>13. free = (r \in pool'.sm_FreeList)
  BY <1>6, <1>9, Zenon
<1>14. -1 \in Int /\ 0 \in Int /\ 0 \in Nat
  OBVIOUS
<1> QED
  BY <1>6, <1>8, <1>9, <1>11, <1>12, <1>13, <1>14, Settles, Zenon

LEMMA ReleaseRest ==
  ASSUME Inv, NEW t \in AllThreads, ReleaseMemory(t)
  PROVE  Rest'
<1>1. PICK s \in Seq(Frame), f \in Frame, r \in Req, x \in Objects :
        /\ s = stack[t] /\ s # <<>> /\ Shape(s) /\ f = Head(s) /\ f = Top(t)
        /\ f.fn = "Release" /\ f.r = r /\ Top(t).r = r /\ x = req[r]
        /\ Role(f) = "Release" /\ CallsOf(Role(f)) = {"Release"} /\ f.fn \notin Inner
        /\ Rewrites(s, Tail(s), r, {"Release"}, {}) /\ AddsStill(s, Tail(s))
  BY TopOuter DEF ReleaseMemory
<1>2. PICK ks, to : ks = {"Release"} /\ to = {}
  OBVIOUS
<1>3. PICK y \in Objects :
        /\ y = [x EXCEPT !.alive = FALSE]
        /\ ~y.alive /\ y._ExecState = x._ExecState /\ y._cRefs = x._cRefs /\ y.io = x.io
        /\ (y.core <=> x.core)
  <2>1. PICK a \in BOOLEAN : a = FALSE
    OBVIOUS
  <2>2. PICK y \in Objects :
          /\ y = [x EXCEPT !.alive = a]
          /\ y.alive = a /\ y._ExecState = x._ExecState /\ y._cRefs = x._cRefs /\ y.io = x.io /\ y.core = x.core
    BY UpdateAlive
  <2> QED
    BY <2>1, <2>2
<1>4. /\ stack' = [stack EXCEPT ![t] = Tail(s)] /\ req' = [req EXCEPT ![r] = y] /\ pool' = pool /\ wp' = wp
      /\ pool'.sm_FreeList = pool.sm_FreeList
  BY <1>1, <1>3 DEF ReleaseMemory, Return
<1>5. Writes(t, r, Tail(s), y) /\ Rewrites(s, Tail(s), r, ks, to)
  BY <1>1, <1>2, <1>4 DEF Writes
<1>6. Counters(0, 0, 0)
  BY <1>4 DEF Counters, Inv, TypeOK
<1>7. Touches(t, r, ks, to) /\ AddsStill(stack[t], stack'[t]) /\ x = req[r] /\ y = req'[r]
  BY <1>1, <1>5, OuterSeen, ZenonT(40)
<1>8a. PICK h \in HolderMaps, g \in HolderMaps, free \in BOOLEAN : Seen(r, x, h, y, g, free, t, ks, to)
  BY <1>7, SeenOf
<1>8. /\ Becomes(r, x, h, y, g) /\ free = (r \in pool.sm_FreeList)
     /\ Sound(x, free, h) /\ Standing(h) /\ Only(h, t, ks) /\ Moved(h, g, t, to)
  BY <1>8a DEF Seen
<1>9. Sound(x, free, h) /\ Only(h, t, {"Release"}) /\ Moved(h, g, t, {})
  BY <1>2, <1>8
<1>10. /\ ~y.alive /\ y._cRefs = x._cRefs /\ y.io = x.io /\ y._ExecState = x._ExecState
       /\ (y.core <=> x.core)
  BY <1>3
<1>11. Sound(y, free, g) /\ ~Lives(x, h) /\ ~Lives(y, g) /\ (Waits(y, g) <=> Waits(x, h))
  BY <1>9, <1>10, ReleaseEnds
<1>12. free = (r \in pool'.sm_FreeList)
  BY <1>4, <1>8, Zenon
<1> QED
  BY <1>6, <1>7, <1>8, <1>11, <1>12, SettlesUnseen

LEMMA FreeRest ==
  ASSUME Inv, NEW t \in AllThreads, FreeWorkerRequest(t)
  PROVE  Rest'
<1>1. PICK s \in Seq(Frame), f \in Frame, r \in Req, x \in Objects :
        /\ s = stack[t] /\ s # <<>> /\ Shape(s) /\ f = Head(s) /\ f = Top(t)
        /\ f.fn = "Free" /\ f.r = r /\ Top(t).r = r /\ x = req[r]
        /\ Role(f) = "Free" /\ CallsOf(Role(f)) = {"Free"} /\ f.fn \notin Inner
        /\ Rewrites(s, Tail(s), r, {"Free"}, {}) /\ AddsStill(s, Tail(s))
  BY TopOuter DEF FreeWorkerRequest
<1>2. wp' = wp
  BY DEF FreeWorkerRequest
<1>3. "Free" \in Driving
  BY DEF Driving
<1>4. DrivenBy(x, Holders(r), t, "Free")
  BY <1>1, <1>3, TopDriver
<1>5. CASE pool.sm_cFreeRequests > MaxFree \/ wp._fShutdown
  <2>1. PICK fn, ks, to :
          fn \in {"DoWork", "Free", "Deref", "Release"} /\ fn = "Deref" /\ ks = {"Free"} /\ to = {"Deref"}
    OBVIOUS
  <2>2. PICK d : d = Call(fn, r)
    OBVIOUS
  <2>3. Rewrites(s, Push(d, Tail(s)), r, ks, to) /\ AddsStill(s, Push(d, Tail(s)))
    <3>1. Head(s).r = r /\ CallsOf(Role(Head(s))) = ks /\ Head(s).fn \notin Inner
      BY <1>1, <2>1
    <3>2. s # <<>> /\ Shape(s)
      BY <1>1
    <3>3. /\ Rewrites(s, Push(d, Tail(s)), r, ks, {Role(d)}) /\ AddsStill(s, Push(d, Tail(s)))
          /\ Role(d) = IF fn = "DoWork" THEN "Kick" ELSE fn
      BY <2>1, <2>2, <3>1, <3>2, OuterReplaced
    <3>4. {Role(d)} = to
      BY <2>1, <3>3
    <3> QED
      BY <3>3, <3>4
  <2>4. stack' = [stack EXCEPT ![t] = Push(d, Tail(s))] /\ req' = req /\ pool' = pool
    BY <1>1, <1>5, <2>1, <2>2 DEF FreeWorkerRequest, Continue, Push
  <2>5. pool'.sm_FreeList = pool.sm_FreeList
    BY <2>4
  <2>6. Counters(0, 0, 0)
    BY <1>2, <2>4 DEF Counters, Inv, TypeOK
  <2>7. Writes(t, r, Push(d, Tail(s)), x)
    BY <1>1, <2>4, <2>5, Unwritten DEF Writes
  <2>8. Touches(t, r, ks, to) /\ AddsStill(stack[t], stack'[t]) /\ x = req[r] /\ x = req'[r]
    BY <1>1, <2>3, <2>7, OuterSeen
  <2>9a. PICK h \in HolderMaps, g \in HolderMaps, free \in BOOLEAN : Seen(r, x, h, x, g, free, t, ks, to)
    BY <2>8, SeenOf
  <2>9. /\ Becomes(r, x, h, x, g) /\ free = (r \in pool.sm_FreeList)
       /\ Sound(x, free, h) /\ Standing(h) /\ Only(h, t, ks) /\ Moved(h, g, t, to)
    BY <2>9a DEF Seen
  <2>10. Sound(x, free, h) /\ Only(h, t, {"Free"}) /\ Moved(h, g, t, {"Deref"})
    BY <2>1, <2>9
  <2>11. Sound(x, free, g) /\ Lives(x, g) /\ ~Waits(x, g)
    BY <2>10, FreeDrops
  <2>12. Lives(x, h) /\ ~Waits(x, h)
    <3>1. DrivenBy(x, h, t, "Free")
      BY <1>4, <2>9 DEF Becomes
    <3>2. Lives(x, h) /\ (Waits(x, h) <=> "Free" = "Receive" \/ (x._ExecState = "READ" /\ "Free" # "Free"))
      BY <1>3, <3>1, DrivenCounts
    <3> QED
      BY <3>2
  <2>13. free = (r \in pool'.sm_FreeList)
    BY <2>5, <2>9, Zenon
  <2> QED
    BY <2>6, <2>8, <2>9, <2>11, <2>12, <2>13, SettlesUnseen
<1>6. CASE ~(pool.sm_cFreeRequests > MaxFree \/ wp._fShutdown)
  <2>1. PICK ks, to : ks = {"Free"} /\ to = {}
    OBVIOUS
  <2>2. PICK n \in Nat : n = pool.sm_cFreeRequests + 1
    BY DEF Inv, TypeOK
  <2>3. PICK d \in Frame : d = Counted("Count", n) /\ d.fn = "Count" /\ d.r = NoReq /\ d.n >= 0
    <3>1. n \in Int /\ n >= 0 /\ "Count" \in Calls /\ NoReq \in Req \cup {NoReq}
      BY DEF Calls
    <3> QED
      BY <3>1, Frames
  <2>4. Rewrites(s, <<d>> \o Tail(s), r, ks, to) /\ AddsStill(s, <<d>> \o Tail(s))
    BY <1>1, <2>1, <2>3, Lists
  <2>5. PICK e \in ExecState, c \in BOOLEAN : e = "START" /\ c = FALSE
    BY DEF ExecState
  <2>6. PICK y \in Objects :
            /\ y = StateCore(x, e, c)
            /\ y.alive = x.alive /\ y._ExecState = e /\ y._cRefs = x._cRefs /\ y.io = x.io /\ y.core = c
    BY UpdateReset
  <2>7. /\ req' = [req EXCEPT ![r] = y] /\ stack' = [stack EXCEPT ![t] = <<d>> \o Tail(s)]
        /\ pool' = [pool EXCEPT !.sm_FreeList = @ \cup {r}]
    <3>1. /\ req' = Reset(r) /\ pool' = [pool EXCEPT !.sm_FreeList = @ \cup {r}]
          /\ Continue(t, <<Counted("Count", pool.sm_cFreeRequests + 1)>>)
      BY <1>1, <1>6 DEF FreeWorkerRequest
    <3>2. req' = [req EXCEPT ![r] = y]
      BY <1>1, <2>5, <2>6, <3>1 DEF Reset, StateCore
    <3>3. stack' = [stack EXCEPT ![t] = <<d>> \o Tail(s)]
      BY <1>1, <2>2, <2>3, <3>1 DEF Continue
    <3> QED
      BY <3>1, <3>2, <3>3
  <2>8. pool'.sm_FreeList = pool.sm_FreeList \cup {r} /\ Counters(0, 0, 0)
    BY <1>2, <2>7 DEF Counters, Inv, TypeOK
  <2>9. Writes(t, r, <<d>> \o Tail(s), y)
    BY <2>7, <2>8 DEF Writes
  <2>9a. PICK p : p = <<d>> \o Tail(s)
    OBVIOUS
  <2>9b. Rewrites(s, p, r, ks, to) /\ AddsStill(s, p) /\ Writes(t, r, p, y)
    BY <2>4, <2>9, <2>9a
  <2>10. Touches(t, r, ks, to) /\ AddsStill(stack[t], stack'[t]) /\ x = req[r] /\ y = req'[r]
    <3>1. s = stack[t] /\ x = req[r]
      BY <1>1
    <3> QED
      BY <2>9b, <3>1, OuterSeen
  <2>11a. PICK h \in HolderMaps, g \in HolderMaps, free \in BOOLEAN : Seen(r, x, h, y, g, free, t, ks, to)
    BY <2>10, SeenOf
  <2>11. /\ Becomes(r, x, h, y, g) /\ free = (r \in pool.sm_FreeList)
       /\ Sound(x, free, h) /\ Standing(h) /\ Only(h, t, ks) /\ Moved(h, g, t, to)
    BY <2>11a DEF Seen
  <2>12. Sound(x, free, h) /\ Only(h, t, {"Free"}) /\ Moved(h, g, t, {})
    BY <2>1, <2>11
  <2>13. /\ y._cRefs = x._cRefs /\ y.io = x.io /\ y._ExecState = "START" /\ ~y.core
         /\ (y.alive <=> x.alive)
    BY <2>5, <2>6
  <2>14. Sound(y, TRUE, g) /\ Lives(y, g) /\ ~Waits(y, g)
    BY <2>12, <2>13, FreeLists
  <2>15. Lives(x, h) /\ ~Waits(x, h)
    <3>1. DrivenBy(x, h, t, "Free")
      BY <1>4, <2>11 DEF Becomes
    <3>2. Lives(x, h) /\ (Waits(x, h) <=> "Free" = "Receive" \/ (x._ExecState = "READ" /\ "Free" # "Free"))
      BY <1>3, <3>1, DrivenCounts
    <3> QED
      BY <3>2
  <2>16. TRUE = (r \in pool'.sm_FreeList)
    BY <2>8
  <2> QED
    BY <2>8, <2>10, <2>11, <2>14, <2>15, <2>16, SettlesUnseen
<1> QED
  BY <1>5, <1>6

-----------------------------------------------------------------------------
(***************************************************************************)
(* Steps that are not about a request.                                     *)
(***************************************************************************)
\* The calls of t become p, which is about the same requests, and e calls more have failed.
PlainStep(t, p, e) ==
  /\ p \in Seq(Frame) /\ Shape(p) /\ stack' = [stack EXCEPT ![t] = p]
  /\ \A u \in Req : RolesIn(p, u) = RolesIn(stack[t], u)
  /\ req' = req /\ pool'.sm_FreeList = pool.sm_FreeList /\ pool'.settings = pool.settings
  /\ pool'.sm_cRequests = pool.sm_cRequests
  /\ pool'.sm_cRequestsPending = pool.sm_cRequestsPending
  /\ wp'.faults = wp.faults - e

LEMMA AddersMove ==
  ASSUME TypeOK, NEW t \in AllThreads, NEW p, stack' = [stack EXCEPT ![t] = p]
  PROVE  /\ \A u \in AllThreads \ {t} : u \in Adders' <=> u \in Adders
         /\ t \in Adders' <=> "Adding" \in RolesIn(p, NoReq)
         /\ t \in Adders <=> "Adding" \in RolesIn(stack[t], NoReq)
<1>1. stack \in [AllThreads -> Seq(Frame)]
  BY Types
<1>2. stack'[t] = p /\ \A u \in AllThreads \ {t} : stack'[u] = stack[u]
  BY <1>1
<1>3. Adders' = {u \in AllThreads : "Adding" \in RolesIn(stack'[u], NoReq)}
  BY DEF Adders, RolesIn, Roles, Calls, Role, AllThreads
<1> QED
  BY <1>2, <1>3 DEF Adders

LEMMA PlainRest ==
  ASSUME Inv, NEW t \in AllThreads, NEW p, NEW e \in Nat, PlainStep(t, p, e), AddInv'
  PROVE  Rest'
<1>1. TypeOK /\ ShapeInv /\ SoundInv /\ CountInv
  BY DEF Inv
<1>2. /\ p \in Seq(Frame) /\ Shape(p) /\ stack' = [stack EXCEPT ![t] = p]
      /\ \A u \in Req : RolesIn(p, u) = RolesIn(stack[t], u)
      /\ req' = req /\ pool'.sm_FreeList = pool.sm_FreeList
  BY DEF PlainStep
<1>3. /\ ShapeInv' /\ SoundInv' /\ Living' = Living /\ WaitSet' = WaitSet
      /\ req' \in [Req -> Objects] /\ stack' \in [AllThreads -> Seq(Frame)]
  BY <1>1, <1>2, SameHolders
<1>4. Cardinality(Living') = Cardinality(Living) /\ Cardinality(WaitSet') = Cardinality(WaitSet)
  BY <1>3
<1>5. wp.faults \in Nat /\ pool.settings.maxFaults \in Nat /\ pool.sm_cRequests \in Nat /\ pool.sm_cRequestsPending \in Nat
  <2>1. pool.settings \in Settings /\ wp.faults \in Nat /\ pool.sm_cRequests \in Nat /\ pool.sm_cRequestsPending \in Nat
    BY <1>1 DEF TypeOK
  <2> QED
    BY <2>1, SettingsAssumption DEF Setting
<1>6. CountInv'
  <2>1. Cardinality(WaitSet) \in Int
    <3>1. IsFiniteSet(WaitSet)
      BY RequestAssumption, FS_Subset DEF WaitSet
    <3> QED
      BY <3>1, FS_CardinalityType
  <2>2. /\ pool'.settings = pool.settings /\ pool'.sm_cRequests = pool.sm_cRequests
        /\ pool'.sm_cRequestsPending = pool.sm_cRequestsPending
        /\ wp'.faults = wp.faults - e
    BY DEF PlainStep
  <2>3. Failures' = pool.settings.maxFaults - (wp.faults - e)
    BY <2>2 DEF Failures
  <2>4. pool.sm_cRequestsPending - Cardinality(WaitSet) \in 0 .. (pool.settings.maxFaults - (wp.faults - e))
    BY <1>1, <1>5, <2>1 DEF CountInv, Failures
  <2>5. wp.faults <= pool.settings.maxFaults /\ pool.sm_cRequests = Cardinality(Living)
    BY <1>1 DEF CountInv
  <2>6. wp.faults - e <= pool.settings.maxFaults
    BY <1>5, <2>5
  <2> QED
    BY <1>4, <2>2, <2>3, <2>4, <2>5, <2>6 DEF CountInv
<1>7. pool'.sm_cRequests \in Nat /\ pool'.sm_cRequestsPending \in Nat
  BY <1>5 DEF PlainStep
<1> QED
  BY <1>3, <1>6, <1>7 DEF Rest

\* Nothing is added, or added any longer.
LEMMA AddsAsBefore ==
  ASSUME Inv, NEW t \in AllThreads, NEW p, NEW e \in Nat, PlainStep(t, p, e),
         AddsStill(stack[t], p), pool'.sm_fAddingRequests = pool.sm_fAddingRequests
  PROVE  AddInv'
<1>1. /\ \A u \in AllThreads \ {t} : u \in Adders' <=> u \in Adders
      /\ t \in Adders' <=> "Adding" \in RolesIn(p, NoReq)
      /\ t \in Adders <=> "Adding" \in RolesIn(stack[t], NoReq)
  BY AddersMove DEF Inv, PlainStep
<1>2. Adders \subseteq AllThreads /\ Adders' \subseteq AllThreads
  BY DEF Adders, AllThreads
<1>3. Adders' = Adders
  BY <1>1, <1>2 DEF AddsStill
<1>4. Failures \in Int /\ Failures' = Failures + e
  <2>1. pool.settings \in Settings /\ wp.faults \in Nat
    BY DEF Inv, TypeOK
  <2>2. pool.settings.maxFaults \in Nat
    BY <2>1, SettingsAssumption DEF Setting
  <2>3. Failures' = pool.settings.maxFaults - (wp.faults - e)
    BY DEF PlainStep, Failures
  <2> QED
    BY <2>1, <2>2, <2>3 DEF Failures
<1> QED
  BY <1>3, <1>4 DEF AddInv, Inv

LEMMA CountRest ==
  ASSUME Inv, NEW t \in AllThreads, CountFree(t)
  PROVE  Rest'
<1>1. stack[t] \in Seq(Frame) /\ Shape(stack[t]) /\ stack[t] # <<>> /\ Head(stack[t]).fn = "Count"
  BY Types DEF Inv, ShapeInv, CountFree, Is, Idle, Top
<1>2. Head(stack[t]).fn \in Plain /\ Head(stack[t]).fn # "Adding"
  BY <1>1 DEF Plain
<1>3. PICK p : p = Tail(stack[t])
  OBVIOUS
<1>4. /\ p \in Seq(Frame) /\ Shape(p) /\ AddsStill(stack[t], p)
      /\ \A u \in Req : RolesIn(p, u) = RolesIn(stack[t], u)
  BY <1>1, <1>2, <1>3, PlainPop
<1>5. PlainStep(t, p, 0) /\ pool'.sm_fAddingRequests = pool.sm_fAddingRequests
  BY <1>3, <1>4 DEF PlainStep, CountFree, Return, Inv, TypeOK
<1>6. AddInv'
  BY <1>4, <1>5, AddsAsBefore
<1> QED
  BY <1>5, <1>6, PlainRest

LEMMA AddPendingRest ==
  ASSUME Inv, NEW t \in AllThreads, AddPendingRequests(t)
  PROVE  Rest'
<1>1. stack[t] \in Seq(Frame) /\ Shape(stack[t]) /\ stack[t] # <<>> /\ Head(stack[t]).fn = "AddPending"
  BY Types DEF Inv, ShapeInv, AddPendingRequests, Is, Idle, Top
<1>2. Head(stack[t]).fn \in Plain /\ Head(stack[t]).fn # "Adding" /\ Head(stack[t]) \in Frame
  BY <1>1, PopFacts DEF Plain
<1>3. PICK p : p = Tail(stack[t])
  OBVIOUS
<1>4. /\ p \in Seq(Frame) /\ Shape(p) /\ AddsStill(stack[t], p)
      /\ \A u \in Req : RolesIn(p, u) = RolesIn(stack[t], u)
  BY <1>1, <1>2, <1>3, PlainPop
<1>5. CASE pool.sm_fAddingRequests
  <2>1. PlainStep(t, p, 0) /\ pool'.sm_fAddingRequests = pool.sm_fAddingRequests
    <3>1. pool' = pool /\ wp' = wp /\ req' = req /\ stack' = [stack EXCEPT ![t] = p]
      BY <1>3, <1>5 DEF AddPendingRequests, Return
    <3>2. wp'.faults = wp.faults - 0
      BY <3>1 DEF Inv, TypeOK
    <3> QED
      BY <1>4, <3>1, <3>2 DEF PlainStep
  <2>2. AddInv'
    BY <1>4, <2>1, AddsAsBefore
  <2> QED
    BY <2>1, <2>2, PlainRest
<1>6. CASE ~pool.sm_fAddingRequests
  <2>1. PICK n \in Int : n = Head(stack[t]).n
    BY <1>2 DEF Frame
  <2>2. PICK a \in Frame : a = Counted("Adding", n) /\ a.fn = "Adding" /\ a.r = NoReq
    BY Frames DEF Calls
  <2>3. Adders = {} /\ "Adding" \notin RolesIn(stack[t], NoReq)
    BY <1>6 DEF Inv, AddInv, Adders
  <2>4. "Adding" \notin RolesIn(p, NoReq)
    BY <1>4, <2>3 DEF AddsStill
  <2>5. PICK q : q = Push(a, p)
    OBVIOUS
  <2>6. /\ q \in Seq(Frame) /\ Shape(q)
        /\ \A u \in Req : RolesIn(q, u) = RolesIn(p, u)
        /\ "Adding" \in RolesIn(q, NoReq)
    BY <1>4, <2>2, <2>4, <2>5, PlainPush DEF Plain
  <2>7. stack' = [stack EXCEPT ![t] = q]
    BY <1>3, <1>6, <2>1, <2>2, <2>5 DEF AddPendingRequests, Continue, Top, Push
  <2>8. PlainStep(t, q, 0) /\ pool'.sm_fAddingRequests
    BY <1>4, <1>6, <2>6, <2>7 DEF PlainStep, AddPendingRequests, Inv, TypeOK
  <2>9. Adders' = {t}
    <3>1. /\ \A u \in AllThreads \ {t} : u \in Adders' <=> u \in Adders
          /\ t \in Adders' <=> "Adding" \in RolesIn(q, NoReq)
      BY <2>7, AddersMove DEF Inv
    <3>2. Adders' \subseteq AllThreads
      BY DEF Adders, AllThreads
    <3> QED
      BY <2>3, <2>6, <3>1, <3>2
  <2>10. AddInv'
    BY <2>8, <2>9 DEF AddInv
  <2> QED
    BY <2>8, <2>10, PlainRest
<1> QED
  BY <1>5, <1>6

\* The loop that adds requests ends.
LEMMA AddingEnds ==
  ASSUME Inv, NEW t \in AllThreads, Is(t, "Adding"), Return(t)
  PROVE  \E p \in Seq(Frame) :
           /\ Shape(p) /\ stack' = [stack EXCEPT ![t] = p]
           /\ \A u \in Req : RolesIn(p, u) = RolesIn(stack[t], u)
           /\ Adders' = {}
<1>1. stack[t] \in Seq(Frame) /\ Shape(stack[t]) /\ stack[t] # <<>> /\ Head(stack[t]).fn = "Adding"
  BY Types DEF Inv, ShapeInv, Is, Idle, Top
<1>2. Head(stack[t]).fn \in Plain
  BY <1>1 DEF Plain
<1>3. PICK p : p = Tail(stack[t])
  OBVIOUS
<1>4. /\ p \in Seq(Frame) /\ Shape(p)
      /\ "Adding" \notin RolesIn(p, NoReq) /\ "Adding" \in RolesIn(stack[t], NoReq)
      /\ \A u \in Req : RolesIn(p, u) = RolesIn(stack[t], u)
  BY <1>1, <1>2, <1>3, PlainPop
<1>5. stack' = [stack EXCEPT ![t] = p]
  BY <1>3 DEF Return
<1>6. Adders' = {}
  <2>1. /\ \A u \in AllThreads \ {t} : u \in Adders' <=> u \in Adders
        /\ t \in Adders' <=> "Adding" \in RolesIn(p, NoReq)
        /\ t \in Adders <=> "Adding" \in RolesIn(stack[t], NoReq)
    BY <1>5, AddersMove DEF Inv
  <2>2. Adders' \subseteq AllThreads
    BY DEF Adders, AllThreads
  <2>3. Adders \subseteq {t}
    BY <1>4, <2>1 DEF Inv, AddInv
  <2> QED
    BY <1>4, <2>1, <2>2, <2>3
<1> QED
  BY <1>4, <1>5, <1>6

LEMMA AddDoneRest ==
  ASSUME Inv, NEW t \in AllThreads, AddDone(t)
  PROVE  Rest'
<1>1. PICK p \in Seq(Frame) :
        /\ Shape(p) /\ stack' = [stack EXCEPT ![t] = p]
        /\ \A u \in Req : RolesIn(p, u) = RolesIn(stack[t], u)
        /\ Adders' = {}
  BY AddingEnds DEF AddDone
<1>2. PlainStep(t, p, 0) /\ pool'.sm_fAddingRequests = FALSE
  BY <1>1 DEF PlainStep, AddDone, Inv, TypeOK
<1>3. AddInv'
  BY <1>1, <1>2 DEF AddInv
<1> QED
  BY <1>2, <1>3, PlainRest

LEMMA AddFailedRest ==
  ASSUME Inv, NEW t \in AllThreads, Is(t, "Adding"), AddFailed(t)
  PROVE  Rest'
<1>1. PICK p \in Seq(Frame) :
        /\ Shape(p) /\ stack' = [stack EXCEPT ![t] = p]
        /\ \A u \in Req : RolesIn(p, u) = RolesIn(stack[t], u)
        /\ Adders' = {}
  BY AddingEnds DEF AddFailed
<1>2. PlainStep(t, p, 1) /\ pool' = pool
  BY <1>1 DEF PlainStep, AddFailed, Failed, Inv, TypeOK
<1>3. Failures' > 0
  <2>1. pool.settings \in Settings /\ wp.faults \in Nat /\ wp.faults <= pool.settings.maxFaults
    BY DEF Inv, TypeOK, CountInv
  <2>2. pool.settings.maxFaults \in Nat
    BY <2>1, SettingsAssumption DEF Setting
  <2>3. Failures' = pool.settings.maxFaults - (wp.faults - 1)
    BY <1>2 DEF PlainStep, Failures
  <2> QED
    BY <2>1, <2>2, <2>3
<1>4. AddInv'
  BY <1>1, <1>3 DEF AddInv
<1> QED
  BY <1>2, <1>4, PlainRest

LEMMA MonitorRest ==
  ASSUME Inv, PendingRequestsMonitorHandler
  PROVE  Rest'
<1>1. Monitor \in AllThreads /\ stack[Monitor] = <<>> /\ <<>> \in Seq(Frame)
  BY DEF PendingRequestsMonitorHandler, Idle, AllThreads
<1>2. PICK a \in Frame : a = Counted("AddPending", 1) /\ a.fn = "AddPending" /\ a.r = NoReq
  BY Frames DEF Calls
<1>3. PICK p : p = Push(a, <<>>)
  OBVIOUS
<1>4. /\ p \in Seq(Frame) /\ Shape(p)
      /\ \A u \in Req : RolesIn(p, u) = RolesIn(<<>>, u)
      /\ AddsStill(<<>>, p)
  BY <1>1, <1>2, <1>3, ShapeEmpty, PlainPush DEF Plain
<1>5. p = <<a>>
  BY <1>2, <1>3, PushOne
<1>6. PlainStep(Monitor, p, 0) /\ pool'.sm_fAddingRequests = pool.sm_fAddingRequests
  BY <1>1, <1>2, <1>4, <1>5, SMTT(30) DEF PlainStep, PendingRequestsMonitorHandler, Inv, TypeOK
<1>7. AddInv'
  BY <1>1, <1>4, <1>6, AddsAsBefore
<1> QED
  BY <1>1, <1>6, <1>7, PlainRest

-----------------------------------------------------------------------------
(***************************************************************************)
(* Steps that begin something with a request.                              *)
(***************************************************************************)
LEMMA WithinRoles ==
  ASSUME TypeOK, NEW t \in AllThreads, NEW r, NEW fns \in SUBSET Calls
  PROVE  Within(t, r, fns) <=>
           \E k \in RolesIn(stack[t], r) : k \in fns \/ (k = "Kick" /\ "DoWork" \in fns)
<1>1. stack[t] \in Seq(Frame)
  BY Types
<1>2. DOMAIN stack[t] = 1 .. Len(stack[t]) /\ \A i \in 1 .. Len(stack[t]) : stack[t][i] \in Frame
  BY <1>1
<1>3. ASSUME Within(t, r, fns)
      PROVE  \E k \in RolesIn(stack[t], r) : k \in fns \/ (k = "Kick" /\ "DoWork" \in fns)
  <2>1. PICK i \in 1 .. Len(stack[t]) : stack[t][i].fn \in fns /\ stack[t][i].r = r
    BY <1>2, <1>3 DEF Within
  <2>2. Role(stack[t][i]) \in Roles
        /\ Role(stack[t][i]) = IF stack[t][i].fn = "DoWork" /\ stack[t][i].res = "None" THEN "Kick" ELSE stack[t][i].fn
    BY <1>2, FrameRole
  <2>3. Role(stack[t][i]) \in RolesIn(stack[t], r)
    BY <2>1, <2>2 DEF RolesIn
  <2> QED
    BY <2>1, <2>2, <2>3
<1>4. ASSUME NEW k \in RolesIn(stack[t], r), k \in fns \/ (k = "Kick" /\ "DoWork" \in fns)
      PROVE  Within(t, r, fns)
  <2>1. PICK i \in 1 .. Len(stack[t]) : stack[t][i].r = r /\ Role(stack[t][i]) = k
    BY <1>4 DEF RolesIn
  <2>2. stack[t][i].fn \in Calls /\ "Kick" \notin Calls
    BY <1>2 DEF Frame, Calls
  <2>3. stack[t][i].fn \in fns
    BY <1>4, <2>1, <2>2 DEF Role
  <2> QED
    BY <1>2, <2>1, <2>3 DEF Within
<1> QED
  BY <1>3, <1>4

\* With a request that nobody watches or is to dereference, no thread has to do.
LEMMA NoRoles ==
  ASSUME TypeOK, ShapeInv, NEW t \in AllThreads, NEW r \in Req,
         \A j \in Watched : Holders(r)[j] = {}, Holders(r)["Deref"] = {}
  PROVE  RolesIn(stack[t], r) = {}
<1>1. SUFFICES ASSUME NEW k \in RolesIn(stack[t], r) PROVE FALSE
  OBVIOUS
<1>2. k \in Roles /\ t \in Holders(r)[k]
  BY <1>1 DEF RolesIn, Holders, HoldersOf
<1>3. k \in {"Count", "AddPending", "Adding"}
  BY <1>2, AllRoles
<1>4. PICK i \in 1 .. Len(stack[t]) : stack[t][i].r = r /\ Role(stack[t][i]) = k
  BY <1>1 DEF RolesIn
<1>5. stack[t][i].fn = k
  BY <1>3, <1>4 DEF Role
<1>6. stack[t][i].r \in Req <=> stack[t][i].fn \notin {"Count", "AddPending", "Adding"}
  BY <1>4 DEF ShapeInv, Shape
<1> QED
  BY <1>3, <1>4, <1>5, <1>6

LEMMA DeadAlone ==
  ASSUME NEW x \in Objects, NEW free \in BOOLEAN, NEW h \in HolderMaps,
         Sound(x, free, h), ~x.alive, h["Check"] = {}
  PROVE  h["Deref"] = {} /\ \A j \in Watched : h[j] = {}
<1>1. x._cRefs = 0 /\ Gone(h) = {} /\ Own(x, h) \in {0, 1}
  BY DEF Sound
<1>2. Cardinality(h["Deref"]) \in Nat /\ (Cardinality(h["Deref"]) = 0 <=> h["Deref"] = {})
  BY DerefCount
<1>3. Own(x, h) = 0 /\ h["Deref"] = {}
  <2>1. PICK a \in Nat, b \in Nat, c \in Nat, d \in Nat, n \in Nat :
          /\ a = Bit(x.io # "None") /\ b = Bit(x.core) /\ n = Cardinality(h["Deref"])
          /\ c = Bit(h["Receive"] # {}) /\ d = Bit(h["DoWork"] # {})
    <3>2. Bit(x.io # "None") \in Nat /\ Bit(x.core) \in Nat
      BY DEF Bit
    <3>3. Bit(h["Receive"] # {}) \in Nat /\ Bit(h["DoWork"] # {}) \in Nat
      BY DEF Bit
    <3> QED
      BY <1>2, <3>2, <3>3
  <2>3. Held(x, h) = a + b + n + c + d
    BY <2>1 DEF Held
  <2>2. Held(x, h) \in Nat /\ (Held(x, h) = 0 => Cardinality(h["Deref"]) = 0)
    <3>1. a + b + n + c + d \in Nat /\ (a + b + n + c + d = 0 => n = 0)
      OBVIOUS
    <3> QED
      BY <2>1, <2>3, <3>1
  <2> QED
    BY <1>1, <1>2, <2>2 DEF Own
<1>4. Drivers(h) = {}
  BY <1>3 DEF Sound, Busy
<1> QED
  BY <1>1, <1>3, <1>4 DEF Drivers, Gone, Watched, Driving

\* Unseen, but e calls have failed.
LEMMA SettlesFailing ==
  ASSUME Inv, NEW t \in AllThreads, NEW r \in Req, NEW ks, NEW to, Touches(t, r, ks, to),
         AddsStill(stack[t], stack'[t]), NEW e \in Nat, Counters(0, 0, e),
         NEW x, NEW h, NEW y, NEW g, Becomes(r, x, h, y, g),
         NEW free, free = (r \in pool'.sm_FreeList), Sound(y, free, g),
         Lives(y, g) <=> Lives(x, h), Waits(y, g) <=> Waits(x, h)
  PROVE  Rest'
<1>1. Bit(Lives(y, g)) = Bit(Lives(x, h)) /\ Bit(Waits(y, g)) = Bit(Waits(x, h))
  BY DEF Bit
<1>2. Bit(Lives(x, h)) \in Int /\ Bit(Waits(x, h)) \in Int
  BY DEF Bit
<1>3. /\ 0 = Bit(Lives(y, g)) - Bit(Lives(x, h))
      /\ 0 - (Bit(Waits(y, g)) - Bit(Waits(x, h))) \in 0 .. e
  BY <1>1, <1>2
<1>4. 0 \in Int
  OBVIOUS
<1> QED
  BY <1>3, <1>4, Settles, Zenon

\* A thread that adds a request, r.
LEMMA AddsCall ==
  ASSUME Inv, NEW t \in AllThreads, Is(t, "Adding"), NEW r \in Req, RolesIn(stack[t], r) = {},
         NEW n \in Int, n >= 0, NEW p,
         \/ p = <<Kick(r), Counted("Adding", Top(t).n - 1)>> \o Tail(stack[t])
         \/ p = <<Counted("Count", n), Kick(r), Counted("Adding", Top(t).n - 1)>> \o Tail(stack[t])
  PROVE  Rewrites(stack[t], p, r, {}, {"Kick"}) /\ AddsStill(stack[t], p)
<1>1. stack[t] \in Seq(Frame) /\ Shape(stack[t]) /\ stack[t] # <<>> /\ Head(stack[t]).fn = "Adding"
  BY Types DEF Inv, ShapeInv, Is, Idle, Top
<1>2. PICK m \in Int : m = Top(t).n - 1
  <2>1. Head(stack[t]) \in Frame
    BY <1>1, PopFacts
  <2> QED
    BY <2>1 DEF Frame, Top
<1>3. PICK k \in Frame : k = Kick(r) /\ k.r = r /\ Role(k) = "Kick"
  <2>1. Call("DoWork", r) \in Frame /\ Call("DoWork", r).fn = "DoWork" /\ Call("DoWork", r).r = r
        /\ Call("DoWork", r).res = "None"
    BY Frames DEF Calls
  <2> QED
    BY <2>1 DEF Kick, Role
<1>4. PICK a \in Frame : a = Counted("Adding", m) /\ a.fn = "Adding" /\ a.r = NoReq
  BY Frames DEF Calls
<1>5. PICK c \in Frame : c = Counted("Count", n) /\ c.fn = "Count" /\ c.r = NoReq /\ c.n >= 0
  BY Frames DEF Calls
<1>6. /\ Rewrites(stack[t], <<k, a>> \o Tail(stack[t]), r, {}, {"Kick"})
      /\ AddsStill(stack[t], <<k, a>> \o Tail(stack[t]))
      /\ Rewrites(stack[t], <<c, k, a>> \o Tail(stack[t]), r, {}, {"Kick"})
      /\ AddsStill(stack[t], <<c, k, a>> \o Tail(stack[t]))
  BY <1>1, <1>3, <1>4, <1>5, Adds
<1>7. p = <<k, a>> \o Tail(stack[t]) \/ p = <<c, k, a>> \o Tail(stack[t])
  BY <1>2, <1>3, <1>4, <1>5
<1> QED
  BY <1>6, <1>7

LEMMA AddFromFreeListRest ==
  ASSUME Inv, NEW t \in AllThreads, Is(t, "Adding"), AddFromFreeList(t)
  PROVE  Rest'
<1>1. PICK r \in pool.sm_FreeList :
        /\ pool' = [pool EXCEPT !.sm_FreeList = @ \ {r}]
        /\ Continue(t, <<Counted("Count", pool.sm_cFreeRequests - 1), Kick(r),
                         Counted("Adding", Top(t).n - 1)>>)
  BY DEF AddFromFreeList
<1>2. r \in Req /\ req' = req /\ wp' = wp /\ pool.sm_cFreeRequests \in Nat /\ pool.sm_cFreeRequests # 0
  BY DEF AddFromFreeList, OneIsFree, Inv, TypeOK
<1>3. PICK x \in Objects : x = req[r]
  BY <1>2, Types DEF Inv
<1>4. PICK n \in Int : n = pool.sm_cFreeRequests - 1 /\ n >= 0
  BY <1>2
<1>5. Sound(x, TRUE, Holders(r)) /\ Holders(r) \in HolderMaps
  <2>1. Sound(x, r \in pool.sm_FreeList, Holders(r))
    BY <1>2, <1>3 DEF Inv, SoundInv
  <2>2. (r \in pool.sm_FreeList) = TRUE
    OBVIOUS
  <2>3. Sound(x, TRUE, Holders(r))
    BY <2>1, <2>2, Zenon
  <2>4. Holders(r) \in HolderMaps
    BY DEF Holders, HoldersOf, HolderMaps
  <2> QED
    BY <2>3, <2>4
<1>6. x._ExecState = "START" /\ Holders(r)["Deref"] = {} /\ \A j \in Watched : Holders(r)[j] = {}
  BY <1>5, ListedAlone
<1>7. RolesIn(stack[t], r) = {}
  BY <1>2, <1>6, NoRoles DEF Inv
<1>8. PICK p : p = <<Counted("Count", n), Kick(r), Counted("Adding", Top(t).n - 1)>> \o Tail(stack[t])
  OBVIOUS
<1>9. Rewrites(stack[t], p, r, {}, {"Kick"}) /\ AddsStill(stack[t], p)
  BY <1>2, <1>4, <1>7, <1>8, AddsCall
<1>10. pool'.sm_FreeList = pool.sm_FreeList \ {r} /\ Counters(0, 0, 0)
  BY <1>1, <1>2 DEF Counters, Inv, TypeOK
<1>11. Writes(t, r, p, x)
  <2>1. stack' = [stack EXCEPT ![t] = p]
    BY <1>1, <1>4, <1>8 DEF Continue
  <2>2. req' = [req EXCEPT ![r] = x]
    BY <1>2, <1>3, Unwritten
  <2> QED
    BY <1>10, <2>1, <2>2 DEF Writes
<1>12. PICK ks, to : ks = {} /\ to = {"Kick"}
  OBVIOUS
<1>13. PICK s : s = stack[t]
  OBVIOUS
<1>14. Rewrites(s, p, r, ks, to) /\ AddsStill(s, p)
  BY <1>9, <1>12, <1>13
<1>15. Touches(t, r, ks, to) /\ AddsStill(stack[t], stack'[t]) /\ x = req[r] /\ x = req'[r]
  BY <1>2, <1>3, <1>11, <1>13, <1>14, OuterSeen
<1>16. PICK h \in HolderMaps, g \in HolderMaps, free \in BOOLEAN : Seen(r, x, h, x, g, free, t, ks, to)
  BY <1>2, <1>15, SeenOf
<1>17. Becomes(r, x, h, x, g) /\ Moved(h, g, t, {"Kick"})
  BY <1>12, <1>16 DEF Seen
<1>18. Sound(x, TRUE, h)
  BY <1>5, <1>17 DEF Becomes
<1>19. Sound(x, FALSE, g) /\ DrivenBy(x, g, t, "Kick") /\ Lives(x, h) /\ ~Waits(x, h)
  BY <1>17, <1>18, TakenFromList
<1>20. Lives(x, g) /\ ~Waits(x, g)
  <2>1. "Kick" \in Driving
    BY DEF Driving
  <2>2. Lives(x, g) /\ (Waits(x, g) <=> "Kick" = "Receive" \/ (x._ExecState = "READ" /\ "Kick" # "Free"))
    BY <1>19, <2>1, DrivenCounts
  <2> QED
    BY <1>6, <2>2
<1>21. FALSE = (r \in pool'.sm_FreeList)
  BY <1>10
<1> QED
  BY <1>2, <1>10, <1>15, <1>17, <1>19, <1>20, <1>21, SettlesUnseen

LEMMA AddAllocatedRest ==
  ASSUME Inv, ~StaleReuse, NEW t \in AllThreads, Is(t, "Adding"), AddAllocated(t)
  PROVE  Rest'
<1>1. PICK r \in Req :
        /\ Allocatable(r) /\ req' = [req EXCEPT ![r] = NewRequest]
        /\ Continue(t, <<Kick(r), Counted("Adding", Top(t).n - 1)>>)
  BY DEF AddAllocated
<1>2. PICK x \in Objects : x = req[r] /\ ~x.alive
  BY <1>1, Types DEF Inv, Allocatable
<1>3. PICK y \in Objects : /\ y = NewRequest /\ y.alive /\ y._cRefs = 1 /\ ~y.core /\ y.io = "None"
                           /\ y._ExecState = "START"
  <2>1. NewRequest \in Objects
    BY DEF NewRequest, Objects, ExecState
  <2>2. NewRequest.alive /\ NewRequest._cRefs = 1 /\ ~NewRequest.core /\ NewRequest.io = "None"
        /\ NewRequest._ExecState = "START"
    BY DEF NewRequest
  <2> QED
    BY <2>1, <2>2
<1>4. PICK h0 \in HolderMaps, f0 \in BOOLEAN : h0 = Holders(r) /\ f0 = (r \in pool.sm_FreeList)
  <2>1. Holders(r) \in HolderMaps
    BY DEF Holders, HoldersOf, HolderMaps
  <2>2. (r \in pool.sm_FreeList) \in BOOLEAN
    OBVIOUS
  <2> QED
    BY <2>1, <2>2
<1>5. Sound(x, f0, h0)
  <2>1. Sound(req[r], r \in pool.sm_FreeList, Holders(r))
    BY DEF Inv, SoundInv
  <2> QED
    BY <1>2, <1>4, <2>1, Zenon
<1>6. h0["Check"] = {}
  <2>1. \A u \in AllThreads : ~Within(u, r, {"Check"})
    BY <1>1 DEF Allocatable
  <2>2. \A u \in AllThreads : "Check" \notin RolesIn(stack[u], r)
    <3>1. TAKE u \in AllThreads
    <3>2. PICK fns \in SUBSET Calls : fns = {"Check"}
      BY DEF Calls
    <3>3. ~Within(u, r, fns)
      BY <2>1, <3>2
    <3>4. \A k \in RolesIn(stack[u], r) : k \notin fns
      BY <3>3, WithinRoles DEF Inv
    <3> QED
      BY <3>2, <3>4
  <2>3. "Check" \in Roles
    BY DEF Roles, Calls
  <2> QED
    BY <1>4, <2>2, <2>3 DEF Holders, HoldersOf
<1>7. h0["Deref"] = {} /\ \A j \in Watched : h0[j] = {}
  BY <1>2, <1>5, <1>6, DeadAlone
<1>8. RolesIn(stack[t], r) = {}
  BY <1>4, <1>7, NoRoles DEF Inv
<1>9. PICK p : p = <<Kick(r), Counted("Adding", Top(t).n - 1)>> \o Tail(stack[t])
  OBVIOUS
<1>10. Rewrites(stack[t], p, r, {}, {"Kick"}) /\ AddsStill(stack[t], p)
  <2>1. PICK n \in Int : n >= 0
    OBVIOUS
  <2> QED
    BY <1>8, <1>9, <2>1, AddsCall
<1>11. wp' = wp /\ pool'.sm_FreeList = pool.sm_FreeList /\ Counters(1, 0, 0)
  BY DEF AddAllocated, Counters, Inv, TypeOK
<1>12. Writes(t, r, p, y)
  BY <1>1, <1>3, <1>9, <1>11 DEF Writes, Continue
<1>13. PICK ks, to, s : ks = {} /\ to = {"Kick"} /\ s = stack[t]
  OBVIOUS
<1>14. Rewrites(s, p, r, ks, to) /\ AddsStill(s, p) /\ s = stack[t] /\ x = req[r]
  BY <1>2, <1>10, <1>13
<1>15. Touches(t, r, ks, to) /\ AddsStill(stack[t], stack'[t]) /\ x = req[r] /\ y = req'[r]
  BY <1>12, <1>14, OuterSeen
<1>16. PICK h \in HolderMaps, g \in HolderMaps, free \in BOOLEAN : Seen(r, x, h, y, g, free, t, ks, to)
  BY <1>15, SeenOf
<1>17. Becomes(r, x, h, y, g) /\ Moved(h, g, t, {"Kick"}) /\ Sound(x, free, h) /\ free = (r \in pool.sm_FreeList)
  BY <1>13, <1>16 DEF Seen
<1>18. h["Check"] = {}
  BY <1>4, <1>6, <1>17 DEF Becomes
<1>19. Sound(y, free, g) /\ DrivenBy(y, g, t, "Kick") /\ ~Lives(x, h) /\ ~Waits(x, h)
  BY <1>2, <1>3, <1>17, <1>18, AllocatedSound
<1>20. Lives(y, g) /\ ~Waits(y, g)
  <2>1. "Kick" \in Driving
    BY DEF Driving
  <2>2. Lives(y, g) /\ (Waits(y, g) <=> "Kick" = "Receive" \/ (y._ExecState = "READ" /\ "Kick" # "Free"))
    BY <1>19, <2>1, DrivenCounts
  <2> QED
    BY <1>3, <2>2
<1>21. /\ 1 = Bit(Lives(y, g)) - Bit(Lives(x, h))
       /\ 0 - (Bit(Waits(y, g)) - Bit(Waits(x, h))) \in 0 .. 0
  <2>1. Bit(Lives(y, g)) = 1 /\ Bit(Lives(x, h)) = 0 /\ Bit(Waits(y, g)) = 0 /\ Bit(Waits(x, h)) = 0
    BY <1>19, <1>20 DEF Bit
  <2> QED
    BY <2>1
<1>22. free = (r \in pool'.sm_FreeList)
  BY <1>11, <1>17, Zenon
<1>23. 1 \in Int /\ 0 \in Int /\ 0 \in Nat
  OBVIOUS
<1> QED
  BY <1>11, <1>15, <1>17, <1>19, <1>21, <1>22, <1>23, Settles, Zenon

LEMMA AddOneRest ==
  ASSUME Inv, ~StaleReuse, NEW t \in AllThreads, AddOne(t)
  PROVE  Rest'
BY AddFromFreeListRest, AddAllocatedRest, AddFailedRest DEF AddOne

\* A thread that has nothing to do begins a call f for request r, and r becomes y.
Starts(t, r, f, y) ==
  /\ Idle(t) /\ stack' = [stack EXCEPT ![t] = <<f>>] /\ req' = [req EXCEPT ![r] = y]
  /\ \A u \in Req \ {r} : u \in pool'.sm_FreeList <=> u \in pool.sm_FreeList

LEMMA BeginsCall ==
  ASSUME Inv, NEW t \in AllThreads, NEW r \in Req, NEW f \in Frame, f.r = r,
         f.fn \notin Plain, f.fn \notin Inner, NEW y \in Objects, Starts(t, r, f, y),
         NEW ks, NEW to, ks = {}, to = {Role(f)}
  PROVE  Touches(t, r, ks, to) /\ AddsStill(stack[t], stack'[t]) /\ y = req'[r]
<1>1. PICK p : p = <<f>>
  OBVIOUS
<1>2. PICK s : s = stack[t]
  OBVIOUS
<1>3. Rewrites(<<>>, <<f>>, r, {}, {Role(f)}) /\ AddsStill(<<>>, <<f>>)
  BY Begins
<1>4. Rewrites(s, p, r, ks, to) /\ AddsStill(s, p)
  BY <1>1, <1>2, <1>3 DEF Starts, Idle
<1>5. Writes(t, r, p, y)
  BY <1>1 DEF Starts, Writes
<1>6. PICK x \in Objects : x = req[r]
  BY Types DEF Inv
<1> QED
  BY <1>2, <1>4, <1>5, <1>6, OuterSeen

LEMMA CompletionRest ==
  ASSUME Inv, NEW t \in Thread, NEW r \in Req, OverlappedCompletionRoutine(t, r)
  PROVE  Rest'
<1>1. PICK res \in {"Ok", "MoreData", "Error"} :
        /\ Idle(t) /\ Completes(r, res)
        /\ req' = [req EXCEPT ![r].io = "None"]
        /\ stack' = [stack EXCEPT ![t] = <<[Kick(r) EXCEPT !.res = res]>>]
        /\ IF res = "Error" /\ wp.handle = "open" THEN Failed ELSE UNCHANGED wp
        /\ UNCHANGED <<pool, main>>
  BY DEF OverlappedCompletionRoutine
<1>2. t \in AllThreads
  BY DEF AllThreads
<1>3. PICK x \in Objects : x = req[r] /\ x.io # "None"
  BY <1>1, Types DEF Inv, Completes
<1>4. PICK y \in Objects :
        /\ y = [x EXCEPT !.io = "None"] /\ y.io = "None"
        /\ y.alive = x.alive /\ y._ExecState = x._ExecState /\ y._cRefs = x._cRefs /\ y.core = x.core
  <2>1. PICK i \in {"None", "Receive", "Call"} : i = "None"
    OBVIOUS
  <2>2. PICK y \in Objects :
          /\ y = [x EXCEPT !.io = i]
          /\ y.alive = x.alive /\ y._ExecState = x._ExecState /\ y._cRefs = x._cRefs /\ y.io = i /\ y.core = x.core
    BY UpdateIo
  <2> QED
    BY <2>1, <2>2
<1>5. PICK f \in Frame : f = [Kick(r) EXCEPT !.res = res] /\ f.r = r /\ f.fn = "DoWork" /\ f.res = res
  <2> DEFINE z == [Kick(r) EXCEPT !.res = res]
  <2>1. z \in Frame /\ z.r = r /\ z.fn = "DoWork" /\ z.res = res
    <3>1. z = [fn |-> "DoWork", r |-> r, n |-> 0, res |-> res]
      BY DEF Kick, Call
    <3> QED
      BY <3>1 DEF Frame, Calls
  <2> QED
    BY <2>1
<1>6. Role(f) = "DoWork" /\ f.fn \notin Plain /\ f.fn \notin Inner
  BY <1>5 DEF Role, Plain, Inner
<1>7. pool' = pool /\ pool'.sm_FreeList = pool.sm_FreeList
  BY <1>1
<1>8. PICK e \in Nat : wp'.faults = wp.faults - e
  <2>1. wp.faults \in Nat /\ wp.faults = wp.faults - 0
    BY DEF Inv, TypeOK
  <2>2. CASE wp' = wp
    BY <2>1, <2>2
  <2>3. CASE Failed
    BY <2>3 DEF Failed, Inv, TypeOK
  <2> QED
    BY <1>1, <2>2, <2>3
<1>9. Counters(0, 0, e)
  BY <1>7, <1>8 DEF Counters, Inv, TypeOK
<1>10. PICK ks, to : ks = {} /\ to = {Role(f)}
  OBVIOUS
<1>11. Starts(t, r, f, y)
  BY <1>1, <1>3, <1>4, <1>5, <1>7 DEF Starts
<1>13. Touches(t, r, ks, to) /\ AddsStill(stack[t], stack'[t]) /\ y = req'[r]
  BY <1>2, <1>5, <1>6, <1>10, <1>11, BeginsCall, ZenonT(40)
<1>14. PICK h \in HolderMaps, g \in HolderMaps, free \in BOOLEAN : Seen(r, x, h, y, g, free, t, ks, to)
  BY <1>2, <1>3, <1>13, SeenOf
<1>15. /\ Becomes(r, x, h, y, g) /\ Sound(x, free, h) /\ Only(h, t, {}) /\ Moved(h, g, t, {"DoWork"})
       /\ free = (r \in pool.sm_FreeList)
  BY <1>6, <1>10, <1>14 DEF Seen
<1>16. /\ y.io = "None" /\ y._cRefs = x._cRefs /\ y._ExecState = x._ExecState
       /\ (y.alive <=> x.alive) /\ (y.core <=> x.core) /\ x.io # "None"
  BY <1>3, <1>4
<1>17. /\ Sound(y, free, g) /\ DrivenBy(y, g, t, "DoWork")
       /\ Lives(x, h) /\ (Waits(x, h) <=> x.io = "Receive")
       /\ (x.io = "Receive" <=> x._ExecState = "READ")
  BY <1>2, <1>15, <1>16, CompletedSound
<1>18. Lives(y, g) /\ (Waits(y, g) <=> y._ExecState = "READ")
  <2>1. "DoWork" \in Driving
    BY DEF Driving
  <2>2. Lives(y, g) /\ (Waits(y, g) <=> "DoWork" = "Receive" \/ (y._ExecState = "READ" /\ "DoWork" # "Free"))
    BY <1>2, <1>17, <2>1, DrivenCounts
  <2> QED
    BY <2>2
<1>19. (Lives(y, g) <=> Lives(x, h)) /\ (Waits(y, g) <=> Waits(x, h))
  BY <1>16, <1>17, <1>18
<1>20. free = (r \in pool'.sm_FreeList)
  BY <1>7, <1>15, Zenon
<1> QED
  BY <1>2, <1>9, <1>13, <1>15, <1>17, <1>19, <1>20, SettlesFailing

\* The core has the request, and nobody drives it.
LEMMA CoreHasIt ==
  ASSUME Inv, NEW r \in Req, CoreHas(r)
  PROVE  Holders(r)["Kick"] = {} /\ Holders(r)["DoWork"] = {} /\ Holders(r)["Loop"] = {}
<1>1. \A u \in AllThreads : RolesIn(stack[u], r) \cap {"Kick", "DoWork", "Loop"} = {}
  <2>1. TAKE u \in AllThreads
  <2>2. PICK fns \in SUBSET Calls : fns = {"DoWork", "Loop"}
    BY DEF Calls
  <2>3. ~Within(u, r, fns)
    BY <2>2 DEF CoreHas
  <2>4. \A k \in RolesIn(stack[u], r) : ~(k \in fns \/ (k = "Kick" /\ "DoWork" \in fns))
    BY <2>3, WithinRoles DEF Inv
  <2> QED
    BY <2>2, <2>4
<1>2. "Kick" \in Roles /\ "DoWork" \in Roles /\ "Loop" \in Roles
  BY DEF Roles, Calls
<1> QED
  BY <1>1, <1>2 DEF Holders, HoldersOf

LEMMA CoreCallsRest ==
  ASSUME Inv, NEW t \in Thread, NEW r \in Req, Idle(t), CoreHas(r), CoreCalls(r, 0),
         stack' = stack, pool' = pool, wp' = wp
  PROVE  Rest'
<1>1. t \in AllThreads
  BY DEF AllThreads
<1>2. PICK x \in Objects : x = req[r] /\ x.core /\ x.io = "None" /\ x._cRefs \in Nat
  BY Types DEF Inv, CoreHas, Objects
<1>3. PICK n \in Nat : n = x._cRefs + 0 + 1
  BY <1>2
<1>4. PICK e \in ExecState :
          /\ e \in {"PROCESS", "CLIENT_CERT"}
          /\ req' = [req EXCEPT ![r]._ExecState = e, ![r].core = TRUE,
                                ![r].io = "Call", ![r]._cRefs = @ + 0 + 1]
  BY DEF CoreCalls, ExecState
<1>5. PICK y \in Objects :
         /\ y = Called(x, e, n)
         /\ y.alive = x.alive /\ y._ExecState = e /\ y._cRefs = n /\ y.io = "Call" /\ y.core
  BY UpdateCalled
<1>6. req' = [req EXCEPT ![r] = y]
  BY <1>2, <1>3, <1>4, <1>5 DEF Called
<1>7. pool'.sm_FreeList = pool.sm_FreeList
  OBVIOUS
<1>8. PICK s, p, ks, to : s = stack[t] /\ p = <<>> /\ ks = {} /\ to = {}
  OBVIOUS
<1>9. Writes(t, r, p, y)
  <2>1. stack' = [stack EXCEPT ![t] = p]
    BY <1>1, <1>8, Types DEF Inv, Idle
  <2> QED
    BY <1>6, <1>7, <2>1 DEF Writes
<1>10. Rewrites(s, p, r, ks, to) /\ AddsStill(s, p)
  BY <1>8, RolesEmpty, ShapeEmpty DEF Rewrites, AddsStill, Idle
<1>11. Touches(t, r, ks, to) /\ AddsStill(stack[t], stack'[t]) /\ x = req[r] /\ y = req'[r]
  BY <1>1, <1>2, <1>8, <1>9, <1>10, OuterSeen, ZenonT(40)
<1>12. PICK h \in HolderMaps, g \in HolderMaps, free \in BOOLEAN : Seen(r, x, h, y, g, free, t, ks, to)
  BY <1>1, <1>11, SeenOf
<1>13. Becomes(r, x, h, y, g) /\ Sound(x, free, h) /\ free = (r \in pool.sm_FreeList)
  BY <1>12 DEF Seen
<1>14. h = g /\ h["Kick"] = {} /\ h["DoWork"] = {} /\ h["Loop"] = {}
  <2>1. h = Holders(r) /\ g = Holders(r)'
    BY <1>13 DEF Becomes
  <2>2. Holders(r)' = Holders(r)
    BY DEF Holders, HoldersOf, RolesIn, Role, Roles, Calls, AllThreads
  <2> QED
    BY <2>1, <2>2, CoreHasIt
<1>15. /\ y._cRefs = x._cRefs + 1 /\ y.io = "Call" /\ y._ExecState \in {"PROCESS", "CLIENT_CERT"}
       /\ (y.alive <=> x.alive) /\ y.core
  BY <1>2, <1>3, <1>4, <1>5
<1>16. Sound(y, free, h) /\ Lives(x, h) /\ Lives(y, h) /\ ~Waits(x, h) /\ ~Waits(y, h)
  BY <1>2, <1>13, <1>14, <1>15, CoreCallsSound
<1>17. Sound(y, free, g) /\ Lives(y, g) /\ ~Waits(y, g)
  BY <1>14, <1>16
<1>18. Counters(0, 0, 0)
  BY DEF Counters, Inv, TypeOK
<1>19. free = (r \in pool'.sm_FreeList)
  BY <1>7, <1>13, Zenon
<1> QED
  BY <1>1, <1>11, <1>13, <1>16, <1>17, <1>18, <1>19, SettlesUnseen

LEMMA CoreLetsGoRest ==
  ASSUME Inv, NEW t \in Thread, NEW r \in Req, Idle(t), CoreHas(r),
         req' = [req EXCEPT ![r].core = FALSE],
         stack' = [stack EXCEPT ![t] = <<Call("Deref", r)>>], pool' = pool, wp' = wp
  PROVE  Rest'
<1>1. t \in AllThreads
  BY DEF AllThreads
<1>2. PICK x \in Objects : x = req[r] /\ x.core /\ x.io = "None"
  BY Types DEF Inv, CoreHas
<1>3. PICK y \in Objects :
        /\ y = [x EXCEPT !.core = FALSE]
        /\ y.alive = x.alive /\ y._ExecState = x._ExecState /\ y._cRefs = x._cRefs /\ y.io = x.io /\ ~y.core
  <2>1. PICK c \in BOOLEAN : c = FALSE
    OBVIOUS
  <2>2. PICK y \in Objects :
           /\ y = [x EXCEPT !.core = c]
           /\ y.alive = x.alive /\ y._ExecState = x._ExecState /\ y._cRefs = x._cRefs /\ y.io = x.io /\ y.core = c
    BY UpdateCoreOnly
  <2> QED
    BY <2>1, <2>2
<1>4. PICK f \in Frame : f = Call("Deref", r) /\ f.r = r /\ f.fn = "Deref"
  BY Frames DEF Calls
<1>5. Role(f) = "Deref" /\ f.fn \notin Plain /\ f.fn \notin Inner
  BY <1>4 DEF Role, Plain, Inner
<1>6. PICK ks, to : ks = {} /\ to = {Role(f)}
  OBVIOUS
<1>8. pool'.sm_FreeList = pool.sm_FreeList
  OBVIOUS
<1>7. Starts(t, r, f, y)
  BY <1>2, <1>3, <1>4, <1>8 DEF Starts
<1>9. Touches(t, r, ks, to) /\ AddsStill(stack[t], stack'[t]) /\ y = req'[r]
  BY <1>1, <1>4, <1>5, <1>6, <1>7, BeginsCall, ZenonT(40)
<1>10. PICK h \in HolderMaps, g \in HolderMaps, free \in BOOLEAN : Seen(r, x, h, y, g, free, t, ks, to)
  BY <1>1, <1>2, <1>9, SeenOf
<1>11. /\ Becomes(r, x, h, y, g) /\ Sound(x, free, h) /\ Only(h, t, {}) /\ Moved(h, g, t, {"Deref"})
       /\ free = (r \in pool.sm_FreeList)
  BY <1>5, <1>6, <1>10 DEF Seen
<1>12. h["Kick"] = {} /\ h["DoWork"] = {} /\ h["Loop"] = {}
  BY <1>11, CoreHasIt DEF Becomes
<1>13. /\ (y.alive <=> x.alive) /\ y._cRefs = x._cRefs /\ ~y.core /\ y.io = "None"
       /\ y._ExecState = x._ExecState /\ x.core /\ x.io = "None"
  BY <1>2, <1>3
<1>14. Sound(y, free, g) /\ Lives(x, h) /\ Lives(y, g) /\ ~Waits(x, h) /\ ~Waits(y, g)
  BY <1>1, <1>11, <1>12, <1>13, CoreLetsGo
<1>15. Counters(0, 0, 0)
  BY DEF Counters, Inv, TypeOK
<1>16. free = (r \in pool'.sm_FreeList)
  BY <1>8, <1>11, Zenon
<1> QED
  BY <1>1, <1>9, <1>11, <1>14, <1>15, <1>16, SettlesUnseen

LEMMA CoreRest ==
  ASSUME Inv, NEW t \in Thread, NEW r \in Req, CoreContinues(t, r)
  PROVE  Rest'
BY CoreCallsRest, CoreLetsGoRest DEF CoreContinues

LEMMA ReleaseFreeRest ==
  ASSUME Inv, ReleaseFree
  PROVE  Rest'
<1>1. PICK r \in pool.sm_FreeList :
        /\ pool' = [pool EXCEPT !.sm_FreeList = @ \ {r}]
        /\ stack' = [stack EXCEPT ![Main] = <<Call("Deref", r)>>]
  BY DEF ReleaseFree
<1>2. r \in Req /\ req' = req /\ wp' = wp /\ Main \in AllThreads /\ Idle(Main)
  BY DEF ReleaseFree, Inv, TypeOK, AllThreads, At
<1>3. PICK x \in Objects : x = req[r]
  BY <1>2, Types DEF Inv
<1>4. PICK f \in Frame : f = Call("Deref", r) /\ f.r = r /\ f.fn = "Deref"
  BY <1>2, Frames DEF Calls
<1>5. Role(f) = "Deref" /\ f.fn \notin Plain /\ f.fn \notin Inner
  BY <1>4 DEF Role, Plain, Inner
<1>6. PICK ks, to : ks = {} /\ to = {Role(f)}
  OBVIOUS
<1>7. req' = [req EXCEPT ![r] = x]
  BY <1>2, <1>3, Unwritten
<1>8. pool'.sm_FreeList = pool.sm_FreeList \ {r} /\ Counters(0, 0, 0)
  BY <1>1, <1>2 DEF Counters, Inv, TypeOK
<1>a. Starts(Main, r, f, x)
  BY <1>1, <1>2, <1>4, <1>7, <1>8 DEF Starts
<1>9. Touches(Main, r, ks, to) /\ AddsStill(stack[Main], stack'[Main]) /\ x = req'[r]
  BY <1>2, <1>4, <1>5, <1>6, <1>a, BeginsCall
<1>10. PICK h \in HolderMaps, g \in HolderMaps, free \in BOOLEAN : Seen(r, x, h, x, g, free, Main, ks, to)
  BY <1>2, <1>3, <1>9, SeenOf
<1>11. /\ Becomes(r, x, h, x, g) /\ Sound(x, free, h) /\ Moved(h, g, Main, {"Deref"})
       /\ free = (r \in pool.sm_FreeList)
  BY <1>5, <1>6, <1>10 DEF Seen
<1>12. free = TRUE
  BY <1>11
<1>13. Sound(x, TRUE, h)
  BY <1>11, <1>12
<1>14. Sound(x, FALSE, g) /\ Lives(x, h) /\ Lives(x, g) /\ ~Waits(x, h) /\ ~Waits(x, g)
  BY <1>2, <1>11, <1>13, DroppedFromList
<1>15. FALSE = (r \in pool'.sm_FreeList)
  BY <1>8
<1> QED
  BY <1>2, <1>8, <1>9, <1>11, <1>14, <1>15, SettlesUnseen

-----------------------------------------------------------------------------
(***************************************************************************)
(* The whole process.                                                      *)
(***************************************************************************)
\* Steps of the timers, of messages and of the main thread touch neither requests nor calls.
LEMMA QuietRest ==
  ASSUME Inv, req' = req, stack' = stack, pool' = pool, NEW e \in Nat, wp'.faults = wp.faults - e
  PROVE  Rest'
<1>1. Main \in AllThreads
  BY DEF AllThreads
<1>2. stack[Main] \in Seq(Frame) /\ Shape(stack[Main]) /\ stack' = [stack EXCEPT ![Main] = stack[Main]]
  BY <1>1, Types DEF Inv, ShapeInv
<1>3. PICK p : p = stack[Main]
  OBVIOUS
<1>4. PlainStep(Main, p, e) /\ pool'.sm_fAddingRequests = pool.sm_fAddingRequests
  BY <1>2, <1>3 DEF PlainStep
<1>5. AddsStill(stack[Main], p)
  BY <1>3 DEF AddsStill
<1>6. AddInv'
  BY <1>1, <1>4, <1>5, AddsAsBefore
<1> QED
  BY <1>1, <1>4, <1>6, PlainRest

LEMMA FailedQuiet ==
  ASSUME Inv, req' = req, stack' = stack, pool' = pool,
         wp'.faults = wp.faults \/ wp'.faults = wp.faults - 1
  PROVE  Rest'
<1>1. wp.faults \in Nat
  BY DEF Inv, TypeOK
<1>2. PICK e \in Nat : wp'.faults = wp.faults - e
  BY <1>1
<1> QED
  BY <1>2, QuietRest

LEMMA ThreadRest ==
  ASSUME Inv, ~StaleReuse, NEW t \in AllThreads, ThreadStep(t)
  PROVE  Rest'
<1>1. \/ DoWork(t) \/ DoStateStart(t) \/ Receive(t) \/ DoStateRead(t)
      \/ DoStateProcess(t) \/ DoStateClientCertificate(t) \/ DoStateError(t)
      \/ DereferenceWorkerRequest(t) \/ CheckState(t) \/ FreeWorkerRequest(t)
      \/ CountFree(t) \/ RemoveFromRequestList(t) \/ ReleaseMemory(t)
      \/ AddPendingRequests(t) \/ AddOne(t) \/ AddDone(t)
  BY DEF ThreadStep
<1> QED
  BY <1>1, DoWorkRest, StartRest, ReceiveRest, ReadRest, ProcessRest, ErrorRest, DerefRest,
     CheckRest, FreeRest, CountRest, DeleteRest, ReleaseRest, AddPendingRest, AddOneRest, AddDoneRest

LEMMA MainRest ==
  ASSUME Inv, MainStep
  PROVE  Rest'
<1>0. wp.faults \in Nat /\ wp \in [_fShutdown : BOOLEAN,
             _fImmediateShutdown : {"garbage", "yes", "no"},
             handle : {"open", "shutdown", "closed"}, monitor : BOOLEAN,
             idle : BOOLEAN, _BusySignal : BOOLEAN, _CurrentIdleTick : Nat,
             read : Int, sent : SUBSET {"Idle", "Restart"}, sm_cOutstanding : Nat,
             faults : Nat]
  BY DEF Inv, TypeOK
<1>1. CASE StartTimers
  <2>1. req' = req /\ stack' = stack /\ pool' = pool /\ (wp'.faults = wp.faults \/ wp'.faults = wp.faults - 1)
    BY <1>0, <1>1 DEF StartTimers
  <2> QED
    BY <2>1, FailedQuiet
<1>2. CASE RunMainThreadLoop \/ WaitForOutstandingDisconnects
  <2>1. req' = req /\ stack' = stack /\ pool' = pool /\ wp'.faults = wp.faults
    BY <1>2 DEF RunMainThreadLoop, WaitForOutstandingDisconnects
  <2> QED
    BY <2>1, FailedQuiet
<1>3. CASE StopListening \/ StopPendingRequestsMonitor \/ AllReleased \/ Terminate
  <2>1. req' = req /\ stack' = stack /\ pool' = pool /\ wp'.faults = wp.faults
    BY <1>0, <1>3 DEF StopListening, StopPendingRequestsMonitor, AllReleased, Terminate
  <2> QED
    BY <2>1, FailedQuiet
<1>4. CASE ReleaseFree
  BY <1>4, ReleaseFreeRest
<1> QED
  BY <1>1, <1>2, <1>3, <1>4 DEF MainStep

LEMMA NextRest ==
  ASSUME Inv, ~StaleReuse, Next
  PROVE  Rest'
<1>0. wp.faults \in Nat /\ wp \in [_fShutdown : BOOLEAN,
             _fImmediateShutdown : {"garbage", "yes", "no"},
             handle : {"open", "shutdown", "closed"}, monitor : BOOLEAN,
             idle : BOOLEAN, _BusySignal : BOOLEAN, _CurrentIdleTick : Nat,
             read : Int, sent : SUBSET {"Idle", "Restart"}, sm_cOutstanding : Nat,
             faults : Nat]
  BY DEF Inv, TypeOK
<1>1. CASE Ended
  <2>1. req' = req /\ stack' = stack /\ pool' = pool /\ wp'.faults = wp.faults
    BY <1>1 DEF Ended, vars
  <2> QED
    BY <2>1, FailedQuiet
<1>2. CASE \E t \in AllThreads : ThreadStep(t)
  BY <1>2, ThreadRest
<1>3. CASE \E t \in Thread, r \in Req : OverlappedCompletionRoutine(t, r) \/ CoreContinues(t, r)
  BY <1>3, CompletionRest, CoreRest
<1>4. CASE PendingRequestsMonitorHandler
  BY <1>4, MonitorRest
<1>5. CASE \/ IdleTimeCheckCallback \/ IncrementTick
           \/ \E immediate \in {"yes", "no"} : IndicateShutdown(immediate)
           \/ \E r \in Req : WaitForDisconnect(r)
           \/ Disconnected
  <2>1. req' = req /\ stack' = stack /\ pool' = pool /\ wp'.faults = wp.faults
    BY <1>0, <1>5 DEF IdleTimeCheckCallback, IncrementTick, IndicateShutdown, WaitForDisconnect, Disconnected
  <2> QED
    BY <2>1, FailedQuiet
<1>6. CASE MainStep
  BY <1>6, MainRest
<1> QED
  BY <1>1, <1>2, <1>3, <1>4, <1>5, <1>6 DEF Next

-----------------------------------------------------------------------------
(***************************************************************************)
(* The types of everything else.                                           *)
(***************************************************************************)
PoolRecord == [settings : Settings, sm_cRequests : Int,
               sm_cRequestsPending : Int, sm_cRequestsServed : Nat,
               sm_fAddingRequests : BOOLEAN, sm_cFreeRequests : Nat,
               sm_FreeList : SUBSET Req]
WpRecord == [_fShutdown : BOOLEAN,
             _fImmediateShutdown : {"garbage", "yes", "no"},
             handle : {"open", "shutdown", "closed"}, monitor : BOOLEAN,
             idle : BOOLEAN, _BusySignal : BOOLEAN, _CurrentIdleTick : Nat,
             read : Int, sent : SUBSET {"Idle", "Restart"}, sm_cOutstanding : Nat,
             faults : Nat]
Places == {"Start", "Listening", "StopListening", "StopMonitor", "Release",
           "Disconnects", "Terminate", "Done"}

LEMMA OthersNow ==
  ASSUME Inv
  PROVE  /\ pool \in PoolRecord /\ wp \in WpRecord /\ main \in Places
         /\ pool.settings.idleTime \in Nat /\ pool.settings.desired \in Nat
<1>1. pool \in [settings : Settings, sm_cRequests : Nat,
               sm_cRequestsPending : Nat, sm_cRequestsServed : Nat,
               sm_fAddingRequests : BOOLEAN, sm_cFreeRequests : Nat,
               sm_FreeList : SUBSET Req]
      /\ wp \in WpRecord /\ main \in Places
  BY DEF Inv, TypeOK, WpRecord, Places
<1>2. pool \in PoolRecord
  BY <1>1 DEF PoolRecord
<1>3. pool.settings \in Setting
  BY <1>1, SettingsAssumption
<1> QED
  BY <1>1, <1>2, <1>3 DEF Setting

LEMMA OthersFollow ==
  ASSUME pool' \in PoolRecord, wp' \in WpRecord, main' \in Places
  PROVE  Others'
BY DEF Others, PoolRecord, WpRecord, Places

\* A failure is met only where one is left to be met.
LEMMA FailedTyped ==
  ASSUME wp \in WpRecord, NEW f, CanFail(f), Failed
  PROVE  wp' \in WpRecord
<1>1. wp.faults - 1 \in Nat
  BY DEF WpRecord, CanFail
<1> QED
  BY <1>1 DEF WpRecord, Failed

LEMMA StateMachineOthers ==
  ASSUME Inv, NEW t \in AllThreads,
         \/ DoWork(t) \/ DoStateStart(t) \/ Receive(t) \/ DoStateRead(t)
         \/ DoStateProcess(t) \/ DoStateClientCertificate(t) \/ DoStateError(t)
  PROVE  Others'
<1>0. pool \in PoolRecord /\ wp \in WpRecord /\ main \in Places
  BY OthersNow
<1>1. CASE DoWork(t) \/ DoStateClientCertificate(t) \/ DoStateError(t)
  <2>1. pool' = pool /\ wp' = wp /\ main' = main
    BY <1>1 DEF DoWork, DoStateClientCertificate, DoStateError
  <2> QED
    BY <1>0, <2>1, OthersFollow
<1>2. CASE DoStateStart(t)
  <2>1. CASE StartRefused(t)
    <3>1. pool' = pool /\ main' = main /\ (wp' = wp \/ wp' = [wp EXCEPT !.sent = @ \cup {"Restart"}])
      BY <1>2, <2>1 DEF StartRefused, DoStateStart
    <3>2. wp' \in WpRecord
      BY <1>0, <3>1 DEF WpRecord
    <3> QED
      BY <1>0, <3>1, <3>2, OthersFollow
  <2>2. CASE StartAllowed(t)
    <3>1. wp' = wp /\ main' = main /\ pool' = [pool EXCEPT !.sm_cRequestsPending = @ + 1]
      BY <1>2, <2>2 DEF StartAllowed, DoStateStart
    <3>2. pool' \in PoolRecord
      BY <1>0, <3>1 DEF PoolRecord
    <3> QED
      BY <1>0, <3>1, <3>2, OthersFollow
  <2> QED
    BY <1>2, <2>1, <2>2 DEF DoStateStart
<1>3. CASE Receive(t)
  <2>1. CASE ReceivePending(t)
    <3>1. pool' = pool /\ wp' = wp /\ main' = main
      BY <1>3, <2>1 DEF Receive, ReceivePending
    <3> QED
      BY <1>0, <3>1, OthersFollow
  <2>2. CASE ReceiveFailed(t)
    <3>1. main' = main /\ pool' = [pool EXCEPT !.sm_cRequestsPending = @ - 1]
      BY <1>3, <2>2 DEF Receive, ReceiveFailed
    <3>4. wp' = wp \/ (CanFail("Receive") /\ Failed)
      BY <2>2 DEF ReceiveFailed
    <3>2. pool' \in PoolRecord
      BY <1>0, <3>1 DEF PoolRecord
    <3>3. wp' \in WpRecord
      BY <1>0, <3>4, FailedTyped
    <3> QED
      BY <1>0, <3>1, <3>2, <3>3, OthersFollow
  <2> QED
    BY <1>3, <2>1, <2>2 DEF Receive
<1>4. CASE DoStateRead(t)
  <2>1. CASE ReadDone(t)
    <3>1. main' = main /\ wp' = wp /\ pool' = [pool EXCEPT !.sm_cRequestsPending = pool.sm_cRequestsPending - 1]
      BY <1>4, <2>1 DEF DoStateRead, ReadDone
    <3>2. pool' \in PoolRecord
      BY <1>0, <3>1 DEF PoolRecord
    <3> QED
      BY <1>0, <3>1, <3>2, OthersFollow
  <2>2. CASE ReadFailed(t)
    <3>1. main' = main /\ wp' = wp /\ pool' = [pool EXCEPT !.sm_cRequestsPending = @ - 1]
      BY <1>4, <2>2 DEF DoStateRead, ReadFailed
    <3>2. pool' \in PoolRecord
      BY <1>0, <3>1 DEF PoolRecord
    <3> QED
      BY <1>0, <3>1, <3>2, OthersFollow
  <2>3. CASE NoBuffer(t)
    <3>1. main' = main /\ pool' = pool /\ CanFail("Buffer") /\ Failed
      BY <1>4, <2>3 DEF DoStateRead, NoBuffer
    <3> QED
      BY <1>0, <3>1, FailedTyped, OthersFollow
  <2> QED
    BY <1>4, <2>1, <2>2, <2>3 DEF DoStateRead
<1>5. CASE DoStateProcess(t)
  <2>1. main' = main /\ pool' = pool /\ wp' = [wp EXCEPT !._BusySignal = TRUE, !._CurrentIdleTick = 0]
    BY <1>5 DEF DoStateProcess
  <2>2. wp' \in WpRecord
    BY <1>0, <2>1 DEF WpRecord
  <2> QED
    BY <1>0, <2>1, <2>2, OthersFollow
<1> QED
  BY <1>1, <1>2, <1>3, <1>4, <1>5

LEMMA ObjectOthers ==
  ASSUME Inv, NEW t \in AllThreads,
         \/ DereferenceWorkerRequest(t) \/ CheckState(t) \/ FreeWorkerRequest(t)
         \/ CountFree(t) \/ RemoveFromRequestList(t) \/ ReleaseMemory(t)
  PROVE  Others'
<1>0. pool \in PoolRecord /\ wp \in WpRecord /\ main \in Places
  BY OthersNow
<1>1. CASE DereferenceWorkerRequest(t) \/ ReleaseMemory(t)
  <2>1. pool' = pool /\ wp' = wp /\ main' = main
    BY <1>1 DEF DereferenceWorkerRequest, ReleaseMemory
  <2> QED
    BY <1>0, <2>1, OthersFollow
<1>2. CASE CheckState(t)
  <2>1. wp' = wp /\ main' = main /\ (pool' = pool \/
          pool' = [pool EXCEPT !.sm_cRequestsServed = IF @ < pool.settings.restart THEN @ + 1 ELSE @])
    BY <1>2 DEF CheckState, StartOver
  <2>2. pool' \in PoolRecord
    BY <1>0, <2>1 DEF PoolRecord
  <2> QED
    BY <1>0, <2>1, <2>2, OthersFollow
<1>3. CASE FreeWorkerRequest(t)
  <2>0. Is(t, "Free") /\ Top(t).r \in Req
    <3>1. Is(t, "Free") /\ "Free" \in Calls \ Plain
      BY <1>3 DEF FreeWorkerRequest, Calls, Plain
    <3> QED
      BY <3>1, TopCall
  <2>1. wp' = wp /\ main' = main /\ (pool' = pool \/
          pool' = [pool EXCEPT !.sm_FreeList = @ \cup {Top(t).r}])
    BY <1>3 DEF FreeWorkerRequest
  <2>2. pool' \in PoolRecord
    BY <1>0, <2>0, <2>1 DEF PoolRecord
  <2> QED
    BY <1>0, <2>1, <2>2, OthersFollow
<1>4. CASE CountFree(t)
  <2>1. wp' = wp /\ main' = main /\ pool' = [pool EXCEPT !.sm_cFreeRequests = Top(t).n]
    BY <1>4 DEF CountFree
  <2>2. Top(t).n \in Nat
    <3>1. Is(t, "Count") /\ stack[t] \in Seq(Frame) /\ Shape(stack[t])
      BY <1>4, Types DEF CountFree, Inv, ShapeInv
    <3>2. stack[t] # <<>> /\ Head(stack[t]) = stack[t][1] /\ 1 \in 1 .. Len(stack[t]) /\ stack[t][1] \in Frame
      BY <3>1 DEF Is, Idle
    <3>3. stack[t][1].fn = "Count"
      BY <3>1, <3>2 DEF Is, Top
    <3>4. stack[t][1].n >= 0 /\ stack[t][1].n \in Int
      BY <3>1, <3>2, <3>3 DEF Shape, Frame
    <3> QED
      BY <3>2, <3>4 DEF Top
  <2>3. pool' \in PoolRecord
    BY <1>0, <2>2, <2>1 DEF PoolRecord
  <2> QED
    BY <1>0, <2>1, <2>3, OthersFollow
<1>5. CASE RemoveFromRequestList(t)
  <2>1. wp' = wp /\ main' = main /\ pool' = [pool EXCEPT !.sm_cRequests = @ - 1]
    BY <1>5 DEF RemoveFromRequestList
  <2>2. pool' \in PoolRecord
    BY <1>0, <2>1 DEF PoolRecord
  <2> QED
    BY <1>0, <2>1, <2>2, OthersFollow
<1> QED
  BY <1>1, <1>2, <1>3, <1>4, <1>5

LEMMA AddingOthers ==
  ASSUME Inv, NEW t \in AllThreads, AddPendingRequests(t) \/ AddOne(t) \/ AddDone(t)
  PROVE  Others'
<1>0. pool \in PoolRecord /\ wp \in WpRecord /\ main \in Places
  BY OthersNow
<1>1. CASE AddPendingRequests(t)
  <2>1. wp' = wp /\ main' = main /\ (pool' = pool \/ pool' = [pool EXCEPT !.sm_fAddingRequests = TRUE])
    BY <1>1 DEF AddPendingRequests
  <2>2. pool' \in PoolRecord
    BY <1>0, <2>1 DEF PoolRecord
  <2> QED
    BY <1>0, <2>1, <2>2, OthersFollow
<1>2. CASE AddDone(t)
  <2>1. wp' = wp /\ main' = main /\ pool' = [pool EXCEPT !.sm_fAddingRequests = FALSE]
    BY <1>2 DEF AddDone
  <2>2. pool' \in PoolRecord
    BY <1>0, <2>1 DEF PoolRecord
  <2> QED
    BY <1>0, <2>1, <2>2, OthersFollow
<1>3. CASE AddFromFreeList(t)
  <2>1. wp' = wp /\ main' = main /\ \E r \in pool.sm_FreeList : pool' = [pool EXCEPT !.sm_FreeList = @ \ {r}]
    BY <1>3 DEF AddFromFreeList
  <2>2. pool' \in PoolRecord
    BY <1>0, <2>1 DEF PoolRecord
  <2> QED
    BY <1>0, <2>1, <2>2, OthersFollow
<1>4. CASE AddAllocated(t)
  <2>1. wp' = wp /\ main' = main /\ pool' = [pool EXCEPT !.sm_cRequests = @ + 1]
    BY <1>4 DEF AddAllocated
  <2>2. pool' \in PoolRecord
    BY <1>0, <2>1 DEF PoolRecord
  <2> QED
    BY <1>0, <2>1, <2>2, OthersFollow
<1>5. CASE AddFailed(t)
  <2>1. pool' = pool /\ CanFail("Allocate") /\ Failed /\ main' = IF t = Main THEN "StopListening" ELSE main
    BY <1>5 DEF AddFailed
  <2>2. main' \in Places
    BY <1>0, <2>1 DEF Places
  <2>3. wp' \in WpRecord
    BY <1>0, <2>1, FailedTyped
  <2> QED
    BY <1>0, <2>1, <2>2, <2>3, OthersFollow
<1> QED
  BY <1>1, <1>2, <1>3, <1>4, <1>5 DEF AddOne

LEMMA ArrivalOthers ==
  ASSUME Inv, NEW t \in Thread, NEW r \in Req,
         OverlappedCompletionRoutine(t, r) \/ CoreContinues(t, r)
  PROVE  Others'
<1>0. pool \in PoolRecord /\ wp \in WpRecord /\ main \in Places
  BY OthersNow
<1>1. CASE OverlappedCompletionRoutine(t, r)
  <2>1. PICK res \in {"Ok", "MoreData", "Error"} :
          /\ Completes(r, res)
          /\ IF res = "Error" /\ wp.handle = "open" THEN Failed ELSE UNCHANGED wp
          /\ pool' = pool /\ main' = main
    BY <1>1 DEF OverlappedCompletionRoutine
  <2>2. CASE res = "Error" /\ wp.handle = "open"
    <3>1. CanFail("Receive") /\ Failed
      BY <2>1, <2>2 DEF Completes
    <3> QED
      BY <1>0, <2>1, <3>1, FailedTyped, OthersFollow
  <2>3. CASE ~(res = "Error" /\ wp.handle = "open")
    BY <1>0, <2>1, <2>3, OthersFollow
  <2> QED
    BY <2>2, <2>3
<1>2. CASE CoreContinues(t, r)
  <2>1. pool' = pool /\ wp' = wp /\ main' = main
    BY <1>2 DEF CoreContinues
  <2> QED
    BY <1>0, <2>1, OthersFollow
<1> QED
  BY <1>1, <1>2

LEMMA TimerOthers ==
  ASSUME Inv, IdleTimeCheckCallback \/ IncrementTick
  PROVE  Others'
<1>0. pool \in PoolRecord /\ wp \in WpRecord /\ main \in Places /\ pool.settings.idleTime \in Nat
  BY OthersNow
<1>1. CASE IdleTimeCheckCallback
  <2>1. pool' = pool /\ main' = main
    BY <1>1 DEF IdleTimeCheckCallback
  <2>2. pool.sm_cRequests \in Int
    BY <1>0 DEF PoolRecord
  <2>3. \E i \in Nat, n \in Int : wp' = [wp EXCEPT !._BusySignal = FALSE, !._CurrentIdleTick = i, !.read = n]
    <3>1. /\ (IF wp._BusySignal THEN 0 ELSE wp._CurrentIdleTick) \in Nat
          /\ (IF wp._BusySignal THEN -1 ELSE pool.sm_cRequests) \in Int
      BY <1>0, <2>2 DEF WpRecord
    <3> QED
      BY <1>1, <3>1 DEF IdleTimeCheckCallback
  <2>4. wp' \in WpRecord
    BY <1>0, <2>3 DEF WpRecord
  <2> QED
    BY <1>0, <2>1, <2>4, OthersFollow
<1>2. CASE IncrementTick
  <2>1. pool' = pool /\ main' = main
    BY <1>2 DEF IncrementTick
  <2> DEFINE limit == pool.settings.idleTime
             tick == IF QueryCurrentRequests # 0 THEN 0
                     ELSE IF wp._CurrentIdleTick < limit
                            THEN wp._CurrentIdleTick + 1 ELSE limit
  <2>2. tick \in Nat
    BY <1>0 DEF WpRecord
  <2>3. (IF tick = limit THEN wp.sent \cup {"Idle"} ELSE wp.sent) \in SUBSET {"Idle", "Restart"}
    BY <1>0 DEF WpRecord
  <2>4. wp' = [wp EXCEPT !._CurrentIdleTick = tick, !.read = -1,
                         !.sent = IF tick = limit THEN wp.sent \cup {"Idle"} ELSE wp.sent]
    BY <1>2 DEF IncrementTick
  <2> HIDE DEF limit, tick
  <2>5. PICK i \in Nat, n \in Int, m \in SUBSET {"Idle", "Restart"} :
          wp' = [wp EXCEPT !._CurrentIdleTick = i, !.read = n, !.sent = m]
    <3>1. -1 \in Int
      OBVIOUS
    <3> QED
      BY <2>2, <2>3, <2>4, <3>1
  <2>6. wp' \in WpRecord
    BY <1>0, <2>5 DEF WpRecord
  <2> QED
    BY <1>0, <2>1, <2>6, OthersFollow
<1> QED
  BY <1>1, <1>2

LEMMA MessageOthers ==
  ASSUME Inv,
         \/ \E immediate \in {"yes", "no"} : IndicateShutdown(immediate)
         \/ \E r \in Req : WaitForDisconnect(r)
         \/ Disconnected
         \/ PendingRequestsMonitorHandler
  PROVE  Others'
<1>0. pool \in PoolRecord /\ wp \in WpRecord /\ main \in Places
  BY OthersNow
<1>1. pool' = pool /\ main' = main
  BY DEF IndicateShutdown, WaitForDisconnect, Disconnected, PendingRequestsMonitorHandler
<1>2. wp' \in WpRecord
  <2>1. CASE \E immediate \in {"yes", "no"} : IndicateShutdown(immediate)
    BY <1>0, <2>1 DEF WpRecord, IndicateShutdown
  <2>2. CASE (\E r \in Req : WaitForDisconnect(r)) \/ Disconnected
    <3>1. PICK n \in Nat : wp' = [wp EXCEPT !.sm_cOutstanding = n]
      <4>1. /\ wp.sm_cOutstanding + 1 \in Nat
            /\ wp.sm_cOutstanding > 0 => wp.sm_cOutstanding - 1 \in Nat
        BY <1>0 DEF WpRecord
      <4> QED
        BY <2>2, <4>1 DEF WaitForDisconnect, Disconnected
    <3> QED
      BY <1>0, <3>1 DEF WpRecord
  <2>3. CASE PendingRequestsMonitorHandler
    BY <1>0, <2>3 DEF PendingRequestsMonitorHandler
  <2> QED
    BY <2>1, <2>2, <2>3
<1> QED
  BY <1>0, <1>1, <1>2, OthersFollow

LEMMA MainOthers ==
  ASSUME Inv, MainStep
  PROVE  Others'
<1>0. pool \in PoolRecord /\ wp \in WpRecord /\ main \in Places
  BY OthersNow
<1>1. main' \in Places
  BY <1>0 DEF MainStep, StartTimers, RunMainThreadLoop, StopListening, StopPendingRequestsMonitor,
     ReleaseFree, AllReleased, WaitForOutstandingDisconnects, Terminate, Places
<1>2. CASE StartTimers
  <2>1. pool' = pool
    BY <1>2 DEF StartTimers
  <2>2. wp' \in WpRecord
    <3>1. CASE wp' = [wp EXCEPT !.monitor = TRUE, !.idle = pool.settings.idleTime # 0]
      BY <1>0, <3>1 DEF WpRecord
    <3>2. CASE CanFail("StartTimers") /\ \E monitor \in BOOLEAN :
                 wp' = [wp EXCEPT !.monitor = monitor, !.faults = @ - 1]
      <4>1. wp.faults - 1 \in Nat
        BY <1>0, <3>2 DEF WpRecord, CanFail
      <4> QED
        BY <1>0, <3>2, <4>1 DEF WpRecord
    <3> QED
      BY <1>2, <3>1, <3>2 DEF StartTimers
  <2> QED
    BY <1>0, <1>1, <2>1, <2>2, OthersFollow
<1>3. CASE \/ RunMainThreadLoop \/ StopListening \/ AllReleased
           \/ WaitForOutstandingDisconnects \/ Terminate
  <2>1. pool' = pool
    BY <1>3 DEF RunMainThreadLoop, StopListening, AllReleased, WaitForOutstandingDisconnects, Terminate
  <2>2. wp' \in WpRecord
    BY <1>0, <1>3 DEF RunMainThreadLoop, StopListening, AllReleased,
       WaitForOutstandingDisconnects, Terminate, WpRecord
  <2> QED
    BY <1>0, <1>1, <2>1, <2>2, OthersFollow
<1>4. CASE StopPendingRequestsMonitor
  <2>1. pool' = pool /\ \E immediate \in Immediate :
          wp' = [wp EXCEPT !.monitor = FALSE, !.handle = IF immediate THEN "closed" ELSE @]
    BY <1>4 DEF StopPendingRequestsMonitor
  <2>2. wp' \in WpRecord
    BY <1>0, <2>1 DEF WpRecord
  <2> QED
    BY <1>0, <1>1, <2>1, <2>2, OthersFollow
<1>5. CASE ReleaseFree
  <2>1. wp' = wp /\ \E r \in pool.sm_FreeList : pool' = [pool EXCEPT !.sm_FreeList = @ \ {r}]
    BY <1>5 DEF ReleaseFree
  <2>2. pool' \in PoolRecord
    BY <1>0, <2>1 DEF PoolRecord
  <2> QED
    BY <1>0, <1>1, <2>1, <2>2, OthersFollow
<1> QED
  BY <1>2, <1>3, <1>4, <1>5 DEF MainStep

LEMMA NextOthers ==
  ASSUME Inv, Next
  PROVE  Others'
<1>1. CASE Ended
  <2>1. pool' = pool /\ wp' = wp /\ main' = main
    BY <1>1 DEF Ended, vars
  <2> QED
    BY <2>1, OthersNow, OthersFollow
<1>2. CASE \E t \in AllThreads : ThreadStep(t)
  <2>1. PICK t \in AllThreads : ThreadStep(t)
    BY <1>2
  <2>2. \/ DoWork(t) \/ DoStateStart(t) \/ Receive(t) \/ DoStateRead(t)
        \/ DoStateProcess(t) \/ DoStateClientCertificate(t) \/ DoStateError(t)
        \/ DereferenceWorkerRequest(t) \/ CheckState(t) \/ FreeWorkerRequest(t)
        \/ CountFree(t) \/ RemoveFromRequestList(t) \/ ReleaseMemory(t)
        \/ AddPendingRequests(t) \/ AddOne(t) \/ AddDone(t)
    BY <2>1 DEF ThreadStep
  <2> QED
    BY <2>2, StateMachineOthers, ObjectOthers, AddingOthers
<1>3. CASE \E t \in Thread, r \in Req : OverlappedCompletionRoutine(t, r) \/ CoreContinues(t, r)
  BY <1>3, ArrivalOthers
<1>4. CASE IdleTimeCheckCallback \/ IncrementTick
  BY <1>4, TimerOthers
<1>5. CASE \/ \E immediate \in {"yes", "no"} : IndicateShutdown(immediate)
           \/ \E r \in Req : WaitForDisconnect(r)
           \/ Disconnected
           \/ PendingRequestsMonitorHandler
  BY <1>5, MessageOthers
<1>6. CASE MainStep
  BY <1>6, MainOthers
<1> QED
  BY <1>1, <1>2, <1>3, <1>4, <1>5, <1>6 DEF Next

-----------------------------------------------------------------------------
(***************************************************************************)
(* The invariant holds at first and is kept by every step.                 *)
(***************************************************************************)

\* Nothing has been allocated, and only the main thread has something to do.
LEMMA FirstStacks ==
  ASSUME NEW n \in Int
  PROVE  /\ <<Counted("AddPending", n)>> \in Seq(Frame) /\ Shape(<<Counted("AddPending", n)>>)
         /\ \A r \in Req : RolesIn(<<Counted("AddPending", n)>>, r) = {}
         /\ "Adding" \notin RolesIn(<<Counted("AddPending", n)>>, NoReq)
<1>1. PICK f \in Frame : /\ f = Counted("AddPending", n) /\ f.fn = "AddPending" /\ f.r = NoReq
  BY Frames DEF Calls
<1>2. <<>> \in Seq(Frame) /\ Shape(<<>>) /\ \A r : RolesIn(<<>>, r) = {}
  BY ShapeEmpty, RolesEmpty
<1>3. /\ Push(f, <<>>) \in Seq(Frame) /\ Shape(Push(f, <<>>))
      /\ \A u \in Req : RolesIn(Push(f, <<>>), u) = RolesIn(<<>>, u)
      /\ AddsStill(<<>>, Push(f, <<>>))
  BY <1>1, <1>2, PlainPush DEF Plain
<1>4. <<f>> = Push(f, <<>>)
  BY PushOne
<1> QED
  BY <1>1, <1>2, <1>3, <1>4 DEF AddsStill

LEMMA DeadSound ==
  ASSUME NEW x \in Objects, x._ExecState = "START", x._cRefs = 0, x.io = "None", ~x.core, ~x.alive,
         NEW h \in HolderMaps, \A k \in Roles : h[k] = {}
  PROVE  Sound(x, FALSE, h) /\ ~Lives(x, h) /\ ~Waits(x, h)
<1>1. /\ h["Kick"] = {} /\ h["DoWork"] = {} /\ h["Loop"] = {} /\ h["Receive"] = {} /\ h["Free"] = {}
      /\ h["Check"] = {} /\ h["Delete"] = {} /\ h["Release"] = {} /\ h["Deref"] = {}
  BY DEF Roles, Calls
<1>2. Cardinality(h["Deref"]) = 0
  BY <1>1, FS_EmptySet
<1>3. Drivers(h) = {} /\ Gone(h) = {}
  BY <1>1 DEF Drivers, Gone
<1>4. Held(x, h) = 0
  BY <1>1, <1>2 DEF Held, Bit
<1>5. Own(x, h) = 0
  BY <1>4 DEF Own
<1>6. ~Busy(x, FALSE, h)
  BY <1>3 DEF Busy
<1>8. /\ x._cRefs = 0 <=> ~x.alive \/ Gone(h) # {}
      /\ x.core => x._ExecState \in {"PROCESS", "CLIENT_CERT"}
      /\ x.io = "Call" => x.core
      /\ x.io = "Receive" \/ h["Receive"] # {} => x._ExecState = "READ"
      /\ x._ExecState = "CLIENT_CERT" => x.core /\ (x.io = "Call" \/ h["DoWork"] # {} \/ h["Loop"] # {})
  BY <1>1, <1>3 DEF Objects
<1>9. Own(x, h) \in {0, 1} /\ Own(x, h) # 1
  BY <1>5
<1>10. /\ x._ExecState # "ERROR" /\ Own(x, h) = 0 => Cardinality(h["Deref"]) <= 1
       /\ x._ExecState = "ERROR" /\ Own(x, h) = 1 => h["Loop"] # {}
  BY <1>2, <1>9
<1>11. x._ExecState # "ERROR"
  OBVIOUS
<1>7. Sound(x, FALSE, h)
  BY <1>1, <1>3, <1>6, <1>8, <1>9, <1>10, <1>11, Zenon DEF Sound
<1> QED
  BY <1>1, <1>7 DEF Lives, Waits

LEMMA InitInv ==
  ASSUME Init
  PROVE  Inv
<1>1. PICK s \in Settings :
        /\ pool = [settings |-> s, sm_cRequests |-> 0, sm_cRequestsPending |-> 0,
                  sm_cRequestsServed |-> 0, sm_fAddingRequests |-> FALSE,
                  sm_cFreeRequests |-> 0, sm_FreeList |-> {}]
        /\ stack = [t \in AllThreads |->
                     IF t = Main
                       THEN <<Counted("AddPending", InitialRequests(s))>>
                       ELSE <<>>]
        /\ wp = [_fShutdown |-> FALSE, _fImmediateShutdown |-> "garbage",
                handle |-> "open", monitor |-> FALSE, idle |-> FALSE,
                _BusySignal |-> FALSE, _CurrentIdleTick |-> 0, read |-> -1, sent |-> {},
                sm_cOutstanding |-> 0, faults |-> s.maxFaults]
  BY DEF Init
<1>2. req = [r \in Req |-> [NewRequest EXCEPT !.alive = FALSE, !._cRefs = 0]] /\ main = "Start"
  BY DEF Init
<1>3. s \in Setting /\ s.maxFaults \in Nat /\ InitialRequests(s) \in Int
  BY SettingsAssumption DEF Setting, InitialRequests
<1>4. PICK x \in Objects : /\ x = [NewRequest EXCEPT !.alive = FALSE, !._cRefs = 0]
                           /\ x._ExecState = "START" /\ x._cRefs = 0 /\ x.io = "None" /\ ~x.core /\ ~x.alive
  <2>1. PICK z \in Objects : z = NewRequest /\ z._ExecState = "START" /\ z.io = "None" /\ ~z.core
    <3>1. NewRequest \in Objects
      BY DEF NewRequest, Objects, ExecState
    <3>2. NewRequest._ExecState = "START" /\ NewRequest.io = "None" /\ ~NewRequest.core
      BY DEF NewRequest
    <3> QED
      BY <3>1, <3>2
  <2>2. [z EXCEPT !.alive = FALSE, !._cRefs = 0] \in Objects
    BY DEF Objects
  <2>3. PICK y \in Objects : y = [z EXCEPT !.alive = FALSE, !._cRefs = 0]
    BY <2>2
  <2>4. y._ExecState = z._ExecState /\ y._cRefs = 0 /\ y.io = z.io /\ y.core = z.core /\ y.alive = FALSE
    BY <2>3 DEF Objects
  <2> QED
    BY <2>1, <2>3, <2>4
<1>5. req \in [Req -> Objects] /\ \A r \in Req : req[r] = x
  BY <1>2, <1>4
<1>6. /\ <<Counted("AddPending", InitialRequests(s))>> \in Seq(Frame)
      /\ Shape(<<Counted("AddPending", InitialRequests(s))>>)
      /\ \A r \in Req : RolesIn(<<Counted("AddPending", InitialRequests(s))>>, r) = {}
      /\ "Adding" \notin RolesIn(<<Counted("AddPending", InitialRequests(s))>>, NoReq)
  BY <1>3, FirstStacks
<1>7. <<>> \in Seq(Frame) /\ Shape(<<>>) /\ \A r : RolesIn(<<>>, r) = {}
  BY ShapeEmpty, RolesEmpty
<1>8. /\ stack \in [AllThreads -> Seq(Frame)]
      /\ \A t \in AllThreads : Shape(stack[t]) /\ "Adding" \notin RolesIn(stack[t], NoReq)
      /\ \A t \in AllThreads : \A r \in Req : RolesIn(stack[t], r) = {}
  BY <1>1, <1>6, <1>7
<1>9. /\ pool.settings = s /\ pool.sm_cRequests = 0 /\ pool.sm_cRequestsPending = 0
      /\ pool.sm_fAddingRequests = FALSE /\ pool.sm_FreeList = {} /\ wp.faults = s.maxFaults
  BY <1>1
<1>10. TypeOK
  <2>1. req \in [Req -> [alive : BOOLEAN, _ExecState : ExecState, _cRefs : Nat,
                       io : {"None", "Receive", "Call"}, core : BOOLEAN]]
    BY <1>5 DEF Objects
  <2>2. pool \in [settings : Settings, sm_cRequests : Nat,
               sm_cRequestsPending : Nat, sm_cRequestsServed : Nat,
               sm_fAddingRequests : BOOLEAN, sm_cFreeRequests : Nat,
               sm_FreeList : SUBSET Req]
    BY <1>1
  <2>3. wp \in [_fShutdown : BOOLEAN,
             _fImmediateShutdown : {"garbage", "yes", "no"},
             handle : {"open", "shutdown", "closed"}, monitor : BOOLEAN,
             idle : BOOLEAN, _BusySignal : BOOLEAN, _CurrentIdleTick : Nat,
             read : Int, sent : SUBSET {"Idle", "Restart"}, sm_cOutstanding : Nat,
             faults : Nat]
    <3>1. -1 \in Int
      OBVIOUS
    <3> QED
      BY <1>1, <1>3, <3>1
  <2> QED
    BY <1>2, <1>8, <2>1, <2>2, <2>3 DEF TypeOK
<1>11. \A r \in Req : /\ Sound(req[r], r \in pool.sm_FreeList, Holders(r))
                      /\ ~Lives(req[r], Holders(r)) /\ ~Waits(req[r], Holders(r))
  <2> SUFFICES ASSUME NEW r \in Req
               PROVE  /\ Sound(req[r], r \in pool.sm_FreeList, Holders(r))
                      /\ ~Lives(req[r], Holders(r)) /\ ~Waits(req[r], Holders(r))
    OBVIOUS
  <2>1. PICK h : h = Holders(r)
    OBVIOUS
  <2>2. h \in HolderMaps /\ \A k \in Roles : h[k] = {}
    BY <1>8, <2>1 DEF Holders, HoldersOf, HolderMaps
  <2>3. Sound(x, FALSE, h) /\ ~Lives(x, h) /\ ~Waits(x, h)
    BY <1>4, <2>2, DeadSound
  <2>4. (r \in pool.sm_FreeList) = FALSE /\ req[r] = x
    BY <1>5, <1>9
  <2> QED
    BY <2>1, <2>3, <2>4
<1>12. ShapeInv /\ SoundInv
  BY <1>8, <1>11 DEF ShapeInv, SoundInv
<1>13. CountInv
  <2>1. Living = {} /\ WaitSet = {}
    BY <1>11 DEF Living, WaitSet
  <2>2. Cardinality(Living) = 0 /\ Cardinality(WaitSet) = 0
    BY <2>1, FS_EmptySet
  <2>3. Failures = 0
    BY <1>3, <1>9 DEF Failures
  <2> QED
    BY <1>3, <1>9, <2>2, <2>3 DEF CountInv
<1>14. AddInv
  <2>1. Adders = {}
    BY <1>8 DEF Adders
  <2> QED
    BY <1>9, <2>1 DEF AddInv
<1> QED
  BY <1>10, <1>12, <1>13, <1>14 DEF Inv

LEMMA NextInv ==
  ASSUME Inv, ~StaleReuse, [Next]_vars
  PROVE  Inv'
<1>1. CASE Next
  BY <1>1, NextRest, NextOthers, InvParts
<1>2. CASE UNCHANGED vars
  <2>1. req' = req /\ stack' = stack /\ pool' = pool /\ wp' = wp /\ main' = main
    BY <1>2 DEF vars
  <2>2. wp'.faults = wp.faults
    BY <2>1
  <2>3. Rest'
    BY <2>1, <2>2, FailedQuiet
  <2>4. Others'
    BY <2>1, OthersNow, OthersFollow
  <2> QED
    BY <2>3, <2>4, InvParts
<1> QED
  BY <1>1, <1>2

-----------------------------------------------------------------------------
(***************************************************************************)
(* What the invariant says of the properties.                              *)
(***************************************************************************)
LEMMA ThreadsHold ==
  ASSUME TypeOK, NEW r \in Req, NEW fns \in SUBSET Calls, NEW t \in AllThreads
  PROVE  t \in Threads(r, fns) <=>
           \E k \in Roles : t \in Holders(r)[k] /\ (k \in fns \/ (k = "Kick" /\ "DoWork" \in fns))
<1>1. Within(t, r, fns) <=>
        \E k \in RolesIn(stack[t], r) : k \in fns \/ (k = "Kick" /\ "DoWork" \in fns)
  BY WithinRoles
<1>2. \A k \in Roles : t \in Holders(r)[k] <=> k \in RolesIn(stack[t], r)
  BY DEF Holders, HoldersOf
<1>3. RolesIn(stack[t], r) \subseteq Roles
  BY DEF RolesIn
<1> QED
  BY <1>1, <1>2, <1>3 DEF Threads

LEMMA ThreadSets ==
  ASSUME TypeOK, NEW r \in Req, NEW h, h = Holders(r)
  PROVE  /\ Threads(r, {"DoWork", "Loop", "Receive", "Free"}) = Drivers(h)
         /\ Threads(r, {"DoWork", "Loop", "Receive", "Deref", "Free"}) = Drivers(h) \cup h["Deref"]
         /\ Threads(r, {"Delete", "Release"}) = Gone(h)
         /\ Threads(r, {"Check"}) = h["Check"]
         /\ Threads(r, {"Receive"}) = h["Receive"]
         /\ Threads(r, {"DoWork", "Loop"}) = h["Kick"] \cup h["DoWork"] \cup h["Loop"]
<1>1. \A fns \in SUBSET Calls : \A t \in AllThreads : t \in Threads(r, fns) <=>
        \E k \in Roles : t \in h[k] /\ (k \in fns \/ (k = "Kick" /\ "DoWork" \in fns))
  BY ThreadsHold
<1>2. \A fns : Threads(r, fns) \subseteq AllThreads
  BY DEF Threads
<1>3. \A k \in Roles : h[k] \subseteq AllThreads
  BY DEF Holders, HoldersOf
<1>4. /\ "Kick" \in Roles /\ "DoWork" \in Roles /\ "Loop" \in Roles /\ "Receive" \in Roles
      /\ "Free" \in Roles /\ "Deref" \in Roles /\ "Delete" \in Roles /\ "Release" \in Roles
      /\ "Check" \in Roles
  BY DEF Roles, Calls
<1>5. Threads(r, {"DoWork", "Loop", "Receive", "Free"}) = Drivers(h)
  <2>1. {"DoWork", "Loop", "Receive", "Free"} \in SUBSET Calls
    BY DEF Calls
  <2> QED
    BY <1>1, <1>2, <1>3, <1>4, <2>1 DEF Drivers
<1>6. Threads(r, {"DoWork", "Loop", "Receive", "Deref", "Free"}) = Drivers(h) \cup h["Deref"]
  <2>1. {"DoWork", "Loop", "Receive", "Deref", "Free"} \in SUBSET Calls
    BY DEF Calls
  <2> QED
    BY <1>1, <1>2, <1>3, <1>4, <2>1 DEF Drivers
<1>7. Threads(r, {"Delete", "Release"}) = Gone(h)
  <2>1. {"Delete", "Release"} \in SUBSET Calls /\ "DoWork" \notin {"Delete", "Release"}
    BY DEF Calls
  <2> QED
    BY <1>1, <1>2, <1>3, <1>4, <2>1 DEF Gone
<1>8. Threads(r, {"Check"}) = h["Check"]
  <2>1. {"Check"} \in SUBSET Calls /\ "DoWork" \notin {"Check"}
    BY DEF Calls
  <2> QED
    BY <1>1, <1>2, <1>3, <1>4, <2>1
<1>9. Threads(r, {"Receive"}) = h["Receive"]
  <2>1. {"Receive"} \in SUBSET Calls /\ "DoWork" \notin {"Receive"}
    BY DEF Calls
  <2> QED
    BY <1>1, <1>2, <1>3, <1>4, <2>1
<1>10. Threads(r, {"DoWork", "Loop"}) = h["Kick"] \cup h["DoWork"] \cup h["Loop"]
  <2>1. {"DoWork", "Loop"} \in SUBSET Calls
    BY DEF Calls
  <2> QED
    BY <1>1, <1>2, <1>3, <1>4, <2>1
<1> QED
  BY <1>5, <1>6, <1>7, <1>8, <1>9, <1>10

LEMMA SoundAccounted ==
  ASSUME NEW x \in Objects, NEW h \in HolderMaps, NEW free \in BOOLEAN, Sound(x, free, h)
  PROVE  /\ ~x.alive \/ Gone(h) # {} =>
              x.io = "None" /\ ~x.core /\ ~free /\ Drivers(h) = {} /\ h["Deref"] = {}
         /\ x.alive => \/ x.io # "None" \/ x.core \/ free \/ Drivers(h) # {} \/ h["Deref"] # {}
                       \/ Gone(h) # {} \/ h["Check"] # {}
<1>1. "Deref" \in Roles /\ h["Deref"] \in SUBSET AllThreads
  BY DEF HolderMaps, Roles, Calls
<1>2. Cardinality(h["Deref"]) \in Nat /\ (Cardinality(h["Deref"]) = 0 <=> h["Deref"] = {})
  BY <1>1, SomeThreads
<1>3. /\ Own(x, h) \in {0, 1}
      /\ Busy(x, free, h) => Own(x, h) = 1
      /\ Own(x, h) = 1 => Busy(x, free, h) \/ h["Deref"] # {} \/ h["Check"] # {}
      /\ x._cRefs = 0 <=> ~x.alive \/ Gone(h) # {}
  BY DEF Sound
<1>4. x._cRefs \in Nat /\ Own(x, h) = x._cRefs - Held(x, h)
  BY DEF Objects, Own
<1>5. /\ Held(x, h) \in Nat /\ Held(x, h) >= Cardinality(h["Deref"])
      /\ x.io = "None" /\ ~x.core /\ h["Receive"] = {} /\ h["DoWork"] = {} =>
           Held(x, h) = Cardinality(h["Deref"])
  <2> DEFINE a == x.io # "None"  b == x.core  c == h["Receive"] # {}  d == h["DoWork"] # {}
  <2>1. /\ Bit(a) \in {0, 1} /\ Bit(b) \in {0, 1} /\ Bit(c) \in {0, 1} /\ Bit(d) \in {0, 1}
        /\ ~a => Bit(a) = 0
        /\ ~b => Bit(b) = 0
        /\ ~c => Bit(c) = 0
        /\ ~d => Bit(d) = 0
    BY DEF Bit
  <2>2. Held(x, h) = Bit(a) + Bit(b) + Cardinality(h["Deref"]) + Bit(c) + Bit(d)
    BY DEF Held
  <2>3. PICK i \in {0, 1}, j \in {0, 1}, k \in {0, 1}, l \in {0, 1} :
          i = Bit(a) /\ j = Bit(b) /\ k = Bit(c) /\ l = Bit(d)
    BY <2>1
  <2>4. PICK n \in Nat : n = Cardinality(h["Deref"])
    BY <1>2
  <2>5. Held(x, h) = i + j + n + k + l
    BY <2>2, <2>3, <2>4
  <2>6. Held(x, h) \in Nat /\ Held(x, h) >= n
    BY <2>5
  <2>7. ASSUME x.io = "None", ~x.core, h["Receive"] = {}, h["DoWork"] = {}
        PROVE  Held(x, h) = n
    <3>1. i = 0 /\ j = 0 /\ k = 0 /\ l = 0
      BY <2>1, <2>3, <2>7
    <3> QED
      BY <2>5, <3>1
  <2> QED
    BY <2>4, <2>6, <2>7
<1>6. ASSUME ~x.alive \/ Gone(h) # {}
      PROVE  x.io = "None" /\ ~x.core /\ ~free /\ Drivers(h) = {} /\ h["Deref"] = {}
  <2>1. x._cRefs = 0
    BY <1>3, <1>6
  <2>2. Own(x, h) = 0 /\ Cardinality(h["Deref"]) = 0
    BY <1>2, <1>3, <1>4, <1>5, <2>1
  <2>3. ~Busy(x, free, h) /\ h["Deref"] = {}
    BY <1>2, <1>3, <2>2
  <2> QED
    BY <2>3 DEF Busy
<1>7. ASSUME x.alive, ~(\/ x.io # "None" \/ x.core \/ free \/ Drivers(h) # {} \/ h["Deref"] # {}
                       \/ Gone(h) # {} \/ h["Check"] # {})
      PROVE  FALSE
  <2>1. ~Busy(x, free, h) /\ h["Receive"] = {} /\ h["DoWork"] = {}
    BY <1>7 DEF Busy, Drivers
  <2>2. Held(x, h) = 0
    BY <1>2, <1>5, <1>7, <2>1
  <2>3. x._cRefs # 0
    BY <1>3, <1>7
  <2>4. Own(x, h) = 1
    BY <1>3, <1>4, <2>2, <2>3
  <2> QED
    BY <1>3, <1>7, <2>1, <2>4
<1> QED
  BY <1>6, <1>7

LEMMA HoldersNow ==
  ASSUME Inv, NEW r \in Req
  PROVE  /\ req[r] \in Objects /\ Holders(r) \in HolderMaps
         /\ Sound(req[r], r \in pool.sm_FreeList, Holders(r))
<1>1. TypeOK /\ SoundInv
  BY DEF Inv
<1>2. req \in [Req -> Objects] /\ stack \in [AllThreads -> Seq(Frame)]
  BY <1>1, Types
<1>3. Holders(r) \in HolderMaps
  BY DEF Holders, HoldersOf, HolderMaps
<1> QED
  BY <1>1, <1>2, <1>3 DEF SoundInv

LEMMA InvAccounted ==
  ASSUME Inv
  PROVE  ObjectsAccounted
<1> SUFFICES ASSUME NEW r \in Req
             PROVE  /\ ~req[r].alive \/ Leaving(r) => ~InUse(r)
                    /\ req[r].alive => InUse(r) \/ Leaving(r) \/ Threads(r, {"Check"}) # {}
  BY DEF ObjectsAccounted
<1>1. PICK x \in Objects, h \in HolderMaps, free \in BOOLEAN :
        x = req[r] /\ h = Holders(r) /\ free = (r \in pool.sm_FreeList) /\ Sound(x, free, h)
  <2>1. PICK free \in BOOLEAN : free = (r \in pool.sm_FreeList)
    <3>1. (r \in pool.sm_FreeList) \in BOOLEAN
      OBVIOUS
    <3> QED
      BY <3>1, Zenon
  <2>2. req[r] \in Objects /\ Holders(r) \in HolderMaps /\ Sound(req[r], free, Holders(r))
    BY <2>1, HoldersNow
  <2> QED
    BY <2>1, <2>2, Zenon
<1>2. /\ Threads(r, {"DoWork", "Loop", "Receive", "Deref", "Free"}) = Drivers(h) \cup h["Deref"]
      /\ Threads(r, {"Delete", "Release"}) = Gone(h)
      /\ Threads(r, {"Check"}) = h["Check"]
  BY <1>1, ThreadSets DEF Inv
<1>3. /\ ~x.alive \/ Gone(h) # {} =>
            x.io = "None" /\ ~x.core /\ ~free /\ Drivers(h) = {} /\ h["Deref"] = {}
      /\ x.alive => \/ x.io # "None" \/ x.core \/ free \/ Drivers(h) # {} \/ h["Deref"] # {}
                    \/ Gone(h) # {} \/ h["Check"] # {}
  <2>1. Sound(x, free, h)
    BY <1>1
  <2> QED
    BY <2>1, SoundAccounted
<1>4. InUse(r) <=> x.io # "None" \/ x.core \/ free \/ Drivers(h) # {} \/ h["Deref"] # {}
  BY <1>1, <1>2 DEF InUse
<1>5. Leaving(r) <=> Gone(h) # {}
  BY <1>2 DEF Leaving
<1> QED
  BY <1>1, <1>2, <1>3, <1>4, <1>5

LEMMA AtMostOne ==
  ASSUME NEW S \in SUBSET AllThreads, \A t, u \in S : t = u
  PROVE  Cardinality(S) <= 1
<1>1. CASE S = {}
  <2>1. Cardinality(S) = 0
    BY <1>1, FS_EmptySet
  <2> QED
    BY <2>1
<1>2. CASE S # {}
  <2>1. PICK t \in S : S = {t}
    BY <1>2
  <2>2. Cardinality({t}) = 1
    BY FS_Singleton
  <2> QED
    BY <2>1, <2>2
<1> QED
  BY <1>1, <1>2

LEMMA InvOneDriver ==
  ASSUME Inv
  PROVE  OneDriver
<1> SUFFICES ASSUME NEW r \in Req
             PROVE  /\ Cardinality(Threads(r, {"DoWork", "Loop", "Receive", "Free"})) <= 1
                    /\ req[r].io # "None" \/ r \in pool.sm_FreeList =>
                         Threads(r, {"DoWork", "Loop", "Receive", "Free"}) = {}
  BY DEF OneDriver
<1>1. Sound(req[r], r \in pool.sm_FreeList, Holders(r))
  BY HoldersNow
<1>2. Threads(r, {"DoWork", "Loop", "Receive", "Free"}) = Drivers(Holders(r))
  BY ThreadSets DEF Inv
<1>3. /\ \A t, u \in Drivers(Holders(r)) : t = u
      /\ req[r].io # "None" \/ r \in pool.sm_FreeList => Drivers(Holders(r)) = {}
  BY <1>1 DEF Sound
<1>4. Drivers(Holders(r)) \in SUBSET AllThreads
  BY <1>2 DEF Threads
<1>5. Cardinality(Drivers(Holders(r))) <= 1
  BY <1>3, <1>4, AtMostOne
<1> QED
  BY <1>2, <1>3, <1>5

LEMMA InvPoolExact ==
  ASSUME Inv
  PROVE  PoolExact
<1>1. TypeOK /\ ShapeInv /\ CountInv /\ AddInv /\ stack \in [AllThreads -> Seq(Frame)]
  BY Types DEF Inv
<1>2. Waiting = WaitSet
  <2>1. \A r \in Req : /\ Threads(r, {"Receive"}) = Holders(r)["Receive"]
                       /\ Threads(r, {"DoWork", "Loop"}) =
                            Holders(r)["Kick"] \cup Holders(r)["DoWork"] \cup Holders(r)["Loop"]
    BY <1>1, ThreadSets
  <2> QED
    BY <2>1 DEF Waiting, WaitSet, Waits
<1>3. {t \in AllThreads : \E i \in DOMAIN stack[t] : stack[t][i].fn = "Adding"} = Adders
  <2> SUFFICES ASSUME NEW t \in AllThreads
               PROVE  (\E i \in DOMAIN stack[t] : stack[t][i].fn = "Adding") <=>
                        "Adding" \in RolesIn(stack[t], NoReq)
    BY DEF Adders
  <2>1. PICK s \in Seq(Frame) : s = stack[t] /\ Shape(s) /\ DOMAIN s = 1 .. Len(s)
    BY <1>1 DEF ShapeInv
  <2>2. \A i \in 1 .. Len(s) : s[i].fn = "Adding" => s[i].r = NoReq
    BY <2>1 DEF Shape
  <2>3. \A i \in 1 .. Len(s) : s[i].fn = "Adding" <=> Role(s[i]) = "Adding"
    BY DEF Role
  <2>4. "Adding" \in Roles
    BY DEF Roles, Calls
  <2> QED
    BY <2>1, <2>2, <2>3, <2>4 DEF RolesIn
<1>4. Cardinality(Adders) <= 1
  <2>1. Adders \in SUBSET AllThreads /\ \A t, u \in Adders : t = u
    BY <1>1 DEF Adders, AddInv
  <2> QED
    BY <2>1, AtMostOne
<1> QED
  BY <1>1, <1>2, <1>3, <1>4 DEF PoolExact, CountInv, AddInv

\* When the pool counts no object, none is in anybody's hands.
LEMMA NoneInUse ==
  ASSUME Inv, pool.sm_cRequests = 0
  PROVE  \A r \in Req : ~InUse(r)
<1>1. Living \subseteq Req /\ IsFiniteSet(Req)
  BY RequestAssumption DEF Living
<1>2. IsFiniteSet(Living)
  BY <1>1, FS_Subset
<1>3. Cardinality(Living) = 0
  BY DEF Inv, CountInv
<1>4. Living = {}
  BY <1>2, <1>3, FS_EmptySet
<1>5. ObjectsAccounted
  BY InvAccounted
<1> SUFFICES ASSUME NEW r \in Req
             PROVE  ~req[r].alive \/ Leaving(r)
  BY <1>5 DEF ObjectsAccounted
<1>6. ~req[r].alive \/ Holders(r)["Release"] # {}
  BY <1>4 DEF Living, Lives
<1>7. Threads(r, {"Delete", "Release"}) = Gone(Holders(r))
  BY ThreadSets DEF Inv
<1> QED
  BY <1>6, <1>7 DEF Leaving, Gone

\* Only the main thread closes the handle.
LEMMA ThreadsKeepHandle ==
  ASSUME wp \in WpRecord, NEW t, ThreadStep(t)
  PROVE  wp'.handle = wp.handle
<1>1. CASE \/ DoWork(t) \/ DoStateClientCertificate(t) \/ DoStateError(t)
           \/ DereferenceWorkerRequest(t) \/ CheckState(t) \/ FreeWorkerRequest(t)
           \/ CountFree(t) \/ RemoveFromRequestList(t) \/ ReleaseMemory(t)
           \/ AddPendingRequests(t) \/ AddDone(t)
  BY <1>1 DEF DoWork, DoStateClientCertificate, DoStateError, DereferenceWorkerRequest, CheckState,
     FreeWorkerRequest, CountFree, RemoveFromRequestList, ReleaseMemory, AddPendingRequests, AddDone
<1>2. CASE DoStateStart(t)
  <2>1. wp' = wp \/ wp' = [wp EXCEPT !.sent = @ \cup {"Restart"}]
    BY <1>2 DEF DoStateStart, StartRefused, StartAllowed
  <2> QED
    BY <2>1 DEF WpRecord
<1>3. CASE Receive(t) \/ DoStateRead(t) \/ AddOne(t)
  <2>1. wp' = wp \/ Failed
    BY <1>3 DEF Receive, ReceivePending, ReceiveFailed, DoStateRead, ReadDone, ReadFailed, NoBuffer,
       AddOne, AddFromFreeList, AddAllocated, AddFailed
  <2> QED
    BY <2>1 DEF Failed, WpRecord
<1>4. CASE DoStateProcess(t)
  BY <1>4 DEF DoStateProcess, WpRecord
<1> QED
  BY <1>1, <1>2, <1>3, <1>4 DEF ThreadStep

LEMMA WhoCloses ==
  ASSUME wp \in WpRecord, Next, wp.handle # "closed", wp'.handle = "closed"
  PROVE  StopPendingRequestsMonitor \/ AllReleased
<1>1. CASE Ended \/ \E t \in AllThreads : ThreadStep(t)
  BY <1>1, ThreadsKeepHandle DEF Ended, vars
<1>2. CASE \E t \in Thread, r \in Req : OverlappedCompletionRoutine(t, r) \/ CoreContinues(t, r)
  <2>1. wp' = wp \/ Failed
    BY <1>2 DEF OverlappedCompletionRoutine, CoreContinues
  <2> QED
    BY <2>1 DEF Failed, WpRecord
<1>3. CASE PendingRequestsMonitorHandler \/ Disconnected \/ \E r \in Req : WaitForDisconnect(r)
  BY <1>3 DEF PendingRequestsMonitorHandler, Disconnected, WaitForDisconnect, WpRecord
<1>4. CASE IdleTimeCheckCallback \/ IncrementTick
  BY <1>4 DEF IdleTimeCheckCallback, IncrementTick, WpRecord
<1>5. CASE \E immediate \in {"yes", "no"} : IndicateShutdown(immediate)
  BY <1>5 DEF IndicateShutdown, WpRecord
<1>6. CASE StartTimers
  BY <1>6 DEF StartTimers, WpRecord
<1>7. CASE RunMainThreadLoop \/ StopListening \/ ReleaseFree \/ WaitForOutstandingDisconnects \/ Terminate
  BY <1>7 DEF RunMainThreadLoop, StopListening, ReleaseFree, WaitForOutstandingDisconnects, Terminate, WpRecord
<1> QED
  BY <1>1, <1>2, <1>3, <1>4, <1>5, <1>6, <1>7 DEF Next, MainStep

LEMMA ClosesDrained ==
  ASSUME Inv, [Next]_vars, wp.handle # "closed", wp'.handle = "closed", wp._fImmediateShutdown = "no"
  PROVE  \A r \in Req : ~InUse(r)
<1>1. wp \in WpRecord
  BY OthersNow
<1>2. Next
  BY DEF vars
<1>3. StopPendingRequestsMonitor \/ AllReleased
  BY <1>1, <1>2, WhoCloses
<1>4. ~StopPendingRequestsMonitor
  <2>1. Immediate = {FALSE}
    BY DEF Immediate
  <2>2. ASSUME StopPendingRequestsMonitor
        PROVE  wp' = [wp EXCEPT !.monitor = FALSE, !.handle = wp.handle]
    BY <2>1, <2>2 DEF StopPendingRequestsMonitor
  <2> QED
    BY <1>1, <2>2 DEF WpRecord
<1>5. pool.sm_cRequests = 0
  BY <1>3, <1>4 DEF AllReleased
<1> QED
  BY <1>5, NoneInUse

-----------------------------------------------------------------------------
(***************************************************************************)
(* The theorems.  Memory is not used again while a thread that has just    *)
(* dropped a reference still looks at it: see the README.                  *)
(***************************************************************************)

\* The inductive invariant: whoever will come back to a request object holds
\* exactly one of its references (UL_NATIVE_REQUEST::_cRefs), the object's own
\* is there until the state machine meets STATE_ERROR, and the counters of the
\* pool are the numbers of objects they stand for.
THEOREM WorkerInvariant ==
  ASSUME ~StaleReuse
  PROVE  Spec => []Inv
<1>1. Init => Inv
  BY InitInv
<1>2. Inv /\ [Next]_vars => Inv'
  BY NextInv
<1> QED
  BY <1>1, <1>2, PTL DEF Spec

\* No counter of a worker process becomes negative: sm_cRequests and
\* sm_cRequestsPending are decremented by any thread, without a lock and
\* without a test, as often as they are incremented at most.
THEOREM WorkerTypes ==
  ASSUME ~StaleReuse
  PROVE  Spec => []TypeOK
<1>1. Inv => TypeOK
  BY DEF Inv
<1> QED
  BY <1>1, WorkerInvariant, PTL

\* A request object is deleted (DereferenceWorkerRequest) only when HTTP.sys,
\* the W3 core, the free list and all threads have let go of it, and none is
\* left with a reference nobody will drop.
THEOREM RequestObjects ==
  ASSUME ~StaleReuse
  PROVE  Spec => []ObjectsAccounted
<1>1. Inv => ObjectsAccounted
  BY InvAccounted
<1> QED
  BY <1>1, WorkerInvariant, PTL

\* DoWork of a request runs on one thread at a time, and on none while an
\* asynchronous call is outstanding or the object is on the free list.
THEOREM SingleDriver ==
  ASSUME ~StaleReuse
  PROVE  Spec => []OneDriver
<1>1. Inv => OneDriver
  BY InvOneDriver
<1> QED
  BY <1>1, WorkerInvariant, PTL

\* sm_cRequestsPending counts the objects that wait for a request, but for one
\* too many after each failed allocation of a buffer; one thread at most is in
\* AddPendingRequests, and sm_fAddingRequests is not left set without a failure.
THEOREM PoolCounts ==
  ASSUME ~StaleReuse
  PROVE  Spec => []PoolExact
<1>1. Inv => PoolExact
  BY InvPoolExact
<1> QED
  BY <1>1, WorkerInvariant, PTL

\* CleanupOutstandingRequests: unless the shutdown is immediate, the handle to
\* HTTP.sys is closed only when no request is in anybody's hands.
THEOREM Drained ==
  ASSUME ~StaleReuse
  PROVE  Spec => GracefulDrain
<1>1. Inv /\ [Next]_vars =>
        [wp.handle # "closed" /\ wp'.handle = "closed"
           /\ wp._fImmediateShutdown = "no" => \A r \in Req : ~InUse(r)]_vars
  BY ClosesDrained
<1> QED
  BY <1>1, WorkerInvariant, PTL DEF Spec, GracefulDrain
=============================================================================
