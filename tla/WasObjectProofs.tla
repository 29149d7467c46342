-------------------------- MODULE WasObjectProofs --------------------------
(***************************************************************************)
(* The lifetime of WORKER_PROCESS objects, for every number of objects and *)
(* every setting: m_RefCount is always the number of references held, so   *)
(* that no object is deleted while something refers to it, nor leaked.     *)
(*                                                                         *)
(* The count alone is not inductive.  A call that has been decided on is   *)
(* made later, after the calls above it on the stack, and it must then     *)
(* still find the object it was meant for.  ObjectInv says which calls may *)
(* be pending on which objects, and where on the stack.                    *)
(***************************************************************************)
EXTENDS WasSafetyProofs, FiniteSetTheorems

-----------------------------------------------------------------------------
(***************************************************************************)
(* Counting the entries of a sequence that lie in a set.                   *)
(***************************************************************************)
Count(s, S) == Cardinality({i \in DOMAIN s : s[i] \in S})

\* The entries counted are finitely many.
LEMMA CountNat ==
  ASSUME NEW X, NEW s \in Seq(X), NEW S
  PROVE  /\ IsFiniteSet({i \in DOMAIN s : s[i] \in S})
         /\ Count(s, S) \in Nat
<1>1. DOMAIN s = 1 .. Len(s) /\ Len(s) \in Nat
  OBVIOUS
<1>2. IsFiniteSet(1 .. Len(s))
  BY <1>1, FS_Interval
<1>3. {i \in DOMAIN s : s[i] \in S} \in SUBSET (1 .. Len(s))
  BY <1>1
<1> QED
  BY <1>2, <1>3, FS_Subset, FS_CardinalityType DEF Count

\* An entry of the set makes the count positive.
LEMMA CountPositive ==
  ASSUME NEW X, NEW s \in Seq(X), NEW S, NEW i \in 1 .. Len(s), s[i] \in S
  PROVE  Count(s, S) >= 1
<1> DEFINE A == {j \in DOMAIN s : s[j] \in S}
<1>1. IsFiniteSet(A) /\ Count(s, S) \in Nat /\ Count(s, S) = Cardinality(A)
  BY CountNat DEF Count
<1>2. A # {}
  OBVIOUS
<1>3. Cardinality(A) # 0
  BY <1>1, <1>2, FS_EmptySet
<1> QED
  BY <1>1, <1>3

\* The empty sequence has no entries, and a sequence of one has one or none.
LEMMA CountSmall ==
  ASSUME NEW S, NEW x
  PROVE  Count(<<>>, S) = 0 /\ Count(<<x>>, S) = IF x \in S THEN 1 ELSE 0
<1>1. {i \in DOMAIN <<>> : <<>>[i] \in S} = {}
  OBVIOUS
<1>2. {i \in DOMAIN <<x>> : <<x>>[i] \in S} = IF x \in S THEN {1} ELSE {}
  OBVIOUS
<1> QED
  BY <1>1, <1>2, FS_EmptySet, FS_Singleton DEF Count

\* The entries of a concatenation are those of its parts.
LEMMA CountConcat ==
  ASSUME NEW X, NEW s \in Seq(X), NEW t \in Seq(X), NEW S
  PROVE  Count(s \o t, S) = Count(s, S) + Count(t, S)
<1> DEFINE A == {i \in DOMAIN (s \o t) : (s \o t)[i] \in S}
           B == {i \in DOMAIN s : s[i] \in S}
           C == {i \in DOMAIN t : t[i] \in S}
           E == {i \in DOMAIN (s \o t) : i > Len(s) /\ (s \o t)[i] \in S}
           f == [i \in C |-> i + Len(s)]
<1>1. /\ Len(s) \in Nat /\ Len(t) \in Nat /\ Len(s \o t) = Len(s) + Len(t)
      /\ DOMAIN s = 1 .. Len(s) /\ DOMAIN t = 1 .. Len(t)
      /\ DOMAIN (s \o t) = 1 .. Len(s) + Len(t)
      /\ \A i \in 1 .. Len(s) : (s \o t)[i] = s[i]
      /\ \A i \in 1 .. Len(t) : (s \o t)[i + Len(s)] = t[i]
  OBVIOUS
<1>2. A = B \cup E /\ B \cap E = {}
  BY <1>1
<1>3. \A e \in E : e - Len(s) \in C /\ f[e - Len(s)] = e
  BY <1>1
<1>4. \A i \in C : f[i] \in E
  BY <1>1
<1>5. f \in Bijection(C, E)
  <2>1. f \in [C -> E]
    BY <1>4
  <2>2. \A i, j \in C : f[i] = f[j] => i = j
    BY <1>1
  <2>3. \A e \in E : \E i \in C : f[i] = e
    BY <1>3
  <2> HIDE DEF f
  <2> QED
    BY <2>1, <2>2, <2>3 DEF Bijection, Injection, Surjection, IsInjective
<1>6. IsFiniteSet(B) /\ IsFiniteSet(C) /\ Cardinality(B) \in Nat /\ Cardinality(C) \in Nat
  BY CountNat DEF Count
<1>7. IsFiniteSet(E) /\ Cardinality(E) = Cardinality(C)
  BY <1>5, <1>6, FS_Bijection DEF ExistsBijection
<1>8. Cardinality(A) = Cardinality(B) + Cardinality(E) - Cardinality(B \cap E)
  BY <1>2, <1>6, <1>7, FS_Union
<1>9. Cardinality(B \cap E) = 0
  BY <1>2, FS_EmptySet
<1>10. /\ Count(s \o t, S) = Cardinality(A)
       /\ Count(s, S) = Cardinality(B) /\ Count(t, S) = Cardinality(C)
  BY DEF Count
<1> HIDE DEF A, B, C, E
<1> QED
  BY <1>6, <1>7, <1>8, <1>9, <1>10

\* Taking the first entry off.
LEMMA CountTail ==
  ASSUME NEW X, NEW s \in Seq(X), s # <<>>, NEW S
  PROVE  Count(s, S) = Count(Tail(s), S) + (IF Head(s) \in S THEN 1 ELSE 0)
<1>1. s = <<Head(s)>> \o Tail(s) /\ <<Head(s)>> \in Seq(X) /\ Tail(s) \in Seq(X)
  OBVIOUS
<1>2. Count(<<Head(s)>> \o Tail(s), S) = Count(<<Head(s)>>, S) + Count(Tail(s), S)
  BY <1>1, CountConcat
<1>3. Count(Tail(s), S) \in Nat
  BY <1>1, CountNat
<1>4. Count(<<Head(s)>>, S) = IF Head(s) \in S THEN 1 ELSE 0
  BY CountSmall
<1>5. Count(s, S) = Count(<<Head(s)>>, S) + Count(Tail(s), S)
  BY <1>1, <1>2, Zenon
<1> QED
  BY <1>3, <1>4, <1>5

\* A sequence of two.
LEMMA CountPair ==
  ASSUME NEW X, NEW f \in X, NEW g \in X, NEW S
  PROVE  Count(<<f, g>>, S) = (IF f \in S THEN 1 ELSE 0) + (IF g \in S THEN 1 ELSE 0)
<1> DEFINE s == <<f, g>>
<1>1. s \in Seq(X) /\ s # <<>> /\ Head(s) = f
  OBVIOUS
<1>2. Tail(s) = <<g>>
  OBVIOUS
<1>3. Count(<<g>>, S) = IF g \in S THEN 1 ELSE 0
  BY CountSmall
<1> HIDE DEF s
<1>4. Count(s, S) = Count(Tail(s), S) + (IF Head(s) \in S THEN 1 ELSE 0)
  BY <1>1, CountTail
<1>5. Count(s, S) = (IF g \in S THEN 1 ELSE 0) + (IF f \in S THEN 1 ELSE 0)
  BY <1>1, <1>2, <1>3, <1>4, Zenon
<1> QED
  BY <1>5 DEF s

-----------------------------------------------------------------------------
(***************************************************************************)
(* The inductive invariant.                                                *)
(***************************************************************************)
Dead(w) == wp[w].m_State \in {"Free", "DeletePending"}
Sick(w) == wp[w].m_TerminalIllReason # "NotIll"
Old(w) == wp[w].m_pWorkerProcessToReplace
At(i, fn, w) == stack[i].fn = fn /\ stack[i].w = w
Bottom == stack[Len(stack)]

\* The pool is not running, or will not be when the pending calls have returned.
Covered == pool.m_State # "Running" \/ Disabling(stack)

\* A terminated object that a reference held by a call further down keeps alive.
KeptBelow(w, i) ==
  /\ wp[w].m_State = "DeletePending"
  /\ \E j \in i + 1 .. Len(stack) : stack[j] = Call("Dereference", w)

\* The calls that lead to the termination of their object or of the one it replaces.
Danger == {"Shutdown", "InitiateReplacement", "MarkAsTerminallyIll", "Terminate",
           "TerminateTail", "Initialize"}
\* The call at i does not lead to the termination of x.
Spares(i, x) ==
  /\ stack[i].w # x
  /\ \/ Old(stack[i].w) # x
     \/ stack[i].fn \in {"Shutdown", "InitiateReplacement"} /\ wp[stack[i].w].m_State # "Running"
Replacing == stack # <<>> /\ Bottom.fn = "ReplaceAll" /\ Bottom.w \in WP /\ ~Covered

\* Where calls stand on the stack: the loop over the list that replaces processes and
\* the end of a startup at the bottom, calls with a decision to make at the top.
Placed(i) ==
  /\ stack[i].fn = "Dereference" => stack[i] = Call("Dereference", stack[i].w)
  /\ stack[i].fn = "MarkAsTerminallyIll" => stack[i].why # "NotIll"
  /\ stack[i].fn \in {"ReplaceAll", "ConfigChange", "StartupTail"} => i = Len(stack)
  /\ stack[i].fn \in {"MarkAsTerminallyIll", "InitiateReplacement", "Initialize"} => i = 1
  /\ stack[i].fn \in {"PoolTerminate", "TerminateAll"} => i = Len(stack) \/ (i = 1 /\ list = <<>>)
  /\ stack[i].fn = "InitiateReplacement" =>
       Len(stack) <= 2 /\ (Len(stack) = 2 => stack[2].fn = "ReplaceAll")

\* What the call at i finds: an object that is still there, if it is to be terminated,
\* and that nobody else is terminating.
Founded(i) ==
  /\ stack[i].fn = "Initialize" =>
       wp[stack[i].w].m_State = "Uninitialized" /\ wp[stack[i].w].m_pMessagingHandler = "NULL"
  /\ stack[i].fn = "InitiateReplacement" =>
       wp[stack[i].w].m_State # "Free" \/ pool.m_State # "Running"
  /\ stack[i].fn = "MarkAsTerminallyIll" =>
       Sick(stack[i].w) \/ ~Dead(stack[i].w) \/ KeptBelow(stack[i].w, i)
  /\ stack[i].fn = "Terminate" =>
       /\ i = 1 \/ Sick(stack[i].w)
       /\ ~Dead(stack[i].w) \/ KeptBelow(stack[i].w, i)
       /\ \A j \in 1 .. Len(stack) : At(j, "Terminate", stack[i].w) => j = i
  /\ stack[i].fn = "TerminateTail" =>
       /\ wp[stack[i].w].m_State = "DeletePending"
       /\ \A j \in 1 .. Len(stack) : At(j, "TerminateTail", stack[i].w) => j = i

\* The process to replace has been let go of before the calls that come after that,
\* and nothing terminates the entry at which the replacing loop goes on.
Ordered(i) ==
  /\ stack[i].fn \in {"TerminateTail", "StartupTail"} /\ Old(stack[i].w) # NoWP =>
       i > 1 /\ At(i - 1, "DropPredecessor", stack[i].w)
  /\ stack[i].fn \in Danger /\ Replacing => Spares(i, Bottom.w)

FrameInv(i) == Placed(i) /\ Founded(i) /\ Ordered(i)
FramesInv == \A i \in 1 .. Len(stack) : FrameInv(i)

Distinct == \A i, j \in 1 .. Len(list) : list[i] = list[j] => i = j
Empties == \A w \in WP : wp[w].m_State = "Free" =>
             wp[w].m_RefCount = 0 /\ Old(w) = NoWP /\ ~Sick(w)
Terminating(w) == \E i \in 1 .. Len(stack) : At(i, "TerminateTail", w)
Membership == \A w \in WP : InList(w) <=> ~Dead(w) \/ Terminating(w)
Successors == \A w \in WP : Old(w) # NoWP => InList(w)
WalkListed == Replacing => InList(Bottom.w)
WalkCovered == \A i \in 1 .. Len(stack) : stack[i].fn = "ShutdownAll" => Covered
\* A running process has let go of the one it replaces, or is about to.
Starting == \A w \in WP : wp[w].m_State = "Running" /\ Old(w) # NoWP =>
  /\ stack # <<>>
  /\ At(Len(stack), "StartupTail", w) \/ (Len(stack) = 1 /\ At(1, "Shutdown", w))

ListInv == Distinct /\ Membership /\ Successors /\ WalkListed /\ WalkCovered /\ Starting
ObjectInv == QuietInvariant /\ FramesInv /\ ListInv /\ Empties /\ RefCountExact

-----------------------------------------------------------------------------
\* Where the calls stand after a return.
LEMMA Pushed ==
  ASSUME TypeOK, stack # <<>>, NEW frames \in Seq(Frames), Return(frames)
  PROVE  /\ Len(frames) \in Nat /\ Len(stack) \in Nat \ {0}
         /\ Len(stack') = Len(frames) + Len(stack) - 1
         /\ stack' \in Seq(Frames)
         /\ \A i \in 1 .. Len(frames) : stack'[i] = frames[i]
         /\ \A i \in 2 .. Len(stack) : stack'[Len(frames) + i - 1] = stack[i]
         /\ \A i \in Len(frames) + 1 .. Len(stack') :
              /\ stack'[i] = stack[i - Len(frames) + 1]
              /\ i - Len(frames) + 1 \in 2 .. Len(stack)
         /\ Head(stack) = stack[1]
<1>1. stack \in Seq(Frames) /\ Tail(stack) \in Seq(Frames) /\ Len(Tail(stack)) = Len(stack) - 1
      /\ Len(stack) \in Nat \ {0} /\ Len(frames) \in Nat
      /\ \A i \in 1 .. Len(stack) - 1 : Tail(stack)[i] = stack[i + 1]
  BY DEF TypeOK
<1>2. stack' = frames \o Tail(stack)
  BY DEF Return
<1>3. /\ Len(stack') = Len(frames) + Len(stack) - 1
      /\ stack' \in Seq(Frames)
      /\ \A i \in 1 .. Len(frames) : stack'[i] = frames[i]
      /\ \A i \in 1 .. Len(stack) - 1 : stack'[Len(frames) + i] = Tail(stack)[i]
  BY <1>1, <1>2
<1>4. \A i \in 2 .. Len(stack) : stack'[Len(frames) + i - 1] = stack[i]
  <2> TAKE i \in 2 .. Len(stack)
  <2>1. i - 1 \in 1 .. Len(stack) - 1
    BY <1>1
  <2>2. stack'[Len(frames) + (i - 1)] = Tail(stack)[i - 1] /\ Tail(stack)[i - 1] = stack[(i - 1) + 1]
    BY <1>1, <1>3, <2>1
  <2> QED
    BY <1>1, <2>2
<1>5. \A i \in Len(frames) + 1 .. Len(stack') :
              /\ stack'[i] = stack[i - Len(frames) + 1]
              /\ i - Len(frames) + 1 \in 2 .. Len(stack)
  <2> TAKE i \in Len(frames) + 1 .. Len(stack')
  <2> DEFINE k == i - Len(frames) + 1
  <2>1. k \in 2 .. Len(stack) /\ Len(frames) + k - 1 = i
    BY <1>1, <1>3
  <2> QED
    BY <1>4, <2>1
<1> QED
  BY <1>1, <1>3, <1>4, <1>5

\* What a step may not do to an object on which a termination is pending.
Steady(v) ==
  /\ Sick(v) => Sick(v)'
  /\ ~Dead(v) => ~Dead(v)'
  /\ wp[v].m_State = "DeletePending" => wp'[v].m_State = "DeletePending"
SameOld(v) == Old(v)' \in {Old(v), NoWP}
Unmentioned(v, fns) == \A i \in 2 .. Len(stack) : stack[i].w = v => stack[i].fn \notin fns

\* Calls that stay on the stack stay well founded.
LEMMA OldFrames ==
  ASSUME TypeOK, FramesInv, stack # <<>>, NEW frames \in Seq(Frames), Return(frames),
         \A v \in WP : SameOld(v) \/ Unmentioned(v, Danger \cup {"StartupTail"}),
         \A v \in WP : Steady(v) \/ Unmentioned(v, {"Terminate", "TerminateTail"}),
         \A v \in WP : wp'[v].m_State = "Running" => wp[v].m_State = "Running",
         \A v \in WP : At(1, "DropPredecessor", v) => Old(v)' = NoWP,
         Covered => Covered',
         \A i \in 1 .. Len(frames) : FrameInv(i)'
  PROVE  FramesInv'
<1> DEFINE n == Len(frames)
<1>0. stack \in Seq(Frames) /\ Len(stack) \in Nat /\ n \in Nat
  BY DEF TypeOK
<1>1. /\ Len(stack') = n + Len(stack) - 1
      /\ \A i \in 1 .. n : stack'[i] = frames[i]
      /\ \A i \in 2 .. Len(stack) : stack'[n + i - 1] = stack[i]
      /\ \A i \in n + 1 .. Len(stack') :
           stack'[i] = stack[i - n + 1] /\ i - n + 1 \in 2 .. Len(stack)
      /\ Head(stack) = stack[1]
  BY Pushed
<1> SUFFICES ASSUME NEW i \in 1 .. Len(stack'), i > n
             PROVE  FrameInv(i)'
  BY <1>0, <1>1 DEF FramesInv
<1> HIDE DEF n
<1>2. PICK k \in 2 .. Len(stack) : k = i - n + 1 /\ stack'[i] = stack[k]
  BY <1>0, <1>1
<1>3. FrameInv(k) /\ k \in 1 .. Len(stack) /\ i \in Nat /\ k \in Nat
  BY <1>0, <1>2 DEF FramesInv
<1>4. i = Len(stack') <=> k = Len(stack)
  BY <1>0, <1>1, <1>2
<1>5. Placed(i)'
  BY <1>0, <1>1, <1>2, <1>3, <1>4 DEF FrameInv, Placed
<1>6. stack[k] \in Frames
  BY <1>0, <1>2
<1>11. PICK w : w = stack[k].w
  OBVIOUS
<1>12. stack'[i].fn = stack[k].fn /\ stack'[i].w = w
  BY <1>2, <1>11
<1>7. stack[k].fn \in WorkerProcessMethods => w \in WP
  BY <1>6, <1>11 DEF Frames, WorkerProcessMethods, Walks, AppPoolMethods
<1>8. \A j \in k + 1 .. Len(stack) :
        n + j - 1 \in i + 1 .. Len(stack') /\ stack'[n + j - 1] = stack[j]
  BY <1>0, <1>1, <1>2, <1>3
<1>9. Founded(i)'
  <2>1. stack[k].fn \notin {"Initialize", "InitiateReplacement", "MarkAsTerminallyIll"}
    BY <1>2, <1>3 DEF FrameInv, Placed
  <2>2. CASE stack[k].fn = "Terminate"
    <3>0. w \in WP
      BY <1>7, <2>2 DEF WorkerProcessMethods
    <3>1. Steady(w)
      BY <1>2, <1>11, <2>2, <3>0 DEF Unmentioned
    <3>2. /\ Sick(w)
          /\ ~Dead(w) \/ KeptBelow(w, k)
          /\ \A j \in 1 .. Len(stack) : At(j, "Terminate", w) => j = k
      BY <1>2, <1>3, <1>11, <2>2 DEF FrameInv, Founded
    <3>3. Sick(w)'
      BY <3>1, <3>2 DEF Steady
    <3>4. ~Dead(w)' \/ KeptBelow(w, i)'
      <4>1. CASE ~Dead(w)
        BY <3>1, <4>1 DEF Steady
      <4>2. CASE KeptBelow(w, k)
        <5>1. wp'[w].m_State = "DeletePending"
          BY <3>1, <4>2 DEF Steady, KeptBelow
        <5>2. PICK j \in k + 1 .. Len(stack) : stack[j] = Call("Dereference", w)
          BY <4>2 DEF KeptBelow
        <5> QED
          BY <1>8, <5>1, <5>2 DEF KeptBelow
      <4> QED
        BY <3>2, <4>1, <4>2
    <3>5. \A j \in 1 .. Len(stack') : At(j, "Terminate", w)' => j = i
      <4> SUFFICES ASSUME NEW j \in 1 .. Len(stack'), At(j, "Terminate", w)'
                   PROVE  j = i
        OBVIOUS
      <4>1. CASE j > n
        <5>0. j \in n + 1 .. Len(stack')
          BY <1>0, <1>1, <4>1
        <5>1. PICK m \in 2 .. Len(stack) : m = j - n + 1 /\ stack'[j] = stack[m]
          BY <1>1, <5>0
        <5>2. m = k
          BY <3>2, <5>1 DEF At
        <5> QED
          BY <1>0, <1>2, <5>1, <5>2
      <4>2. CASE j <= n
        <5>1. FrameInv(j)' /\ stack'[j].fn = "Terminate" /\ stack'[j].w = w
          BY <1>0, <4>2 DEF At, n
        <5>2. \A m \in 1 .. Len(stack') : At(m, "Terminate", w)' => m = j
          BY <5>1 DEF FrameInv, Founded
        <5>3. At(i, "Terminate", w)'
          BY <1>12, <2>2 DEF At
        <5> QED
          BY <5>2, <5>3
      <4> QED
        BY <1>0, <4>1, <4>2
    <3> QED
      BY <1>12, <2>2, <3>3, <3>4, <3>5 DEF Founded
  <2>3. CASE stack[k].fn = "TerminateTail"
    <3>0. w \in WP
      BY <1>7, <2>3 DEF WorkerProcessMethods
    <3>1. Steady(w)
      BY <1>2, <1>11, <2>3, <3>0 DEF Unmentioned
    <3>2. /\ wp[w].m_State = "DeletePending"
          /\ \A j \in 1 .. Len(stack) : At(j, "TerminateTail", w) => j = k
      BY <1>2, <1>3, <1>11, <2>3 DEF FrameInv, Founded
    <3>3. wp'[w].m_State = "DeletePending"
      BY <3>1, <3>2 DEF Steady
    <3>5. \A j \in 1 .. Len(stack') : At(j, "TerminateTail", w)' => j = i
      <4> SUFFICES ASSUME NEW j \in 1 .. Len(stack'), At(j, "TerminateTail", w)'
                   PROVE  j = i
        OBVIOUS
      <4>1. CASE j > n
        <5>0. j \in n + 1 .. Len(stack')
          BY <1>0, <1>1, <4>1
        <5>1. PICK m \in 2 .. Len(stack) : m = j - n + 1 /\ stack'[j] = stack[m]
          BY <1>1, <5>0
        <5>2. m = k
          BY <3>2, <5>1 DEF At
        <5> QED
          BY <1>0, <1>2, <5>1, <5>2
      <4>2. CASE j <= n
        <5>1. FrameInv(j)' /\ stack'[j].fn = "TerminateTail" /\ stack'[j].w = w
          BY <1>0, <4>2 DEF At, n
        <5>2. \A m \in 1 .. Len(stack') : At(m, "TerminateTail", w)' => m = j
          BY <5>1 DEF FrameInv, Founded
        <5>3. At(i, "TerminateTail", w)'
          BY <1>12, <2>3 DEF At
        <5> QED
          BY <5>2, <5>3
      <4> QED
        BY <1>0, <4>1, <4>2
    <3> QED
      BY <1>12, <2>3, <3>3, <3>5 DEF Founded
  <2> QED
    BY <1>2, <2>1, <2>2, <2>3 DEF Founded
<1>10. Ordered(i)'
  <2>1. ASSUME stack[k].fn \in {"TerminateTail", "StartupTail"}, Old(w)' # NoWP
        PROVE  i > 1 /\ At(i - 1, "DropPredecessor", w)'
    <3>0. w \in WP
      BY <1>7, <2>1 DEF WorkerProcessMethods
    <3>1. SameOld(w)
      BY <1>2, <1>11, <2>1, <3>0 DEF Unmentioned, Danger
    <3>2. At(k - 1, "DropPredecessor", w)
      BY <1>3, <1>11, <2>1, <3>1 DEF FrameInv, Ordered, SameOld
    <3>3. k - 1 # 1
      <4> SUFFICES ASSUME k - 1 = 1 PROVE FALSE
        OBVIOUS
      <4>1. At(1, "DropPredecessor", w)
        BY <3>2
      <4> QED
        BY <2>1, <3>0, <4>1
    <3>4. k - 1 \in 2 .. Len(stack) /\ n + (k - 1) - 1 = i - 1 /\ i > 1
      BY <1>0, <1>2, <1>3, <3>3
    <3>5. stack'[i - 1] = stack[k - 1]
      BY <1>1, <3>4
    <3> QED
      BY <3>2, <3>4, <3>5 DEF At
  <2>2. ASSUME stack[k].fn \in Danger, Replacing'
        PROVE  Spares(i, Bottom.w)'
    <3>0. w \in WP
      BY <1>7, <2>2 DEF WorkerProcessMethods, Danger
    <3>1. SameOld(w)
      BY <1>2, <1>11, <2>2, <3>0 DEF Unmentioned
    <3>2. stack'[Len(stack')] = stack[Len(stack)]
      BY <1>0, <1>1, <1>2
    <3>3. Replacing
      BY <2>2, <3>2 DEF Replacing, Bottom
    <3>4. Spares(k, Bottom.w)
      BY <1>3, <2>2, <3>3 DEF FrameInv, Ordered
    <3>5. Bottom.w \in WP /\ Bottom.w # NoWP
      BY <3>3, PointerAssumption DEF Replacing
    <3>6. Bottom' = Bottom
      BY <3>2 DEF Bottom
    <3> QED
      BY <1>11, <1>12, <3>0, <3>1, <3>4, <3>5, <3>6 DEF Spares, SameOld
  <2> QED
    BY <1>12, <2>1, <2>2 DEF Ordered
<1> QED
  BY <1>5, <1>9, <1>10 DEF FrameInv

-----------------------------------------------------------------------------
\* A call leaves the pool in its state, or stops it.
LEMMA CallsPoolState ==
  ASSUME TypeOK, MakeCall
  PROVE  pool'.m_State = pool.m_State \/ pool'.m_State # "Running"
<1>0. pool \in AppPools
  BY DEF TypeOK
<1>1. CASE ReportFailure
  <2>1. UNCHANGED pool \/ \E n : pool' = [pool EXCEPT !.m_RecentWorkerProcessFailures = n]
    BY <1>1 DEF ReportFailure
  <2> QED
    BY <1>0, <2>1 DEF AppPools
<1>2. CASE DisableTail
  BY <1>0, <1>2 DEF DisableTail, AppPools
<1>3. CASE PoolTerminate
  BY <1>0, <1>3 DEF PoolTerminate, AppPools
<1>4. CASE HandleConfigChange
  BY <1>4, StaggeredKeeps DEF HandleConfigChange
<1>5. CASE InitiateReplacement
  BY <1>5, StaggeredKeeps DEF InitiateReplacement
<1>6. CASE TerminateTail
  <2>1. \E waits : pool' = [pool EXCEPT !.m_WaitingForDemandStart = waits]
    BY <1>6 DEF TerminateTail
  <2> QED
    BY <1>0, <2>1 DEF AppPools
<1>7. \/ ReportFailure \/ DisableTail \/ PoolTerminate \/ HandleConfigChange
      \/ TerminateTail \/ InitiateReplacement \/ UNCHANGED pool
  BY DEF MakeCall, AppPoolCall, WorkerProcessCall, DisableAppPool, ShutdownAllWorkerProcesses,
       ReplaceAllWorkerProcesses, CheckShutdown, TerminateAll, Initialize, Shutdown,
       Dereference, MarkAsTerminallyIll, Terminate, DropPredecessor, StartupTail,
       MarkReplaced, DetachHandler
<1> QED
  BY <1>1, <1>2, <1>3, <1>4, <1>5, <1>6, <1>7

\* Every call returns after making others.
LEMMA CallsReturn ==
  ASSUME TypeOK, MakeCall
  PROVE  stack # <<>> /\ \E frames \in Seq(Frames) : Return(frames)
<1>1. CASE InitiateReplacement
  BY <1>1, InitiateReplacementReturns
<1>2. CASE ~InitiateReplacement
  BY <1>2, AppPoolCallReturns, WorkerProcessCallReturns
     DEF MakeCall, AppPoolCall, WorkerProcessCall, Plain
<1> QED
  BY <1>1, <1>2

\* A pool that is not running, or is about to stop, stays so during a work item.
LEMMA CoveredStays ==
  ASSUME TypeOK, MakeCall, Covered
  PROVE  Covered'
<1>1. CASE pool.m_State # "Running"
  BY <1>1, CallsPoolState DEF Covered
<1>2. CASE pool.m_State = "Running" /\ Head(stack).fn = "DisableAppPool"
  <2>1. DisableAppPool
    BY <1>2 DEF MakeCall, AppPoolCall, WorkerProcessCall, DisableAppPool,
       ReportFailure, DisableTail, PoolTerminate, HandleConfigChange, TerminateTail,
       InitiateReplacement, ShutdownAllWorkerProcesses,
       ReplaceAllWorkerProcesses, CheckShutdown, TerminateAll, Initialize, Shutdown,
       Dereference, MarkAsTerminallyIll, Terminate, DropPredecessor, StartupTail,
       MarkReplaced, DetachHandler, Calling
  <2> DEFINE walk == WalkFrom("ShutdownAll", FirstEntry)
             tail == Call("DisableTail", NoWP)
  <2>2. stack' = (walk \o <<tail>>) \o Tail(stack)
    BY <1>2, <2>1 DEF DisableAppPool, Return
  <2>3. walk \in Seq(Frames) /\ tail \in Frames /\ Tail(stack) \in Seq(Frames)
    BY <2>1, ListType, WalkFrames, PoolFrame
       DEF TypeOK, DisableAppPool, Calling, Walks, AppPoolMethods
  <2>4. tail.fn = "DisableTail"
    BY DEF Call
  <2> HIDE DEF walk, tail
  <2>5. stack'[Len(walk) + 1] = tail /\ Len(walk) + 1 \in 1 .. Len(stack')
    BY <2>2, <2>3
  <2> QED
    BY <2>4, <2>5 DEF Disabling, Covered
<1>3. CASE Head(stack).fn = "DisableTail"
  <2>1. DisableTail
    BY <1>3 DEF MakeCall, AppPoolCall, WorkerProcessCall, DisableAppPool,
       ReportFailure, DisableTail, PoolTerminate, HandleConfigChange, TerminateTail,
       InitiateReplacement, ShutdownAllWorkerProcesses,
       ReplaceAllWorkerProcesses, CheckShutdown, TerminateAll, Initialize, Shutdown,
       Dereference, MarkAsTerminallyIll, Terminate, DropPredecessor, StartupTail,
       MarkReplaced, DetachHandler, Calling
  <2>2. pool'.m_State = "Disabled"
    BY <2>1 DEF DisableTail, AppPools, TypeOK
  <2> QED
    BY <2>2 DEF Covered
<1>4. CASE Disabling(stack) /\ Head(stack).fn \notin {"DisableAppPool", "DisableTail"}
  BY <1>4, CallsReturn, DisablingStays DEF Covered
<1> QED
  BY <1>1, <1>2, <1>3, <1>4 DEF Covered

-----------------------------------------------------------------------------
\* The loops over the list go on at an entry of it.
LEMMA WalksKept ==
  ASSUME TypeOK, ListInv, stack # <<>>, NEW frames \in Seq(Frames), Return(frames),
         Covered => Covered',
         \A i \in 1 .. Len(frames) : frames[i].fn = "ShutdownAll" => Covered',
         \A i \in 1 .. Len(frames) : frames[i].fn = "ReplaceAll" /\ frames[i].w \in WP =>
            frames[i].w \in ToSet(list'),
         Replacing /\ Len(stack) > 1 => Bottom.w \in ToSet(list')
  PROVE  WalkListed' /\ WalkCovered'
<1> DEFINE n == Len(frames)
<1>1. /\ n \in Nat /\ Len(stack) \in Nat \ {0}
      /\ Len(stack') = n + Len(stack) - 1
      /\ \A i \in 1 .. n : stack'[i] = frames[i]
      /\ \A i \in 2 .. Len(stack) : stack'[n + i - 1] = stack[i]
      /\ \A i \in n + 1 .. Len(stack') :
           stack'[i] = stack[i - n + 1] /\ i - n + 1 \in 2 .. Len(stack)
  BY Pushed
<1>0. Len(stack) = 1 \/ Len(stack) > 1
  <2>1. \A m \in Nat \ {0} : m = 1 \/ m > 1
    OBVIOUS
  <2>2. Len(stack) \in Nat \ {0}
    BY <1>1
  <2> QED
    BY <2>1, <2>2
<1>2. WalkCovered'
  <2> SUFFICES ASSUME NEW i \in 1 .. Len(stack'), stack'[i].fn = "ShutdownAll"
               PROVE  Covered'
    BY DEF WalkCovered
  <2>1. CASE i <= n
    BY <1>1, <2>1
  <2>2. CASE i > n
    <3>1. i \in n + 1 .. Len(stack')
      BY <1>1, <2>2
    <3>2. PICK k \in 2 .. Len(stack) : stack'[i] = stack[k]
      BY <1>1, <3>1
    <3>3. k \in 1 .. Len(stack)
      BY <1>1, <3>2
    <3> QED
      BY <3>2, <3>3 DEF ListInv, WalkCovered
  <2> QED
    BY <1>1, <2>1, <2>2
<1>3. WalkListed'
  <2> SUFFICES ASSUME Replacing'
               PROVE  InList(Bottom.w)'
    BY DEF WalkListed
  <2>1. CASE Len(stack) > 1
    <3>1. stack'[Len(stack')] = stack[Len(stack)]
      BY <1>1, <2>1
    <3>2. Replacing /\ Bottom' = Bottom
      BY <2>1, <3>1 DEF Replacing, Bottom
    <3> QED
      BY <2>1, <3>2 DEF InList
  <2>2. CASE Len(stack) = 1
    <3>1. Len(stack') = n /\ n \in 1 .. n /\ stack'[n] = frames[n]
      BY <1>1, <2>2 DEF Replacing
    <3>2. frames[n].fn = "ReplaceAll" /\ frames[n].w \in WP /\ Bottom' = frames[n]
      BY <3>1 DEF Replacing, Bottom
    <3> QED
      BY <3>1, <3>2 DEF InList
  <2> QED
    BY <1>0, <2>1, <2>2
<1> QED
  BY <1>2, <1>3

\* A process that runs while it has still to let go of another was already doing so.
LEMMA StartingKept ==
  ASSUME TypeOK, FramesInv, ListInv, stack # <<>>, NEW frames \in Seq(Frames), Return(frames),
         \A v \in WP : wp'[v].m_State = "Running" => wp[v].m_State = "Running" /\ SameOld(v),
         \A v \in WP : At(1, "Shutdown", v) => wp'[v].m_State # "Running"
  PROVE  Starting'
<1> SUFFICES ASSUME NEW v \in WP, wp'[v].m_State = "Running", Old(v)' # NoWP
             PROVE  stack' # <<>> /\ At(Len(stack), "StartupTail", v)'
  BY DEF Starting
<1> DEFINE n == Len(frames)
<1>1. /\ n \in Nat /\ Len(stack) \in Nat \ {0}
      /\ Len(stack') = n + Len(stack) - 1
      /\ stack' \in Seq(Frames)
      /\ \A i \in 2 .. Len(stack) : stack'[n + i - 1] = stack[i]
  BY Pushed
<1>0. Len(stack) = 1 \/ Len(stack) > 1
  <2>1. \A m \in Nat \ {0} : m = 1 \/ m > 1
    OBVIOUS
  <2>2. Len(stack) \in Nat \ {0}
    BY <1>1
  <2> QED
    BY <2>1, <2>2
<1>2. wp[v].m_State = "Running" /\ Old(v) # NoWP
  BY DEF SameOld
<1>3. At(Len(stack), "StartupTail", v) \/ (Len(stack) = 1 /\ At(1, "Shutdown", v))
  BY <1>2 DEF ListInv, Starting
<1>4. At(Len(stack), "StartupTail", v)
  BY <1>3
<1>5. Len(stack) > 1
  <2> SUFFICES ASSUME Len(stack) = 1 PROVE FALSE
    BY <1>0
  <2>1. FrameInv(1) /\ stack[1].fn = "StartupTail" /\ stack[1].w = v
    BY <1>4 DEF FramesInv, At
  <2> QED
    BY <1>2, <2>1 DEF FrameInv, Ordered
<1>6. stack'[Len(stack')] = stack[Len(stack)] /\ stack' # <<>>
  BY <1>1, <1>5
<1> QED
  BY <1>4, <1>6 DEF At

\* A call that is not the end of a Terminate, nor leads to one at once.
LEMMA TerminatingKept ==
  ASSUME TypeOK, stack # <<>>, NEW frames \in Seq(Frames), Return(frames), NEW v \in WP,
         ~At(1, "TerminateTail", v),
         \A i \in 1 .. Len(frames) : frames[i].fn = "TerminateTail" => frames[i].w # v
  PROVE  Terminating(v)' <=> Terminating(v)
<1> DEFINE n == Len(frames)
<1>1. /\ n \in Nat /\ Len(stack) \in Nat \ {0}
      /\ Len(stack') = n + Len(stack) - 1
      /\ \A i \in 1 .. n : stack'[i] = frames[i]
      /\ \A i \in 2 .. Len(stack) : stack'[n + i - 1] = stack[i]
      /\ \A i \in n + 1 .. Len(stack') :
           stack'[i] = stack[i - n + 1] /\ i - n + 1 \in 2 .. Len(stack)
  BY Pushed
<1>2. ASSUME Terminating(v) PROVE Terminating(v)'
  <2>1. PICK k \in 1 .. Len(stack) : At(k, "TerminateTail", v)
    BY <1>2 DEF Terminating
  <2>2. k \in 2 .. Len(stack) /\ n + k - 1 \in 1 .. Len(stack')
    BY <1>1, <2>1
  <2>3. At(n + k - 1, "TerminateTail", v)'
    BY <1>1, <2>1, <2>2 DEF At
  <2> QED
    BY <2>2, <2>3 DEF Terminating
<1>3. ASSUME Terminating(v)' PROVE Terminating(v)
  <2>1. PICK i \in 1 .. Len(stack') : At(i, "TerminateTail", v)'
    BY <1>3 DEF Terminating
  <2>2. i > n
    BY <1>1, <2>1 DEF At
  <2>3. i \in n + 1 .. Len(stack')
    BY <1>1, <2>2
  <2>4. PICK k \in 2 .. Len(stack) : stack'[i] = stack[k]
    BY <1>1, <2>3
  <2>5. k \in 1 .. Len(stack) /\ At(k, "TerminateTail", v)
    BY <1>1, <2>1, <2>4 DEF At
  <2> QED
    BY <2>5 DEF Terminating
<1> QED
  BY <1>2, <1>3

\* What an ordinary call does to an object: it keeps it, or drops the last reference to
\* one that has been terminated and that no call is about to terminate.
SameCore(r, s) ==
  /\ r.m_State = s.m_State /\ r.m_TerminalIllReason = s.m_TerminalIllReason
  /\ r.m_pWorkerProcessToReplace = s.m_pWorkerProcessToReplace
  /\ r.m_RefCount = s.m_RefCount /\ r.m_pMessagingHandler = s.m_pMessagingHandler
Kept(v) == Steady(v) /\ (wp[v].m_State = "Free" => SameCore(wp'[v], wp[v]))
Freed(v) == wp'[v] = NoObject /\ Dead(v) /\ Unmentioned(v, {"Terminate", "TerminateTail"})

\* An ordinary call preserves what ObjectInv says of the stack and of the list.
LEMMA OrdinaryCall ==
  ASSUME QuietInvariant, FramesInv, ListInv, Empties, MakeCall, list' = list,
         NEW frames \in Seq(Frames), Return(frames),
         \A v \in WP : SameOld(v) /\ (Kept(v) \/ Freed(v)),
         \A v \in WP : wp'[v].m_State = "Running" => wp[v].m_State = "Running",
         \A v \in WP : At(1, "DropPredecessor", v) => Old(v)' = NoWP,
         \A v \in WP : At(1, "Shutdown", v) => wp'[v].m_State # "Running",
         \A v \in WP : ~At(1, "TerminateTail", v),
         \A i \in 1 .. Len(frames) :
           /\ FrameInv(i)'
           /\ frames[i].fn # "TerminateTail"
           /\ frames[i].fn = "ShutdownAll" => Covered'
           /\ frames[i].fn = "ReplaceAll" /\ frames[i].w \in WP => InList(frames[i].w)
  PROVE  FramesInv' /\ ListInv' /\ Empties'
<1>0. TypeOK /\ TypeOK' /\ stack # <<>> /\ (Covered => Covered')
  BY CallsReturn, CoveredStays, NextType DEF QuietInvariant, Next
<1>1. FramesInv'
  <2>1. \A v \in WP : Steady(v) \/ Unmentioned(v, {"Terminate", "TerminateTail"})
    BY DEF Kept, Freed
  <2> QED
    BY <1>0, <2>1, OldFrames
<1>2. \A v \in WP : Dead(v)' <=> Dead(v)
  BY DEF Kept, Freed, Steady, Dead, NoObject, SameCore
<1>3. Membership'
  <2> SUFFICES ASSUME NEW v \in WP
               PROVE  InList(v)' <=> (~Dead(v)' \/ Terminating(v)')
    BY DEF Membership
  <2>1. Terminating(v)' <=> Terminating(v)
    BY <1>0, TerminatingKept
  <2> QED
    BY <1>2, <2>1 DEF ListInv, Membership, InList
<1>4. Distinct' /\ Successors'
  BY DEF ListInv, Distinct, Successors, SameOld, InList
<1>5. Starting'
  BY <1>0, StartingKept
<1>6. WalkListed' /\ WalkCovered'
  <2>1. Replacing /\ Len(stack) > 1 => Bottom.w \in ToSet(list')
    BY DEF ListInv, WalkListed, InList
  <2>2. \A i \in 1 .. Len(frames) : frames[i].fn = "ReplaceAll" /\ frames[i].w \in WP =>
            frames[i].w \in ToSet(list')
    BY DEF InList
  <2> QED
    BY <1>0, <2>1, <2>2, WalksKept
<1>7. Empties'
  <2> SUFFICES ASSUME NEW v \in WP, wp'[v].m_State = "Free"
               PROVE  wp'[v].m_RefCount = 0 /\ Old(v)' = NoWP /\ ~Sick(v)'
    BY DEF Empties
  <2>1. CASE Freed(v)
    BY <2>1 DEF Freed, NoObject, Old, Sick
  <2>2. CASE Kept(v)
    <3>1. wp[v].m_State = "Free" /\ SameCore(wp'[v], wp[v])
      BY <1>2, <2>2 DEF Kept, Steady, Dead
    <3> QED
      BY <3>1 DEF Empties, Old, Sick, SameCore
  <2> QED
    BY <2>1, <2>2
<1> QED
  BY <1>1, <1>3, <1>4, <1>5, <1>6, <1>7 DEF ListInv

-----------------------------------------------------------------------------
(***************************************************************************)
(* The references to an object, by who holds them.                         *)
(***************************************************************************)
Listed(w) == IF InList(w) THEN 1 ELSE 0
Handled(w) == IF wp[w].m_pMessagingHandler = "attached" THEN 1 ELSE 0
Own(w) == {x \in WorkItems : x.w = w /\ x.op \in Handles}
Queued(w) == Count(queue, Own(w))
Replacements(w) == {v \in WP : Old(v) = w}
Held(w) == Count(stack, {Call("Dereference", w)})

\* Only processes of the list replace others, so that they are finitely many.
LEMMA ReplacementsFinite ==
  ASSUME TypeOK, ListInv, NEW w \in WP
  PROVE  IsFiniteSet(Replacements(w)) /\ Cardinality(Replacements(w)) \in Nat
<1>1. list \in Seq(WP) /\ Len(list) \in Nat
  BY DEF TypeOK
<1> DEFINE f == [i \in 1 .. Len(list) |-> list[i]]
           S == {list[i] : i \in 1 .. Len(list)}
<1>2. IsFiniteSet(1 .. Len(list))
  BY <1>1, FS_Interval
<1>3. f \in Surjection(1 .. Len(list), S)
  BY DEF Surjection
<1>4. IsFiniteSet(S)
  BY <1>2, <1>3, FS_Surjection
<1>5. Replacements(w) \subseteq S
  <2> SUFFICES ASSUME NEW v \in WP, Old(v) = w
               PROVE  v \in S
    BY DEF Replacements
  <2>1. v \in ToSet(list)
    BY PointerAssumption DEF ListInv, Successors, InList
  <2> QED
    BY <1>1, <2>1 DEF ToSet
<1> QED
  BY <1>4, <1>5, FS_Subset, FS_CardinalityType

\* The references, summed up.
Sum(w) ==
  /\ References(w) = Listed(w) + Handled(w) + Queued(w)
                       + Cardinality(Replacements(w)) + Held(w)
  /\ Listed(w) \in {0, 1} /\ Handled(w) \in {0, 1}
  /\ Queued(w) \in Nat /\ Held(w) \in Nat
  /\ Cardinality(Replacements(w)) \in Nat

LEMMA ReferencesSum == TypeOK /\ ListInv => \A w \in WP : Sum(w)
<1> SUFFICES ASSUME TypeOK, ListInv, NEW w \in WP
             PROVE  Sum(w)
  OBVIOUS
<1>0. queue \in Seq(WorkItems) /\ stack \in Seq(Frames)
  BY DEF TypeOK
<1>1. {i \in DOMAIN queue : queue[i].w = w /\ queue[i].op \in Handles}
        = {i \in DOMAIN queue : queue[i] \in Own(w)}
  BY <1>0 DEF Own
<1>2. {i \in DOMAIN stack : stack[i] = Call("Dereference", w)}
        = {i \in DOMAIN stack : stack[i] \in {Call("Dereference", w)}}
  OBVIOUS
<1>3. Queued(w) \in Nat /\ Held(w) \in Nat
  BY <1>0, CountNat DEF Queued, Held
<1>4. Cardinality(Replacements(w)) \in Nat
  BY ReplacementsFinite
<1>5. References(w) = Listed(w) + Handled(w) + Queued(w)
                        + Cardinality(Replacements(w)) + Held(w)
  BY <1>1, <1>2, Zenon
     DEF References, Listed, Handled, Queued, Count, Replacements, Held, Old
<1> QED
  BY <1>3, <1>4, <1>5 DEF Listed, Handled, Sum

LEMMA ReferencesSumNext == (TypeOK /\ ListInv => \A w \in WP : Sum(w))'
  BY ReferencesSum, PTL

\* What is held before a call: the calls below it, and its own reference if it drops one.
LEMMA HeldReturn ==
  ASSUME TypeOK, stack # <<>>, NEW frames \in Seq(Frames), Return(frames), NEW w \in WP
  PROVE  /\ Count(Tail(stack), {Call("Dereference", w)}) \in Nat
         /\ Count(frames, {Call("Dereference", w)}) \in Nat
         /\ Held(w) = Count(Tail(stack), {Call("Dereference", w)})
                        + (IF Head(stack) = Call("Dereference", w) THEN 1 ELSE 0)
         /\ Held(w)' = Count(frames, {Call("Dereference", w)})
                         + Count(Tail(stack), {Call("Dereference", w)})
<1>1. stack \in Seq(Frames) /\ Tail(stack) \in Seq(Frames) /\ stack' = frames \o Tail(stack)
  BY DEF TypeOK, Return
<1> DEFINE D == {Call("Dereference", w)}
<1>2. Head(stack) \in D <=> Head(stack) = Call("Dereference", w)
  OBVIOUS
<1> HIDE DEF D
<1>3. Count(Tail(stack), D) \in Nat /\ Count(frames, D) \in Nat
  BY <1>1, CountNat
<1>5. Count(stack, D) = Count(Tail(stack), D) + (IF Head(stack) \in D THEN 1 ELSE 0)
  BY <1>1, CountTail
<1>6. Count(frames \o Tail(stack), D) = Count(frames, D) + Count(Tail(stack), D)
  BY <1>1, CountConcat
<1>4. Held(w) = Count(stack, D) /\ Held(w)' = Count(frames \o Tail(stack), D)
  BY <1>1 DEF Held, D
<1> QED
  BY <1>2, <1>3, <1>4, <1>5, <1>6 DEF D

\* The count stays exact when a call accounts for what it does to an object.
LEMMA ExactCall ==
  ASSUME TypeOK, TypeOK', ListInv, ListInv', RefCountExact, stack # <<>>, queue' = queue,
         NEW frames \in Seq(Frames), Return(frames), NEW w \in WP,
         wp'[w].m_RefCount + Listed(w) + Handled(w) + Cardinality(Replacements(w))
             + (IF Head(stack) = Call("Dereference", w) THEN 1 ELSE 0)
           = wp[w].m_RefCount + Listed(w)' + Handled(w)' + Cardinality(Replacements(w)')
             + Count(frames, {Call("Dereference", w)})
  PROVE  wp'[w].m_RefCount = References(w)'
<1>1. Sum(w) /\ Sum(w)'
  BY ReferencesSum, ReferencesSumNext
<1> DEFINE below == Count(Tail(stack), {Call("Dereference", w)})
           made == Count(frames, {Call("Dereference", w)})
           own == IF Head(stack) = Call("Dereference", w) THEN 1 ELSE 0
<1>2. /\ below \in Nat /\ made \in Nat
      /\ Held(w) = below + own /\ Held(w)' = made + below
  BY HeldReturn
<1>3. Queued(w)' = Queued(w)
  BY DEF Queued
<1>4. wp[w].m_RefCount = References(w) /\ wp[w].m_RefCount \in Int /\ wp'[w].m_RefCount \in Int
  BY DEF RefCountExact, TypeOK, WorkerProcesses
<1>5. wp'[w].m_RefCount + Listed(w) + Handled(w) + Cardinality(Replacements(w)) + own
           = wp[w].m_RefCount + Listed(w)' + Handled(w)' + Cardinality(Replacements(w)') + made
  OBVIOUS
<1>6. own \in Int
  OBVIOUS
<1> HIDE DEF below, made, own
<1>7. /\ Listed(w) \in Int /\ Handled(w) \in Int /\ Queued(w) \in Int
      /\ Cardinality(Replacements(w)) \in Int
      /\ Listed(w)' \in Int /\ Handled(w)' \in Int /\ Cardinality(Replacements(w)') \in Int
      /\ below \in Int /\ made \in Int
  <2>1. Listed(w) \in Int /\ Handled(w) \in Int /\ Queued(w) \in Int /\ Cardinality(Replacements(w)) \in Int
    BY <1>1 DEF Sum
  <2>2. Listed(w)' \in Int /\ Handled(w)' \in Int
    BY <1>1 DEF Sum
  <2>3. Cardinality(Replacements(w)') \in Int
    BY <1>1 DEF Sum
  <2>4. below \in Int /\ made \in Int
    BY <1>2
  <2> QED
    BY <2>1, <2>2, <2>3, <2>4
<1>8. wp[w].m_RefCount = Listed(w) + Handled(w) + Queued(w)
                           + Cardinality(Replacements(w)) + (below + own)
  BY <1>1, <1>2, <1>4 DEF Sum
<1>9. References(w)' = Listed(w)' + Handled(w)' + Queued(w)
                           + Cardinality(Replacements(w)') + (made + below)
  BY <1>1, <1>2, <1>3 DEF Sum
<1>10. PICK r, l, h, q, c, b, o, s, m, l1, h1, c1 \in Int :
         /\ r = wp'[w].m_RefCount /\ s = wp[w].m_RefCount
         /\ l = Listed(w) /\ h = Handled(w) /\ q = Queued(w) /\ c = Cardinality(Replacements(w))
         /\ l1 = Listed(w)' /\ h1 = Handled(w)' /\ c1 = Cardinality(Replacements(w)')
         /\ b = below /\ o = own /\ m = made
  BY <1>4, <1>6, <1>7, Zenon
<1>11. s = l + h + q + c + (b + o) /\ r + l + h + c + o = s + l1 + h1 + c1 + m
  BY <1>5, <1>8, <1>10, Zenon
<1>12. r = l1 + h1 + q + c1 + (m + b)
  BY <1>11
<1>13. wp'[w].m_RefCount = Listed(w)' + Handled(w)' + Queued(w)
                           + Cardinality(Replacements(w)') + (made + below)
  BY <1>10, <1>12, Zenon
<1> QED
  BY <1>9, <1>13

\* No call to Dereference, no reference held.
LEMMA CountNone ==
  ASSUME NEW frames \in Seq(Frames), NEW w,
         \A i \in 1 .. Len(frames) : frames[i].fn # "Dereference"
  PROVE  Count(frames, {Call("Dereference", w)}) = 0
<1>1. Call("Dereference", w).fn = "Dereference"
  BY DEF Call
<1>2. {i \in DOMAIN frames : frames[i] \in {Call("Dereference", w)}} = {}
  BY <1>1
<1> QED
  BY <1>2, FS_EmptySet DEF Count

\* The calls a call makes, and what it has done when it returns.
Fresh(frames) ==
  \A i \in 1 .. Len(frames) :
    /\ FrameInv(i)'
    /\ frames[i].fn # "TerminateTail"
    /\ frames[i].fn = "ShutdownAll" => Covered'
    /\ frames[i].fn = "ReplaceAll" /\ frames[i].w \in WP => InList(frames[i].w)
HeadDone ==
  \A v \in WP : /\ At(1, "DropPredecessor", v) => Old(v)' = NoWP
                /\ At(1, "Shutdown", v) => wp'[v].m_State # "Running"
                /\ ~At(1, "TerminateTail", v)
Ordinary ==
  \A v \in WP : /\ Old(v)' = Old(v) /\ (Kept(v) \/ Freed(v))
                /\ wp'[v].m_State = "Running" => wp[v].m_State = "Running"
Balanced(frames) == \A v \in WP :
  wp'[v].m_RefCount + Handled(v) + (IF Head(stack) = Call("Dereference", v) THEN 1 ELSE 0)
    = wp[v].m_RefCount + Handled(v)' + Count(frames, {Call("Dereference", v)})

LEMMA BothSides ==
  ASSUME NEW r \in Int, NEW l \in Int, NEW h \in Int, NEW c \in Int, NEW s \in Int,
         NEW h1 \in Int, NEW m \in Int, NEW o \in Int, r + h + o = s + h1 + m
  PROVE  r + l + h + c + o = s + l + h1 + c + m
  OBVIOUS

\* An ordinary call that lets go of no process to replace preserves the invariant.
LEMMA OrdinaryObject ==
  ASSUME ObjectInv, MakeCall, list' = list, queue' = queue,
         NEW frames \in Seq(Frames), Return(frames), Fresh(frames), HeadDone,
         Ordinary, Balanced(frames)
  PROVE  ObjectInv'
<1>1. QuietInvariant' /\ TypeOK /\ TypeOK' /\ stack # <<>>
  BY NextQuiet, NextType, CallsReturn DEF ObjectInv, QuietInvariant, Next
<1>2. FramesInv' /\ ListInv' /\ Empties'
  BY OrdinaryCall DEF ObjectInv, Fresh, HeadDone, SameOld, Ordinary
<1>3. RefCountExact'
  <2> SUFFICES ASSUME NEW w \in WP
               PROVE  wp'[w].m_RefCount = References(w)'
    BY DEF RefCountExact
  <2>1. Listed(w)' = Listed(w)
    BY DEF Listed, InList
  <2>2. Replacements(w)' = Replacements(w)
    BY DEF Replacements, Ordinary
  <2>3. Sum(w) /\ ListInv /\ RefCountExact
    BY <1>1, ReferencesSum DEF ObjectInv
  <2>4. /\ Listed(w) \in Int /\ Handled(w) \in Int /\ Cardinality(Replacements(w)) \in Int
        /\ wp[w].m_RefCount \in Int /\ wp'[w].m_RefCount \in Int /\ Handled(w)' \in Int
        /\ Count(frames, {Call("Dereference", w)}) \in Int
    <3>1. Listed(w) \in Int /\ Handled(w) \in Int /\ Cardinality(Replacements(w)) \in Int
      BY <2>3 DEF Sum
    <3>2. wp[w].m_RefCount \in Int /\ wp'[w].m_RefCount \in Int
      BY <1>1 DEF TypeOK, WorkerProcesses
    <3>3. Handled(w)' \in Int
      BY DEF Handled
    <3>4. Count(frames, {Call("Dereference", w)}) \in Nat
      BY CountNat
    <3> QED
      BY <3>1, <3>2, <3>3, <3>4
  <2>5. PICK r, l, h, c, s, h1, m, o \in Int :
          /\ r = wp'[w].m_RefCount /\ s = wp[w].m_RefCount
          /\ l = Listed(w) /\ h = Handled(w) /\ c = Cardinality(Replacements(w))
          /\ h1 = Handled(w)' /\ m = Count(frames, {Call("Dereference", w)})
          /\ o = IF Head(stack) = Call("Dereference", w) THEN 1 ELSE 0
    <3>1. (IF Head(stack) = Call("Dereference", w) THEN 1 ELSE 0) \in Int
      OBVIOUS
    <3> QED
      BY <2>4, <3>1, Zenon
  <2>6. r + h + o = s + h1 + m
    BY <2>5 DEF Balanced
  <2>7. r + l + h + c + o = s + l + h1 + c + m
    BY <2>6, BothSides
  <2>8. wp'[w].m_RefCount + Listed(w) + Handled(w) + Cardinality(Replacements(w))
             + (IF Head(stack) = Call("Dereference", w) THEN 1 ELSE 0)
           = wp[w].m_RefCount + Listed(w)' + Handled(w)' + Cardinality(Replacements(w)')
             + Count(frames, {Call("Dereference", w)})
    BY <2>1, <2>2, <2>5, <2>7
  <2> QED
    BY <1>1, <1>2, <2>3, <2>8, ExactCall
<1> QED
  BY <1>1, <1>2, <1>3 DEF ObjectInv

\* A call that changes none of what ObjectInv says of objects preserves it.
CoreKept == \A v \in WP : SameCore(wp'[v], wp[v])
LEMMA CoreKeptObject ==
  ASSUME ObjectInv, MakeCall, CoreKept, UNCHANGED <<list, queue>>,
         NEW frames \in Seq(Frames), Return(frames), Fresh(frames), HeadDone,
         \A i \in 1 .. Len(frames) : frames[i].fn # "Dereference",
         Head(stack).fn # "Dereference"
  PROVE  ObjectInv'
<1>1. TypeOK
  BY DEF ObjectInv, QuietInvariant
<1>2. Balanced(frames)
  <2> SUFFICES ASSUME NEW v \in WP
               PROVE  wp'[v].m_RefCount + Handled(v)
                          + (IF Head(stack) = Call("Dereference", v) THEN 1 ELSE 0)
                        = wp[v].m_RefCount + Handled(v)'
                            + Count(frames, {Call("Dereference", v)})
    BY DEF Balanced
  <2>1. Count(frames, {Call("Dereference", v)}) = 0
    BY CountNone
  <2>2. Head(stack) # Call("Dereference", v)
    BY DEF Call
  <2>3. /\ Handled(v)' = Handled(v) /\ Handled(v) \in Int
        /\ wp[v].m_RefCount \in Int /\ wp'[v].m_RefCount = wp[v].m_RefCount
    BY <1>1 DEF Handled, TypeOK, WorkerProcesses, CoreKept, SameCore
  <2> QED
    BY <2>1, <2>2, <2>3
<1>3. Ordinary
  BY DEF Ordinary, Old, Kept, Steady, Sick, Dead, CoreKept, SameCore
<1> QED
  BY <1>2, <1>3, OrdinaryObject

\* So does a call that changes no object at all.
LEMMA UnchangedObject ==
  ASSUME ObjectInv, MakeCall, UNCHANGED <<wp, list, queue>>,
         NEW frames \in Seq(Frames), Return(frames), Fresh(frames), HeadDone,
         \A i \in 1 .. Len(frames) : frames[i].fn # "Dereference",
         Head(stack).fn # "Dereference"
  PROVE  ObjectInv'
<1>1. CoreKept
  BY DEF CoreKept, SameCore
<1> QED
  BY <1>1, CoreKeptObject

-----------------------------------------------------------------------------
(***************************************************************************)
(* Calls on the pool.                                                      *)
(***************************************************************************)
\* Calls of which FrameInv asks nothing.
LEMMA Harmless ==
  ASSUME NEW i, stack'[i].fn \in {"DropPredecessor", "MarkReplaced", "DetachHandler",
           "ReportFailure", "ShutdownAll", "DisableAppPool", "DisableTail", "CheckShutdown"}
  PROVE  FrameInv(i)'
  BY DEF FrameInv, Placed, Founded, Ordered, Danger

\* Calls that leave nothing to be done by themselves.
LEMMA OtherHead ==
  ASSUME TypeOK, stack # <<>>,
         Head(stack).fn \notin {"DropPredecessor", "Shutdown", "TerminateTail"}
  PROVE  HeadDone
<1>1. stack[1].fn = Head(stack).fn
  BY DEF TypeOK
<1> QED
  BY <1>1 DEF HeadDone, At

\* The next call is the first on the stack.
LEMMA First ==
  ASSUME ObjectInv, stack # <<>>
  PROVE  /\ Head(stack) = stack[1] /\ stack[1] \in Frames /\ 1 \in 1 .. Len(stack)
         /\ Len(stack) \in Nat /\ stack \in Seq(Frames)
         /\ FrameInv(1) /\ TypeOK
  BY DEF ObjectInv, QuietInvariant, TypeOK, FramesInv

\* A single call that a call makes becomes the first on the stack.
LEMMA PushedOne ==
  ASSUME TypeOK, stack # <<>>, NEW f \in Frames, Return(<<f>>)
  PROVE  /\ stack'[1] = f /\ Len(stack') = Len(stack) /\ Len(stack) \in Nat \ {0}
         /\ \A i \in 2 .. Len(stack) : stack'[i] = stack[i]
<1> DEFINE frames == <<f>>
<1>1. frames \in Seq(Frames) /\ Len(frames) = 1 /\ frames[1] = f /\ Return(frames)
  OBVIOUS
<1> HIDE DEF frames
<1>2. /\ Len(stack) \in Nat \ {0} /\ Len(stack') = Len(frames) + Len(stack) - 1
      /\ \A i \in 1 .. Len(frames) : stack'[i] = frames[i]
      /\ \A i \in 2 .. Len(stack) : stack'[Len(frames) + i - 1] = stack[i]
  BY <1>1, Pushed
<1> QED
  BY <1>1, <1>2

\* A call that changes no object and returns at once.
LEMMA JustReturns ==
  ASSUME ObjectInv, MakeCall, UNCHANGED <<wp, list, queue>>, Return(<<>>), HeadDone,
         Head(stack).fn # "Dereference"
  PROVE  ObjectInv'
<1> DEFINE frames == <<>>
<1>1. frames \in Seq(Frames) /\ Len(frames) = 0 /\ Return(frames)
  OBVIOUS
<1> HIDE DEF frames
<1>2. Fresh(frames) /\ \A i \in 1 .. Len(frames) : frames[i].fn # "Dereference"
  BY <1>1 DEF Fresh
<1> QED
  BY <1>1, <1>2, UnchangedObject

\* A call that changes no object and makes one other call.
LEMMA JustCalls ==
  ASSUME ObjectInv, MakeCall, UNCHANGED <<wp, list, queue>>, HeadDone,
         Head(stack).fn # "Dereference",
         NEW f \in Frames, Return(<<f>>), FrameInv(1)',
         f.fn \notin {"TerminateTail", "ShutdownAll", "Dereference"},
         f.fn = "ReplaceAll" /\ f.w \in WP => InList(f.w)
  PROVE  ObjectInv'
<1> DEFINE frames == <<f>>
<1>1. frames \in Seq(Frames) /\ Len(frames) = 1 /\ frames[1] = f /\ Return(frames)
  OBVIOUS
<1> HIDE DEF frames
<1>2. Fresh(frames) /\ \A i \in 1 .. Len(frames) : frames[i].fn # "Dereference"
  BY <1>1 DEF Fresh
<1> QED
  BY <1>1, <1>2, UnchangedObject

LEMMA DisableCalls ==
  ASSUME ObjectInv, ReportFailure \/ DisableAppPool \/ DisableTail
  PROVE  ObjectInv'
<1>0. MakeCall /\ stack # <<>> /\ UNCHANGED <<wp, list, queue>>
  BY DEF MakeCall, AppPoolCall, ReportFailure, DisableAppPool, DisableTail, Calling
<1>1. HeadDone /\ Head(stack).fn # "Dereference" /\ TypeOK
  BY <1>0, First, OtherHead DEF ReportFailure, DisableAppPool, DisableTail, Calling
<1>2. CASE Return(<<>>)
  BY <1>0, <1>1, <1>2, JustReturns
<1>3. CASE Return(<<Call("DisableAppPool", NoWP)>>)
  <2> DEFINE f == Call("DisableAppPool", NoWP)
  <2>1. f \in Frames /\ f.fn = "DisableAppPool"
    BY PoolFrame DEF Call, AppPoolMethods
  <2>2. stack'[1] = f
    BY <1>0, <1>1, <1>3, <2>1, PushedOne
  <2>3. FrameInv(1)'
    BY <2>1, <2>2, Harmless
  <2> QED
    BY <1>0, <1>1, <1>3, <2>1, <2>3, JustCalls
<1>4. CASE DisableAppPool /\ pool.m_State = "Running"
  <2> DEFINE walk == WalkFrom("ShutdownAll", FirstEntry)
             tail == Call("DisableTail", NoWP)
             frames == walk \o <<tail>>
  <2>1. Return(frames)
    BY <1>4 DEF DisableAppPool
  <2>2. walk \in Seq(Frames) /\ tail \in Frames /\ tail.fn = "DisableTail"
    BY <1>1, ListType, WalkFrames, PoolFrame DEF Walks, AppPoolMethods, Call
  <2>3. Len(walk) = 0 \/ (Len(walk) = 1 /\ walk[1].fn = "ShutdownAll")
    BY DEF WalkFrom, Call
  <2> HIDE DEF walk, tail
  <2>4. /\ frames \in Seq(Frames)
        /\ \A i \in 1 .. Len(frames) : frames[i].fn \in {"ShutdownAll", "DisableTail"}
        /\ frames[Len(walk) + 1] = tail /\ Len(walk) + 1 \in 1 .. Len(frames)
    BY <2>2, <2>3
  <2> HIDE DEF frames
  <2>5. /\ \A i \in 1 .. Len(frames) : stack'[i] = frames[i]
        /\ Len(stack') >= Len(frames)
    BY <1>0, <1>1, <2>1, <2>4, Pushed
  <2>6. Covered'
    <3>1. Len(walk) + 1 \in 1 .. Len(stack') /\ stack'[Len(walk) + 1].fn = "DisableTail"
      BY <1>0, <1>1, <2>1, <2>2, <2>3, <2>4, <2>5, Pushed
    <3> QED
      BY <3>1 DEF Covered, Disabling
  <2>7. Fresh(frames)
    <3> SUFFICES ASSUME NEW i \in 1 .. Len(frames)
                 PROVE  FrameInv(i)'
      BY <2>4, <2>6 DEF Fresh
    <3> QED
      BY <2>4, <2>5, Harmless
  <2> QED
    BY <1>0, <1>1, <2>1, <2>4, <2>7, UnchangedObject
<1> QED
  BY <1>2, <1>3, <1>4 DEF ReportFailure, RapidFailStop, DisableAppPool, DisableTail

\* A call followed by others.
LEMMA OneAndMore ==
  ASSUME NEW f \in Frames, NEW t \in Seq(Frames)
  PROVE  /\ <<f>> \o t \in Seq(Frames) /\ Len(<<f>> \o t) = 1 + Len(t) /\ (<<f>> \o t)[1] = f
         /\ \A i \in 1 .. Len(t) : (<<f>> \o t)[i + 1] = t[i]
  OBVIOUS

\* The entries of the list: all are objects, the next one is another one.
LEMMA Entries ==
  ASSUME ObjectInv
  PROVE  /\ FirstEntry \in WP => InList(FirstEntry)
         /\ \A w \in WP : Flink(w) \in WP => InList(Flink(w)) /\ Flink(w) # w
         /\ \A w \in WP : InList(w) => wp[w].m_State # "Free"
         /\ list # <<>> => list[1] \in WP /\ InList(list[1])
<1>0. list \in Seq(WP) /\ Len(list) \in Nat /\ Distinct /\ Membership
  BY DEF ObjectInv, QuietInvariant, TypeOK, ListInv
<1>1. ToSet(list) = {list[i] : i \in 1 .. Len(list)}
  BY <1>0 DEF ToSet
<1>2. list # <<>> => list[1] \in WP /\ InList(list[1])
  BY <1>0, <1>1 DEF InList
<1>3. FirstEntry \in WP => InList(FirstEntry)
  BY <1>2, PointerAssumption DEF FirstEntry
<1>4. ASSUME NEW w \in WP, Flink(w) \in WP
      PROVE  InList(Flink(w)) /\ Flink(w) # w
  <2>1. InList(w) /\ Position(w) # Len(list) /\ Flink(w) = list[Position(w) + 1]
    BY <1>4, PointerAssumption DEF Flink
  <2>2. \E i \in DOMAIN list : list[i] = w
    BY <1>0, <1>1, <2>1 DEF InList
  <2>3. Position(w) \in 1 .. Len(list) /\ list[Position(w)] = w
    BY <1>0, <2>2 DEF Position
  <2>4. Position(w) + 1 \in 1 .. Len(list) /\ Position(w) + 1 # Position(w)
    BY <1>0, <2>1, <2>3
  <2> QED
    BY <1>0, <1>1, <2>1, <2>3, <2>4 DEF InList, Distinct
<1>5. ASSUME NEW w \in WP, InList(w)
      PROVE  wp[w].m_State # "Free"
  <2>1. CASE ~Dead(w)
    BY <2>1 DEF Dead
  <2>2. CASE Terminating(w)
    BY <2>2 DEF Terminating, At, ObjectInv, FramesInv, FrameInv, Founded
  <2> QED
    BY <1>0, <1>5, <2>1, <2>2 DEF Membership
<1> QED
  BY <1>2, <1>3, <1>4, <1>5

\* A call that may lead to a termination, once it spares the entry of the loop.
LEMMA SparingFrame ==
  ASSUME NEW i, stack'[i].fn = "Shutdown", Replacing' => Spares(i, Bottom.w)'
  PROVE  FrameInv(i)'
  BY DEF FrameInv, Placed, Founded, Ordered

\* One turn of the loop that shuts processes down.
LEMMA ShutdownAllCall ==
  ASSUME ObjectInv, ShutdownAllWorkerProcesses
  PROVE  ObjectInv'
<1>0. MakeCall /\ stack # <<>> /\ UNCHANGED <<wp, list, queue>> /\ Head(stack).fn = "ShutdownAll"
  BY DEF MakeCall, AppPoolCall, ShutdownAllWorkerProcesses, Calling
<1>1. HeadDone /\ TypeOK
  BY <1>0, First, OtherHead
<1>2. CASE This \notin WP
  BY <1>0, <1>1, <1>2, JustReturns DEF ShutdownAllWorkerProcesses
<1>3. CASE This \in WP
  <2> DEFINE walk == WalkFrom("ShutdownAll", Flink(This))
             f == Call("Shutdown", This)
             frames == <<f>> \o walk
  <2>1. Return(frames)
    BY <1>3 DEF ShutdownAllWorkerProcesses
  <2>2. walk \in Seq(Frames) /\ f \in Frames /\ f.fn = "Shutdown"
    BY <1>1, <1>3, ListType, WalkFrames, WorkerFrame DEF Walks, WorkerProcessMethods, Call
  <2>3. Len(walk) = 0 \/ (Len(walk) = 1 /\ walk[1].fn = "ShutdownAll")
    BY DEF WalkFrom, Call
  <2> HIDE DEF walk, f
  <2>4. /\ frames \in Seq(Frames)
        /\ \A i \in 1 .. Len(frames) : frames[i].fn \in {"ShutdownAll", "Shutdown"}
    BY <2>2, <2>3
  <2> HIDE DEF frames
  <2>5. \A i \in 1 .. Len(frames) : stack'[i] = frames[i]
    BY <1>0, <1>1, <2>1, <2>4, Pushed
  <2>6. Covered'
    <3>1. stack[1].fn = "ShutdownAll" /\ 1 \in 1 .. Len(stack)
      BY <1>0, First
    <3>2. Covered
      BY <3>1 DEF ObjectInv, ListInv, WalkCovered
    <3> QED
      BY <1>0, <1>1, <3>2, CoveredStays
  <2>7. Fresh(frames)
    <3> SUFFICES ASSUME NEW i \in 1 .. Len(frames)
                 PROVE  FrameInv(i)'
      BY <2>4, <2>6 DEF Fresh
    <3>1. ~Replacing'
      BY <2>6 DEF Replacing
    <3> QED
      BY <2>4, <2>5, <3>1, Harmless, SparingFrame
  <2> QED
    BY <1>0, <1>1, <2>1, <2>4, <2>7, UnchangedObject
<1> QED
  BY <1>2, <1>3

\* One turn of the loop that replaces processes.  The process to be replaced is not the
\* one at which the loop goes on, and is not about to terminate it.
LEMMA ReplaceAllCall ==
  ASSUME ObjectInv, ReplaceAllWorkerProcesses
  PROVE  ObjectInv'
<1>0. MakeCall /\ stack # <<>> /\ UNCHANGED <<wp, pool, list, queue>>
      /\ Head(stack).fn = "ReplaceAll"
  BY DEF MakeCall, AppPoolCall, ReplaceAllWorkerProcesses, Calling
<1>1. HeadDone /\ TypeOK
  BY <1>0, First, OtherHead
<1>2. CASE This \notin WP
  BY <1>0, <1>1, <1>2, JustReturns DEF ReplaceAllWorkerProcesses
<1>3. CASE This \in WP
  <2>0. PICK w \in WP : w = This
    BY <1>3
  <2>1. /\ Len(stack) = 1 /\ stack[1].fn = "ReplaceAll" /\ stack[1].w = w /\ Bottom = stack[1]
        /\ stack \in Seq(Frames)
    BY <1>0, <2>0, First DEF FrameInv, Placed, Bottom, This
  <2>2. ~Disabling(stack)
    BY <2>1 DEF Disabling
  <2>3. wp[w].m_State # "Free" \/ pool.m_State # "Running"
    <3>1. CASE Replacing
      BY <2>1, <3>1, Entries DEF ObjectInv, ListInv, WalkListed
    <3>2. CASE ~Replacing
      BY <1>0, <2>1, <2>2, <3>2 DEF Replacing, Covered
    <3> QED
      BY <3>1, <3>2
  <2>4. wp[w].m_State = "Running" => Old(w) = NoWP
    BY <2>1 DEF ObjectInv, ListInv, Starting, At
  <2> DEFINE next == Flink(w)
             walk == WalkFrom("ReplaceAll", next)
             f == Call("InitiateReplacement", w)
             frames == <<f>> \o walk
  <2>5. Return(frames)
    BY <1>3, <2>0 DEF ReplaceAllWorkerProcesses
  <2>6. /\ walk \in Seq(Frames) /\ f \in Frames /\ f.fn = "InitiateReplacement" /\ f.w = w
        /\ next \in WP => InList(next) /\ next # w
    BY <1>1, ListType, WalkFrames, WorkerFrame, Entries DEF Walks, WorkerProcessMethods, Call
  <2>7. Len(walk) = 0 \/ (Len(walk) = 1 /\ walk[1].fn = "ReplaceAll" /\ walk[1].w = next)
    BY DEF WalkFrom, Call
  <2> HIDE DEF walk, f, next
  <2>8. /\ frames \in Seq(Frames) /\ frames[1] = f /\ Len(frames) \in {1, 2}
        /\ Len(frames) = 2 => frames[2].fn = "ReplaceAll" /\ frames[2].w = next
    <3>1. /\ frames \in Seq(Frames) /\ Len(frames) = 1 + Len(walk) /\ frames[1] = f
          /\ \A i \in 1 .. Len(walk) : frames[i + 1] = walk[i]
      BY <2>6, OneAndMore
    <3>2. CASE Len(walk) = 0
      BY <3>1, <3>2
    <3>3. CASE Len(walk) = 1
      BY <2>7, <3>1, <3>3
    <3> QED
      BY <2>7, <3>2, <3>3
  <2> HIDE DEF frames
  <2>9. /\ \A i \in 1 .. Len(frames) : stack'[i] = frames[i]
        /\ Len(stack') = Len(frames)
    <3>1. /\ \A i \in 1 .. Len(frames) : stack'[i] = frames[i]
          /\ Len(stack') = Len(frames) + Len(stack) - 1
      BY <1>0, <1>1, <2>5, <2>8, Pushed
    <3> QED
      BY <2>1, <2>8, <3>1
  <2>10. stack'[1] = f /\ (Len(stack') = 2 => stack'[2].fn = "ReplaceAll" /\ stack'[2].w = next)
         /\ Len(stack') \in {1, 2}
    BY <2>8, <2>9
  <2>11. Spares(1, Bottom.w)' \/ ~Replacing'
    <3> SUFFICES ASSUME Replacing'
                 PROVE  Spares(1, Bottom.w)'
      OBVIOUS
    <3>1. Len(stack') = 2 /\ Bottom' = stack'[2] /\ next \in WP /\ Bottom.w' = next
      BY <2>6, <2>10 DEF Replacing, Bottom
    <3>2. stack'[1].w = w /\ stack'[1].fn = "InitiateReplacement" /\ next # w /\ next # NoWP
      BY <2>6, <2>10, <3>1, PointerAssumption
    <3> QED
      BY <1>0, <2>4, <3>1, <3>2 DEF Spares, Old
  <2>12. FrameInv(1)'
    <3>1. stack'[1].fn = "InitiateReplacement" /\ stack'[1].w = w
      BY <2>6, <2>10
    <3>2. Placed(1)'
      <4>1. Len(stack') <= 2
        BY <2>10
      <4> QED
        BY <2>10, <3>1, <4>1 DEF Placed
    <3>3. Founded(1)'
      BY <1>0, <2>3, <3>1 DEF Founded
    <3> QED
      BY <2>11, <3>1, <3>2, <3>3 DEF FrameInv, Ordered
  <2>13. Len(stack') = 2 => FrameInv(2)'
    BY <2>10 DEF FrameInv, Placed, Founded, Ordered, Danger
  <2>14. Fresh(frames)
    BY <2>6, <2>8, <2>9, <2>12, <2>13 DEF Fresh
  <2>15. \A i \in 1 .. Len(frames) : frames[i].fn # "Dereference"
    BY <2>6, <2>8
  <2> QED
    BY <1>0, <1>1, <2>5, <2>8, <2>14, <2>15, UnchangedObject
<1> QED
  BY <1>2, <1>3

\* The other calls on the pool: rotating the processes, and terminating them.
LEMMA PoolEndCalls ==
  ASSUME ObjectInv, HandleConfigChange \/ CheckShutdown \/ PoolTerminate \/ TerminateAll
  PROVE  ObjectInv'
<1>0. MakeCall /\ stack # <<>> /\ UNCHANGED <<wp, list, queue>>
  BY DEF MakeCall, AppPoolCall, HandleConfigChange, CheckShutdown, PoolTerminate, TerminateAll,
       Calling
<1>1. HeadDone /\ Head(stack).fn # "Dereference" /\ TypeOK /\ stack[1].fn = Head(stack).fn
  BY <1>0, First, OtherHead
     DEF HandleConfigChange, CheckShutdown, PoolTerminate, TerminateAll, Calling
<1>2. CASE Return(<<>>)
  BY <1>0, <1>1, <1>2, JustReturns
<1>3. CASE HandleConfigChange /\ FirstEntry # ListHead /\ ~Return(<<>>)
  <2> DEFINE f == Call("ReplaceAll", FirstEntry)
  <2>1. Return(<<f>>)
    BY <1>3 DEF HandleConfigChange, WalkFrom
  <2>2. f \in Frames /\ f.fn = "ReplaceAll" /\ f.w = FirstEntry
    BY <1>1, <1>3, ListType DEF Call, Frames, Walks
  <2> HIDE DEF f
  <2>3. Len(stack) = 1
    BY <1>0, <1>1, <1>3, First DEF HandleConfigChange, Calling, FrameInv, Placed
  <2>4. stack'[1] = f /\ Len(stack') = 1
    BY <1>0, <1>1, <2>1, <2>2, <2>3, PushedOne
  <2>5. FrameInv(1)'
    BY <2>2, <2>4 DEF FrameInv, Placed, Founded, Ordered, Danger
  <2> QED
    BY <1>0, <1>1, <2>1, <2>2, <2>5, JustCalls, Entries
<1>4. CASE Return(<<Call("PoolTerminate", NoWP)>>) /\ CheckShutdown /\ list = <<>>
  <2> DEFINE f == Call("PoolTerminate", NoWP)
  <2>1. f \in Frames /\ f.fn = "PoolTerminate"
    BY PoolFrame DEF Call, AppPoolMethods
  <2>2. Return(<<f>>)
    BY <1>4
  <2> HIDE DEF f
  <2>3. stack'[1] = f
    BY <1>0, <1>1, <2>1, <2>2, PushedOne
  <2>4. FrameInv(1)'
    BY <1>0, <1>4, <2>1, <2>3 DEF FrameInv, Placed, Founded, Ordered, Danger
  <2> QED
    BY <1>0, <1>1, <2>1, <2>2, <2>4, JustCalls
<1>5. CASE PoolTerminate
  <2> DEFINE f == Call("TerminateAll", NoWP)
  <2>1. f \in Frames /\ f.fn = "TerminateAll"
    BY PoolFrame DEF Call, AppPoolMethods
  <2>2. Return(<<f>>)
    BY <1>5 DEF PoolTerminate
  <2> HIDE DEF f
  <2>3. stack'[1] = f /\ Len(stack') = Len(stack)
    BY <1>0, <1>1, <2>1, <2>2, PushedOne
  <2>4. Len(stack) = 1 \/ list = <<>>
    BY <1>0, <1>1, <1>5, First DEF PoolTerminate, Calling, FrameInv, Placed
  <2>5. FrameInv(1)'
    BY <1>0, <2>1, <2>3, <2>4 DEF FrameInv, Placed, Founded, Ordered, Danger
  <2> QED
    BY <1>0, <1>1, <2>1, <2>2, <2>5, JustCalls
<1>6. CASE TerminateAll /\ list # <<>>
  <2>0. PICK w \in WP : w = list[1] /\ InList(w)
    BY <1>6, Entries
  <2>1. Len(stack) = 1 /\ stack[1].fn = "TerminateAll" /\ stack \in Seq(Frames)
    BY <1>0, <1>1, <1>6, First DEF TerminateAll, Calling, FrameInv, Placed
  <2>2. ~Dead(w)
    BY <2>0, <2>1 DEF ObjectInv, ListInv, Membership, Terminating, At
  <2> DEFINE f == Call("Terminate", w)
             g == Call("TerminateAll", NoWP)
             frames == <<f, g>>
  <2>3. Return(frames)
    BY <1>6, <2>0 DEF TerminateAll
  <2>4. f \in Frames /\ f.fn = "Terminate" /\ f.w = w /\ g \in Frames /\ g.fn = "TerminateAll"
    BY WorkerFrame, PoolFrame DEF Call, AppPoolMethods, WorkerProcessMethods
  <2> HIDE DEF f, g
  <2>5. frames \in Seq(Frames) /\ Len(frames) = 2 /\ frames[1] = f /\ frames[2] = g
    BY <2>4
  <2> HIDE DEF frames
  <2>6. stack'[1] = f /\ stack'[2] = g /\ Len(stack') = 2
    <3>1. /\ \A i \in 1 .. Len(frames) : stack'[i] = frames[i]
          /\ Len(stack') = Len(frames) + Len(stack) - 1
      BY <1>0, <1>1, <2>3, <2>5, Pushed
    <3> QED
      BY <2>1, <2>5, <3>1
  <2>7. ~Replacing'
    BY <2>4, <2>6 DEF Replacing, Bottom
  <2>8. FrameInv(2)'
    BY <2>4, <2>6 DEF FrameInv, Placed, Founded, Ordered, Danger
  <2>9. FrameInv(1)'
    <3>1. ~Dead(w)'
      BY <1>0, <2>2 DEF Dead
    <3>2. \A j \in 1 .. Len(stack') : At(j, "Terminate", w)' => j = 1
      BY <2>4, <2>6 DEF At
    <3> QED
      BY <2>4, <2>6, <2>7, <3>1, <3>2 DEF FrameInv, Placed, Founded, Ordered
  <2>10. Fresh(frames) /\ \A i \in 1 .. Len(frames) : frames[i].fn # "Dereference"
    BY <2>4, <2>5, <2>8, <2>9 DEF Fresh
  <2> QED
    BY <1>0, <1>1, <2>3, <2>5, <2>10, UnchangedObject
<1> QED
  BY <1>2, <1>3, <1>4, <1>5, <1>6
     DEF HandleConfigChange, CheckShutdown, ShutdownNowCompleted, TerminateAll, WalkFrom

\* Every call on the pool preserves ObjectInv.
LEMMA PoolCalls ==
  ASSUME ObjectInv, AppPoolCall
  PROVE  ObjectInv'
  BY DisableCalls, ShutdownAllCall, ReplaceAllCall, PoolEndCalls DEF AppPoolCall

-----------------------------------------------------------------------------
(***************************************************************************)
(* Calls on worker processes.                                              *)
(***************************************************************************)
\* Fields that ObjectInv does not mention.
LEMMA CoreRecord ==
  ASSUME NEW r \in WorkerProcesses
  PROVE  /\ \A v : SameCore([r EXCEPT !.m_BeingReplaced = v], r)
         /\ \A v : SameCore([r EXCEPT !.m_NotifiedAppPool = v], r)
         /\ \A v : SameCore([r EXCEPT !.m_Registered = v], r)
         /\ \A v : SameCore([r EXCEPT !.m_IgnoredPingDueToDebugger = v], r)
         /\ \A v : SameCore([r EXCEPT !.m_ProcessAlive = v], r)
         /\ \A v : SameCore([r EXCEPT !.handle = v], r)
         /\ \A v : SameCore([r EXCEPT !.process = v], r)
  BY DEF WorkerProcesses, SameCore

LEMMA CoreStore ==
  ASSUME TypeOK, NEW w \in WP, NEW r, SameCore(r, wp[w]), wp' = [wp EXCEPT ![w] = r]
  PROVE  CoreKept
  BY DEF CoreKept, SameCore, TypeOK

LEMMA CoreField ==
  ASSUME TypeOK, NEW w \in WP,
         \E v : \/ wp' = [wp EXCEPT ![w].m_BeingReplaced = v]
                \/ wp' = [wp EXCEPT ![w].m_NotifiedAppPool = v]
                \/ wp' = [wp EXCEPT ![w].m_Registered = v]
                \/ wp' = [wp EXCEPT ![w].m_IgnoredPingDueToDebugger = v]
                \/ wp' = [wp EXCEPT ![w].m_ProcessAlive = v]
                \/ \E h : wp' = [wp EXCEPT ![w].handle[h] = v]
                \/ wp' = [wp EXCEPT ![w].process.phase = v]
                \/ wp' = [wp EXCEPT ![w].process.inbox = v]
                \/ wp' = [wp EXCEPT ![w].process.pipe = v]
                \/ wp' = wp
  PROVE  CoreKept
<1>1. wp[w] \in WorkerProcesses
  BY DEF TypeOK
<1>2. ASSUME NEW r, SameCore(r, wp[w]), wp' = [wp EXCEPT ![w] = r]
      PROVE  CoreKept
  BY <1>2, CoreStore
<1>3. ASSUME wp' = wp PROVE CoreKept
  BY <1>3 DEF CoreKept, SameCore
<1> QED
  BY <1>1, <1>2, <1>3, CoreRecord

\* The effect of Dereference on the object.
LEMMA DereferencedEffect ==
  ASSUME NEW tbl \in [WP -> WorkerProcesses], NEW w \in WP
  PROVE  /\ \A v \in WP : v # w => Dereferenced(tbl, w)[v] = tbl[v]
         /\ Dereferenced(tbl, w)[w].m_RefCount = tbl[w].m_RefCount - 1
         /\ tbl[w].m_RefCount = 1 => Dereferenced(tbl, w)[w] = NoObject
         /\ tbl[w].m_RefCount # 1 =>
              LET r == Dereferenced(tbl, w)[w] IN
              /\ r.m_State = tbl[w].m_State
              /\ r.m_TerminalIllReason = tbl[w].m_TerminalIllReason
              /\ r.m_pWorkerProcessToReplace = tbl[w].m_pWorkerProcessToReplace
              /\ r.m_pMessagingHandler = tbl[w].m_pMessagingHandler
<1>0. tbl[w] \in WorkerProcesses
  OBVIOUS
<1>1. CASE tbl[w].m_RefCount = 1
  <2>1. Dereferenced(tbl, w) = [tbl EXCEPT ![w] = NoObject]
    BY <1>1 DEF Dereferenced
  <2> QED
    BY <1>1, <2>1 DEF NoObject
<1>2. CASE tbl[w].m_RefCount # 1
  <2> DEFINE r == [tbl[w] EXCEPT !.m_RefCount = tbl[w].m_RefCount - 1]
  <2>1. Dereferenced(tbl, w) = [tbl EXCEPT ![w] = r]
    BY <1>2 DEF Dereferenced
  <2>2. /\ r.m_State = tbl[w].m_State
        /\ r.m_TerminalIllReason = tbl[w].m_TerminalIllReason
        /\ r.m_pWorkerProcessToReplace = tbl[w].m_pWorkerProcessToReplace
        /\ r.m_pMessagingHandler = tbl[w].m_pMessagingHandler
        /\ r.m_RefCount = tbl[w].m_RefCount - 1
    BY <1>0 DEF WorkerProcesses
  <2> HIDE DEF r
  <2> QED
    BY <1>2, <2>1, <2>2
<1> QED
  BY <1>1, <1>2

\* The effect of Reference.
LEMMA ReferencedEffect ==
  ASSUME NEW tbl \in [WP -> WorkerProcesses], NEW w \in WP
  PROVE  /\ \A v \in WP : v # w => Referenced(tbl, w)[v] = tbl[v]
         /\ Referenced(tbl, w)[w].m_RefCount = tbl[w].m_RefCount + 1
         /\ Referenced(tbl, w)[w].m_State = tbl[w].m_State
         /\ Referenced(tbl, w)[w].m_TerminalIllReason = tbl[w].m_TerminalIllReason
         /\ Referenced(tbl, w)[w].m_pWorkerProcessToReplace = tbl[w].m_pWorkerProcessToReplace
         /\ Referenced(tbl, w)[w].m_pMessagingHandler = tbl[w].m_pMessagingHandler
<1> DEFINE r == [tbl[w] EXCEPT !.m_RefCount = tbl[w].m_RefCount + 1]
<1>0. tbl[w] \in WorkerProcesses
  OBVIOUS
<1>1. Referenced(tbl, w) = [tbl EXCEPT ![w] = r]
  BY DEF Referenced
<1>2. /\ r.m_State = tbl[w].m_State
      /\ r.m_TerminalIllReason = tbl[w].m_TerminalIllReason
      /\ r.m_pWorkerProcessToReplace = tbl[w].m_pWorkerProcessToReplace
      /\ r.m_pMessagingHandler = tbl[w].m_pMessagingHandler
      /\ r.m_RefCount = tbl[w].m_RefCount + 1
  BY <1>0 DEF WorkerProcesses
<1> HIDE DEF r
<1> QED
  BY <1>1, <1>2

\* The loop that replaces processes waits at the same entry.
LEMMA BottomStays ==
  ASSUME TypeOK, MakeCall, NEW frames \in Seq(Frames), Return(frames), Replacing',
         \A i \in 1 .. Len(frames) : frames[i].fn # "ReplaceAll"
  PROVE  Len(stack) > 1 /\ Replacing /\ Bottom' = Bottom
<1> DEFINE n == Len(frames)
<1>0. stack # <<>> /\ (Covered => Covered')
  BY CallsReturn, CoveredStays
<1>1. /\ n \in Nat /\ Len(stack) \in Nat \ {0}
      /\ Len(stack') = n + Len(stack) - 1
      /\ \A i \in 1 .. n : stack'[i] = frames[i]
      /\ \A i \in 2 .. Len(stack) : stack'[n + i - 1] = stack[i]
      /\ stack' \in Seq(Frames)
  BY <1>0, Pushed
<1>2. stack' # <<>> /\ stack'[Len(stack')].fn = "ReplaceAll"
  BY DEF Replacing, Bottom
<1>3. Len(stack) # 1
  <2> SUFFICES ASSUME Len(stack) = 1 PROVE FALSE
    OBVIOUS
  <2>1. Len(stack') = n
    BY <1>1
  <2>2. n \in 1 .. n
    BY <1>1, <1>2, <2>1
  <2> QED
    BY <1>1, <1>2, <2>1, <2>2
<1>6. \A m \in Nat \ {0} : m = 1 \/ (m > 1 /\ m \in 2 .. m)
  OBVIOUS
<1> HIDE DEF n
<1>4. Len(stack) > 1 /\ Len(stack) \in 2 .. Len(stack) /\ n + Len(stack) - 1 = Len(stack')
  BY <1>1, <1>3, <1>6
<1>5. stack'[Len(stack')] = stack[Len(stack)]
  BY <1>1, <1>4
<1> QED
  BY <1>0, <1>4, <1>5 DEF Replacing, Bottom

\* A call on the same object spares what its caller spared.
LEMMA StillSpares ==
  ASSUME ObjectInv, MakeCall, NEW frames \in Seq(Frames), Return(frames), NEW w \in WP,
         Head(stack).w = w, Head(stack).fn \in Danger, Old(w)' = Old(w),
         \A k \in 1 .. Len(frames) : frames[k].fn # "ReplaceAll",
         NEW i \in 1 .. Len(frames), frames[i].w = w,
         \/ Head(stack).fn \notin {"Shutdown", "InitiateReplacement"}
         \/ wp[w].m_State = "Running"
         \/ frames[i].fn = "Shutdown" /\ wp'[w].m_State = wp[w].m_State
  PROVE  Replacing' => Spares(i, Bottom.w)'
<1> SUFFICES ASSUME Replacing'
             PROVE  Spares(i, Bottom.w)'
  OBVIOUS
<1>0. TypeOK /\ stack # <<>>
  BY CallsReturn DEF ObjectInv, QuietInvariant
<1>1. Replacing /\ Bottom' = Bottom
  BY <1>0, BottomStays
<1>2. Spares(1, Bottom.w) /\ stack[1] = Head(stack)
  BY <1>0, <1>1, First DEF FrameInv, Ordered
<1>3. stack'[i] = frames[i]
  BY <1>0, Pushed
<1> QED
  BY <1>1, <1>2, <1>3 DEF Spares

\* MarkAsTerminallyIll may be called on an object that is not terminated yet.
LEMMA IllFounded ==
  ASSUME NEW w \in WP, NEW why, why # "NotIll", stack'[1] = Ill(w, why), ~Dead(w)',
         Replacing' => Spares(1, Bottom.w)'
  PROVE  FrameInv(1)'
<1>1. stack'[1].fn = "MarkAsTerminallyIll" /\ stack'[1].w = w /\ stack'[1].why = why
  BY DEF Ill
<1> QED
  BY <1>1 DEF FrameInv, Placed, Founded, Ordered

\* A call that keeps every object and returns at once, or makes one other call.
LEMMA CoreReturns ==
  ASSUME ObjectInv, MakeCall, CoreKept, UNCHANGED <<list, queue>>, Return(<<>>), HeadDone,
         Head(stack).fn # "Dereference"
  PROVE  ObjectInv'
<1> DEFINE frames == <<>>
<1>1. frames \in Seq(Frames) /\ Len(frames) = 0 /\ Return(frames)
  OBVIOUS
<1> HIDE DEF frames
<1>2. Fresh(frames) /\ \A i \in 1 .. Len(frames) : frames[i].fn # "Dereference"
  BY <1>1 DEF Fresh
<1> QED
  BY <1>1, <1>2, CoreKeptObject

LEMMA StartupTailCall ==
  ASSUME ObjectInv, StartupTail
  PROVE  ObjectInv'
<1>0. MakeCall /\ stack # <<>> /\ UNCHANGED <<list, queue>> /\ Head(stack).fn = "StartupTail"
      /\ (Calling("StartupTail"))
  BY DEF MakeCall, WorkerProcessCall, StartupTail, Calling
<1>1. HeadDone /\ TypeOK /\ FrameInv(1) /\ Head(stack) = stack[1]
  BY <1>0, First, OtherHead
<1>2. PICK w \in WP : w = This
  BY <1>0, <1>1, CallingWP DEF WorkerProcessMethods
<1>3. CoreKept
  BY <1>1, <1>2, CoreField DEF StartupTail
<1>4. CASE Return(<<>>)
  BY <1>0, <1>1, <1>3, <1>4, CoreReturns
<1>5. CASE ~Return(<<>>)
  <2>1. Return(<<Ill(w, "InternalError")>>) /\ wp[w].m_pMessagingHandler # "NULL" /\ wp' = wp
    BY <1>2, <1>5 DEF StartupTail
  <2> DEFINE f == Ill(w, "InternalError")
  <2>2. f \in Frames /\ f.fn = "MarkAsTerminallyIll"
    BY IllFrame DEF IllnessReasons, Ill
  <2>3. Len(stack) = 1
    BY <1>0, <1>1 DEF FrameInv, Placed
  <2>4. Return(<<f>>)
    BY <2>1
  <2>5. stack'[1] = f /\ Len(stack') = 1
    BY <1>0, <1>1, <2>2, <2>3, <2>4, PushedOne
  <2>6. ~Dead(w)'
    BY <2>1 DEF ObjectInv, QuietInvariant, AllQuiet, Quiet, Dead
  <2>7. ~Replacing'
    BY <2>2, <2>5 DEF Replacing, Bottom
  <2>8. FrameInv(1)'
    BY <2>5, <2>6, <2>7, IllFounded
  <2> QED
    BY <1>0, <1>1, <2>1, <2>2, <2>4, <2>8, JustCalls
<1> QED
  BY <1>4, <1>5

LEMMA MarkReplacedCall ==
  ASSUME ObjectInv, MarkReplaced
  PROVE  ObjectInv'
<1>0. MakeCall /\ stack # <<>> /\ UNCHANGED <<list, queue>> /\ Head(stack).fn = "MarkReplaced"
      /\ Calling("MarkReplaced") /\ Return(<<>>)
  BY DEF MakeCall, WorkerProcessCall, MarkReplaced, Calling
<1>1. HeadDone /\ TypeOK
  BY <1>0, First, OtherHead
<1>2. PICK w \in WP : w = This
  BY <1>0, <1>1, CallingWP DEF WorkerProcessMethods
<1>3. CoreKept
  BY <1>1, <1>2, CoreField DEF MarkReplaced
<1> QED
  BY <1>0, <1>1, <1>3, CoreReturns

\* A call that changes one object in an ordinary way.
LEMMA OneObject ==
  ASSUME NEW w \in WP, \A v \in WP : v # w => wp'[v] = wp[v],
         Old(w)' = Old(w), Kept(w) \/ Freed(w),
         wp'[w].m_State = "Running" => wp[w].m_State = "Running"
  PROVE  Ordinary
<1> SUFFICES ASSUME NEW v \in WP, v # w
             PROVE  /\ Old(v)' = Old(v) /\ Kept(v)
                    /\ wp'[v].m_State = "Running" => wp[v].m_State = "Running"
  BY DEF Ordinary
<1>1. wp'[v] = wp[v]
  OBVIOUS
<1> QED
  BY <1>1 DEF Old, Kept, Steady, Sick, Dead, SameCore

\* The references of the other objects are not touched.
LEMMA OneBalanced ==
  ASSUME TypeOK, NEW w \in WP, \A v \in WP : v # w => wp'[v] = wp[v],
         NEW frames \in Seq(Frames),
         \A i \in 1 .. Len(frames) : frames[i].fn = "Dereference" => frames[i].w = w,
         Head(stack).w = w,
         wp'[w].m_RefCount + Handled(w)
             + (IF Head(stack) = Call("Dereference", w) THEN 1 ELSE 0)
           = wp[w].m_RefCount + Handled(w)' + Count(frames, {Call("Dereference", w)})
  PROVE  Balanced(frames)
<1> SUFFICES ASSUME NEW v \in WP, v # w
             PROVE  wp'[v].m_RefCount + Handled(v)
                        + (IF Head(stack) = Call("Dereference", v) THEN 1 ELSE 0)
                      = wp[v].m_RefCount + Handled(v)'
                          + Count(frames, {Call("Dereference", v)})
  BY DEF Balanced
<1>1. Call("Dereference", v).w = v /\ Call("Dereference", v).fn = "Dereference"
  BY DEF Call
<1>2. Head(stack) # Call("Dereference", v)
  BY <1>1
<1>3. {i \in DOMAIN frames : frames[i] \in {Call("Dereference", v)}} = {}
  BY <1>1
<1>4. Count(frames, {Call("Dereference", v)}) = 0
  BY <1>3, FS_EmptySet DEF Count
<1>5. wp'[v] = wp[v] /\ wp[v].m_RefCount \in Int /\ Handled(v) \in Int
  BY DEF TypeOK, WorkerProcesses, Handled
<1>6. Handled(v)' = Handled(v)
  BY <1>5 DEF Handled
<1> QED
  BY <1>2, <1>4, <1>5, <1>6

LEMMA InitializedEffect ==
  ASSUME NEW r \in WorkerProcesses, NEW outcome, r.m_pMessagingHandler = "NULL"
  PROVE  LET s == Initialized(r, outcome) IN
         /\ s.m_State \in {r.m_State, "RegistrationPending"}
         /\ s.m_TerminalIllReason = r.m_TerminalIllReason
         /\ s.m_pWorkerProcessToReplace = r.m_pWorkerProcessToReplace
         /\ s.m_RefCount = r.m_RefCount + (IF s.m_pMessagingHandler = "attached" THEN 1 ELSE 0)
  BY DEF Initialized, WorkerProcesses

LEMMA InitializeCall ==
  ASSUME ObjectInv, Initialize
  PROVE  ObjectInv'
<1>0. MakeCall /\ stack # <<>> /\ UNCHANGED <<pool, list, queue>> /\ Head(stack).fn = "Initialize"
      /\ Calling("Initialize")
  BY DEF MakeCall, WorkerProcessCall, Initialize, Calling
<1>1. HeadDone /\ TypeOK /\ FrameInv(1) /\ Head(stack) = stack[1]
  BY <1>0, First, OtherHead
<1>2. PICK w \in WP : w = This
  BY <1>0, <1>1, CallingWP DEF WorkerProcessMethods
<1>3. PICK outcome \in InitializeOutcomes :
        /\ wp' = [wp EXCEPT ![w] = Initialized(wp[w], outcome)]
        /\ Return(InitializeDone(w, outcome))
  BY <1>2 DEF Initialize
<1>4. wp[w].m_State = "Uninitialized" /\ wp[w].m_pMessagingHandler = "NULL" /\ Head(stack).w = w
  BY <1>0, <1>1, <1>2 DEF FrameInv, Founded, This
<1>5. /\ wp'[w].m_State \in {"Uninitialized", "RegistrationPending"}
      /\ wp'[w].m_TerminalIllReason = wp[w].m_TerminalIllReason
      /\ Old(w)' = Old(w)
      /\ wp'[w].m_RefCount = wp[w].m_RefCount + Handled(w)'
      /\ \A v \in WP : v # w => wp'[v] = wp[v]
  <2>1. wp[w] \in WorkerProcesses /\ wp'[w] = Initialized(wp[w], outcome)
    BY <1>1, <1>3 DEF TypeOK
  <2>2. \A v \in WP : v # w => wp'[v] = wp[v]
    BY <1>1, <1>3 DEF TypeOK
  <2> QED
    BY <1>4, <2>1, <2>2, InitializedEffect DEF Old, Handled
<1> DEFINE frames == InitializeDone(w, outcome)
<1>6. /\ frames \in Seq(Frames) /\ Len(frames) \in {0, 1}
      /\ Len(frames) = 1 => \E why : why # "NotIll" /\ frames[1] = Ill(w, why)
  <2>1. /\ Ill(w, "CreateProcessFailed") \in Frames
        /\ Ill(w, "InternalError") \in Frames
    BY IllFrame DEF IllnessReasons
  <2>2. \/ frames = <<>>
        \/ \E why \in {"CreateProcessFailed", "InternalError"} : frames = <<Ill(w, why)>>
    BY DEF InitializeDone
  <2> HIDE DEF frames
  <2>3. CASE frames = <<>>
    BY <2>3
  <2>4. ASSUME NEW why \in {"CreateProcessFailed", "InternalError"}, frames = <<Ill(w, why)>>
        PROVE  frames \in Seq(Frames) /\ Len(frames) = 1 /\ why # "NotIll" /\ frames[1] = Ill(w, why)
    <3>1. Ill(w, why) \in Frames
      BY <2>1
    <3> QED
      BY <2>4, <3>1
  <2> QED
    BY <2>2, <2>3, <2>4
<1> HIDE DEF frames
<1>7. Return(frames)
  BY <1>3 DEF frames
<1>8. /\ \A i \in 1 .. Len(frames) : stack'[i] = frames[i]
      /\ Len(frames) \in Nat
  BY <1>0, <1>1, <1>6, <1>7, Pushed
<1>9. \A i \in 1 .. Len(frames) : frames[i].fn = "MarkAsTerminallyIll" /\ frames[i].w = w /\ i = 1
  <2> TAKE i \in 1 .. Len(frames)
  <2>0. Len(frames) = 0 \/ Len(frames) = 1
    BY <1>6
  <2>1. i = 1 /\ Len(frames) = 1
    <3>1. CASE Len(frames) = 0
      BY <3>1
    <3>2. CASE Len(frames) = 1
      BY <3>2
    <3> QED
      BY <2>0, <3>1, <3>2
  <2>2. PICK why : frames[1] = Ill(w, why)
    BY <1>6, <2>1
  <2> QED
    BY <2>1, <2>2 DEF Ill
<1>10. Fresh(frames)
  <2> SUFFICES ASSUME NEW i \in 1 .. Len(frames)
               PROVE  FrameInv(i)'
    BY <1>9 DEF Fresh
  <2>1. i = 1 /\ Len(frames) = 1 /\ stack'[1] = frames[1]
    BY <1>6, <1>8, <1>9
  <2>2. PICK why : why # "NotIll" /\ stack'[1] = Ill(w, why)
    BY <1>6, <2>1
  <2>3. ~Dead(w)'
    BY <1>5 DEF Dead
  <2>4. Replacing' => Spares(i, Bottom.w)'
    BY <1>0, <1>4, <1>5, <1>6, <1>7, <1>9, StillSpares DEF Danger
  <2> QED
    BY <2>1, <2>2, <2>3, <2>4, IllFounded
<1>11. Kept(w)
  BY <1>4, <1>5 DEF Kept, Steady, Sick, Dead
<1>12. Ordinary
  BY <1>5, <1>11, OneObject
<1>13. Balanced(frames)
  <2>1. Count(frames, {Call("Dereference", w)}) = 0
    BY <1>6, <1>9, CountNone
  <2>2. Head(stack) # Call("Dereference", w)
    BY <1>0 DEF Call
  <2>3. Handled(w) = 0 /\ Handled(w)' \in Int /\ wp[w].m_RefCount \in Int
    BY <1>1, <1>4 DEF Handled, TypeOK, WorkerProcesses
  <2>4. wp'[w].m_RefCount + Handled(w)
             + (IF Head(stack) = Call("Dereference", w) THEN 1 ELSE 0)
           = wp[w].m_RefCount + Handled(w)' + Count(frames, {Call("Dereference", w)})
    BY <1>5, <2>1, <2>2, <2>3
  <2> QED
    BY <1>1, <1>4, <1>5, <1>6, <1>9, <2>4, OneBalanced
<1> QED
  BY <1>0, <1>1, <1>6, <1>7, <1>10, <1>12, <1>13, OrdinaryObject

\* A call that changes one object in an ordinary way and returns at once.
LEMMA OneReturns ==
  ASSUME ObjectInv, MakeCall, UNCHANGED <<list, queue>>, Return(<<>>), HeadDone,
         NEW w \in WP, \A v \in WP : v # w => wp'[v] = wp[v], Head(stack).w = w,
         Old(w)' = Old(w), Kept(w) \/ Freed(w),
         wp'[w].m_State = "Running" => wp[w].m_State = "Running",
         wp'[w].m_RefCount + Handled(w)
             + (IF Head(stack) = Call("Dereference", w) THEN 1 ELSE 0)
           = wp[w].m_RefCount + Handled(w)'
  PROVE  ObjectInv'
<1>0. TypeOK /\ TypeOK'
  BY NextType DEF ObjectInv, QuietInvariant, Next
<1> DEFINE frames == <<>>
<1>1. frames \in Seq(Frames) /\ Len(frames) = 0 /\ Return(frames)
  OBVIOUS
<1>2. Count(frames, {Call("Dereference", w)}) = 0
  BY CountSmall
<1> HIDE DEF frames
<1>3. Fresh(frames) /\ \A i \in 1 .. Len(frames) : frames[i].fn # "Dereference"
  BY <1>1 DEF Fresh
<1>4. wp[w].m_RefCount \in Int /\ Handled(w)' \in Int
  BY <1>0 DEF TypeOK, WorkerProcesses, Handled
<1>5. wp[w].m_RefCount + Handled(w)'
        = wp[w].m_RefCount + Handled(w)' + Count(frames, {Call("Dereference", w)})
  BY <1>2, <1>4
<1>6. wp'[w].m_RefCount + Handled(w)
             + (IF Head(stack) = Call("Dereference", w) THEN 1 ELSE 0)
           = wp[w].m_RefCount + Handled(w)' + Count(frames, {Call("Dereference", w)})
  BY <1>5, Zenon
<1>7. Balanced(frames)
  BY <1>0, <1>1, <1>3, <1>6, OneBalanced
<1>8. Ordinary
  BY OneObject
<1> QED
  BY <1>1, <1>3, <1>7, <1>8, OrdinaryObject

LEMMA ShutdownBegunEffect ==
  ASSUME NEW r \in WorkerProcesses, NEW outcome
  PROVE  LET s == ShutdownBegun(r, outcome) IN
         /\ s.m_State = "ShutdownPending"
         /\ s.m_TerminalIllReason = r.m_TerminalIllReason
         /\ s.m_pWorkerProcessToReplace = r.m_pWorkerProcessToReplace
         /\ s.m_RefCount = r.m_RefCount
         /\ s.m_pMessagingHandler = r.m_pMessagingHandler
  BY DEF ShutdownBegun, WorkerProcesses

\* A failure to shut a process down is reported under a reference of its own.
LEMMA ShutdownFails ==
  ASSUME ObjectInv, Shutdown, NEW w \in WP, w = This, wp[w].m_State = "Running",
         \A v \in WP : v # w => wp'[v] = wp[v],
         wp'[w].m_State = "ShutdownPending", Old(w)' = Old(w), Sick(w) => Sick(w)',
         Handled(w)' = Handled(w), wp'[w].m_RefCount = wp[w].m_RefCount + 1,
         Return(ShutdownFailed(w)), HeadDone
  PROVE  ObjectInv'
<1>0. /\ MakeCall /\ stack # <<>> /\ UNCHANGED <<pool, list, queue>>
      /\ Head(stack).fn = "Shutdown" /\ Head(stack).w = w
  BY DEF MakeCall, WorkerProcessCall, Shutdown, Calling, This
<1>1. TypeOK /\ TypeOK'
  BY <1>0, NextType DEF ObjectInv, QuietInvariant, Next
<1> DEFINE f == Ill(w, "InternalError")
           g == Call("Dereference", w)
           frames == <<f, g>>
<1>2. /\ f \in Frames /\ f.fn = "MarkAsTerminallyIll" /\ f.w = w
      /\ g \in Frames /\ g.fn = "Dereference" /\ g.w = w /\ g = Call("Dereference", w)
      /\ f # g
  BY IllFrame, WorkerFrame DEF Ill, Call, IllnessReasons, WorkerProcessMethods
<1>3. Return(frames)
  BY DEF ShutdownFailed
<1>4. Count(frames, {Call("Dereference", w)}) = 1
  <2>1. f \notin {Call("Dereference", w)} /\ g \in {Call("Dereference", w)}
    BY <1>2
  <2>2. Count(frames, {Call("Dereference", w)})
          = (IF f \in {Call("Dereference", w)} THEN 1 ELSE 0)
              + (IF g \in {Call("Dereference", w)} THEN 1 ELSE 0)
    BY <1>2, CountPair
  <2>3. (IF f \in {Call("Dereference", w)} THEN 1 ELSE 0) = 0
        /\ (IF g \in {Call("Dereference", w)} THEN 1 ELSE 0) = 1
    BY <2>1
  <2> QED
    BY <2>2, <2>3
<1> HIDE DEF f, g
<1>5. frames \in Seq(Frames) /\ Len(frames) = 2 /\ frames[1] = f /\ frames[2] = g
  BY <1>2
<1> HIDE DEF frames
<1>6. stack'[1] = f /\ stack'[2] = g
  <2>1. \A i \in 1 .. Len(frames) : stack'[i] = frames[i]
    BY <1>0, <1>1, <1>3, <1>5, Pushed
  <2> QED
    BY <1>5, <2>1
<1>7. FrameInv(1)'
  <2>1. ~Dead(w)'
    BY DEF Dead
  <2>2. Replacing' => Spares(1, Bottom.w)'
    <3>1. 1 \in 1 .. Len(frames) /\ \A k \in 1 .. Len(frames) : frames[k].fn # "ReplaceAll"
      BY <1>2, <1>5
    <3>2. frames[1].w = w
      BY <1>2, <1>5
    <3> QED
      BY <1>0, <1>3, <1>5, <3>1, <3>2, StillSpares DEF Danger
  <2>3. stack'[1] = Ill(w, "InternalError")
    BY <1>6 DEF f
  <2> QED
    BY <2>1, <2>2, <2>3, IllFounded
<1>8. FrameInv(2)'
  BY <1>2, <1>6 DEF FrameInv, Placed, Founded, Ordered, Danger
<1>9. Fresh(frames)
  BY <1>2, <1>5, <1>7, <1>8 DEF Fresh
<1>10. Kept(w)
  BY DEF Kept, Steady, Dead
<1>11. Ordinary
  BY <1>10, OneObject
<1>12. Balanced(frames)
  <2>1. Head(stack) # Call("Dereference", w)
    BY <1>0 DEF Call
  <2>2. wp[w].m_RefCount \in Int /\ Handled(w) \in Int
    BY <1>1 DEF TypeOK, WorkerProcesses, Handled
  <2>3. wp'[w].m_RefCount + Handled(w)
             + (IF Head(stack) = Call("Dereference", w) THEN 1 ELSE 0)
           = wp[w].m_RefCount + Handled(w)' + Count(frames, {Call("Dereference", w)})
    BY <1>4, <2>1, <2>2
  <2>4. \A i \in 1 .. Len(frames) : frames[i].fn = "Dereference" => frames[i].w = w
    BY <1>2, <1>5
  <2> QED
    BY <1>0, <1>1, <1>5, <2>3, <2>4, OneBalanced
<1> QED
  BY <1>0, <1>3, <1>5, <1>9, <1>11, <1>12, OrdinaryObject

LEMMA ShutdownCall ==
  ASSUME ObjectInv, Shutdown
  PROVE  ObjectInv'
<1>0. MakeCall /\ stack # <<>> /\ UNCHANGED <<pool, list, queue>> /\ Head(stack).fn = "Shutdown"
      /\ Calling("Shutdown")
  BY DEF MakeCall, WorkerProcessCall, Shutdown, Calling
<1>1. TypeOK /\ Head(stack) = stack[1]
  BY <1>0, First
<1>2. PICK w \in WP : w = This
  BY <1>0, <1>1, CallingWP DEF WorkerProcessMethods
<1>3. stack[1].w = w /\ stack[1].fn = "Shutdown" /\ wp[w] \in WorkerProcesses
      /\ wp \in [WP -> WorkerProcesses] /\ Head(stack).w = w
  BY <1>0, <1>1, <1>2 DEF This, TypeOK
<1>4. wp'[w].m_State # "Running" => HeadDone
  BY <1>3 DEF HeadDone, At
<1>5. Head(stack) # Call("Dereference", w)
  BY <1>0 DEF Call
<1>6. wp[w].m_RefCount \in Int /\ Handled(w) \in Int
  BY <1>3 DEF WorkerProcesses, Handled
<1>7. ASSUME Return(<<>>), \A v \in WP : v # w => wp'[v] = wp[v],
             wp[w].m_State \in {"RegistrationPending", "Running"},
             wp'[w].m_State \in {"RegistrationPendingShutdownPending", "ShutdownPending"},
             Old(w)' = Old(w), Sick(w) => Sick(w)', Handled(w)' = Handled(w),
             wp'[w].m_RefCount = wp[w].m_RefCount
      PROVE  ObjectInv'
  <2>1. Kept(w)
    BY <1>7 DEF Kept, Steady, Dead
  <2>2. wp'[w].m_RefCount + Handled(w)
             + (IF Head(stack) = Call("Dereference", w) THEN 1 ELSE 0)
           = wp[w].m_RefCount + Handled(w)'
    BY <1>5, <1>6, <1>7
  <2> QED
    BY <1>0, <1>3, <1>4, <1>7, <2>1, <2>2, OneReturns
<1>8. CASE wp[w].m_State = "RegistrationPending"
  <2>1. /\ wp' = [wp EXCEPT ![w] =
                    [wp[w] EXCEPT !.m_State = "RegistrationPendingShutdownPending"]]
        /\ Return(<<>>)
    BY <1>2, <1>8 DEF Shutdown
  <2> DEFINE r == [wp[w] EXCEPT !.m_State = "RegistrationPendingShutdownPending"]
  <2>2. /\ r.m_State = "RegistrationPendingShutdownPending"
        /\ r.m_TerminalIllReason = wp[w].m_TerminalIllReason
        /\ r.m_pWorkerProcessToReplace = wp[w].m_pWorkerProcessToReplace
        /\ r.m_RefCount = wp[w].m_RefCount
        /\ r.m_pMessagingHandler = wp[w].m_pMessagingHandler
    BY <1>3 DEF WorkerProcesses
  <2> HIDE DEF r
  <2>3. wp'[w] = r /\ \A v \in WP : v # w => wp'[v] = wp[v]
    BY <1>3, <2>1 DEF r
  <2> QED
    BY <1>7, <1>8, <2>1, <2>2, <2>3 DEF Old, Sick, Handled
<1>9. CASE wp[w].m_State = "Running"
  <2>1. PICK outcome :
          LET tbl == [wp EXCEPT ![w] = ShutdownBegun(wp[w], outcome)]
          IN \/ wp' = tbl /\ Return(<<>>)
             \/ wp' = Referenced(tbl, w) /\ Return(ShutdownFailed(w))
    BY <1>2, <1>9 DEF Shutdown
  <2> DEFINE s == ShutdownBegun(wp[w], outcome)
             tbl == [wp EXCEPT ![w] = s]
  <2>2. /\ s.m_State = "ShutdownPending"
        /\ s.m_TerminalIllReason = wp[w].m_TerminalIllReason
        /\ s.m_pWorkerProcessToReplace = wp[w].m_pWorkerProcessToReplace
        /\ s.m_RefCount = wp[w].m_RefCount
        /\ s.m_pMessagingHandler = wp[w].m_pMessagingHandler
    BY <1>3, ShutdownBegunEffect
  <2>3. s \in WorkerProcesses
    BY <1>3, ShutdownBegunType
  <2> HIDE DEF s
  <2>4. tbl \in [WP -> WorkerProcesses] /\ tbl[w] = s /\ \A v \in WP : v # w => tbl[v] = wp[v]
    BY <1>3, <2>3
  <2>5. \/ wp' = tbl /\ Return(<<>>)
        \/ wp' = Referenced(tbl, w) /\ Return(ShutdownFailed(w))
    BY <2>1 DEF s
  <2> HIDE DEF tbl
  <2>6. CASE wp' = tbl /\ Return(<<>>)
    BY <1>7, <1>9, <2>2, <2>4, <2>6 DEF Old, Sick, Handled
  <2>7. CASE wp' = Referenced(tbl, w) /\ Return(ShutdownFailed(w))
    <3>1. /\ \A v \in WP : v # w => wp'[v] = wp[v]
          /\ wp'[w].m_State = "ShutdownPending" /\ Old(w)' = Old(w) /\ (Sick(w) => Sick(w)')
          /\ Handled(w)' = Handled(w) /\ wp'[w].m_RefCount = wp[w].m_RefCount + 1
      BY <2>2, <2>4, <2>7, ReferencedEffect DEF Old, Sick, Handled
    <3> QED
      BY <1>2, <1>4, <1>9, <2>7, <3>1, ShutdownFails
  <2> QED
    BY <2>5, <2>6, <2>7
<1>10. CASE wp[w].m_State \notin {"RegistrationPending", "Running"}
  <2>1. Return(<<>>) /\ wp' = wp
    BY <1>2, <1>10 DEF Shutdown
  <2> QED
    BY <1>0, <1>4, <1>10, <2>1, JustReturns
<1> QED
  BY <1>8, <1>9, <1>10

\* Two calls that a call makes become the first two on the stack.
LEMMA PushedTwo ==
  ASSUME TypeOK, stack # <<>>, NEW f \in Frames, NEW g \in Frames, Return(<<f, g>>)
  PROVE  /\ stack'[1] = f /\ stack'[2] = g /\ Len(stack') = Len(stack) + 1
         /\ Len(stack) \in Nat \ {0}
         /\ \A i \in 2 .. Len(stack) : stack'[i + 1] = stack[i]
         /\ \A i \in 3 .. Len(stack') : stack'[i] = stack[i - 1] /\ i - 1 \in 2 .. Len(stack)
<1> DEFINE frames == <<f, g>>
<1>1. /\ frames \in Seq(Frames) /\ Len(frames) = 2 /\ Return(frames)
      /\ frames[1] = f /\ frames[2] = g
  OBVIOUS
<1> HIDE DEF frames
<1>2. /\ Len(stack) \in Nat \ {0} /\ Len(stack') = Len(frames) + Len(stack) - 1
      /\ \A i \in 1 .. Len(frames) : stack'[i] = frames[i]
      /\ \A i \in 2 .. Len(stack) : stack'[Len(frames) + i - 1] = stack[i]
      /\ \A i \in Len(frames) + 1 .. Len(stack') :
           /\ stack'[i] = stack[i - Len(frames) + 1]
           /\ i - Len(frames) + 1 \in 2 .. Len(stack)
  BY <1>1, Pushed
<1>3. stack'[1] = f /\ stack'[2] = g
  BY <1>1, <1>2
<1>4. Len(stack') = Len(stack) + 1
  BY <1>1, <1>2
<1>5. \A i \in 2 .. Len(stack) : 2 + i - 1 = i + 1
  BY <1>2
<1>6. \A i \in 3 .. Len(stack') : i - 2 + 1 = i - 1
  BY <1>2
<1> QED
  BY <1>1, <1>2, <1>3, <1>4, <1>5, <1>6

\* An object found ill is reported and then terminated.
LEMMA FoundIll ==
  ASSUME ObjectInv, MarkAsTerminallyIll, NEW w \in WP, w = This, ~Sick(w),
         wp' = [wp EXCEPT ![w].m_TerminalIllReason = Head(stack).why],
         Return(<<Call("ReportFailure", w), Call("Terminate", w)>>)
  PROVE  ObjectInv'
<1>0. /\ MakeCall /\ stack # <<>> /\ UNCHANGED <<pool, list, queue>>
      /\ Head(stack).fn = "MarkAsTerminallyIll" /\ Head(stack).w = w
  BY DEF MakeCall, WorkerProcessCall, MarkAsTerminallyIll, Calling, This
<1>1. TypeOK /\ Head(stack) = stack[1] /\ FrameInv(1) /\ HeadDone /\ Len(stack) \in Nat
  BY <1>0, First, OtherHead
<1>2. /\ wp'[w].m_State = wp[w].m_State /\ Old(w)' = Old(w)
      /\ wp'[w].m_RefCount = wp[w].m_RefCount
      /\ wp'[w].m_pMessagingHandler = wp[w].m_pMessagingHandler
      /\ wp'[w].m_TerminalIllReason = Head(stack).why
      /\ \A v \in WP : v # w => wp'[v] = wp[v]
  <2>1. wp \in [WP -> WorkerProcesses] /\ wp[w] \in WorkerProcesses
    BY <1>1 DEF TypeOK
  <2> DEFINE r == [wp[w] EXCEPT !.m_TerminalIllReason = Head(stack).why]
  <2>2. /\ r.m_State = wp[w].m_State
        /\ r.m_pWorkerProcessToReplace = wp[w].m_pWorkerProcessToReplace
        /\ r.m_RefCount = wp[w].m_RefCount
        /\ r.m_pMessagingHandler = wp[w].m_pMessagingHandler
        /\ r.m_TerminalIllReason = Head(stack).why
    BY <2>1 DEF WorkerProcesses
  <2>3. wp' = [wp EXCEPT ![w] = r]
    OBVIOUS
  <2> HIDE DEF r
  <2>4. wp'[w] = r /\ \A v \in WP : v # w => wp'[v] = wp[v]
    BY <2>1, <2>3
  <2> QED
    BY <2>2, <2>4 DEF Old
<1>3. Sick(w)'
  BY <1>0, <1>1, <1>2 DEF Sick, FrameInv, Placed
<1>4. ~Dead(w) \/ KeptBelow(w, 1)
  BY <1>0, <1>1 DEF FrameInv, Founded
<1>5. Kept(w)
  BY <1>2, <1>3, <1>4 DEF Kept, Steady, Dead, KeptBelow
<1>6. Ordinary
  BY <1>2, <1>5, OneObject
<1> DEFINE f == Call("ReportFailure", w)
           g == Call("Terminate", w)
           frames == <<f, g>>
<1>7. /\ f \in Frames /\ f.fn = "ReportFailure" /\ f.w = w
      /\ g \in Frames /\ g.fn = "Terminate" /\ g.w = w
  BY WorkerFrame DEF Call, WorkerProcessMethods
<1>8. Return(frames)
  OBVIOUS
<1> HIDE DEF f, g
<1>9. /\ stack'[1] = f /\ stack'[2] = g /\ Len(stack') = Len(stack) + 1
      /\ \A i \in 2 .. Len(stack) : stack'[i + 1] = stack[i]
      /\ \A i \in 3 .. Len(stack') : stack'[i] = stack[i - 1] /\ i - 1 \in 2 .. Len(stack)
  BY <1>0, <1>1, <1>7, <1>8, PushedTwo
<1>10. frames \in Seq(Frames) /\ Len(frames) = 2 /\ frames[1] = f /\ frames[2] = g
  BY <1>7
<1> HIDE DEF frames
<1>11. \A i \in 1 .. Len(frames) :
         frames[i].w = w /\ frames[i].fn \in {"ReportFailure", "Terminate"}
  BY <1>7, <1>10
<1>12. FrameInv(1)'
  BY <1>7, <1>9, Harmless
<1>13. FrameInv(2)'
  <2>1. Replacing' => Spares(2, Bottom.w)'
    <3>1. 2 \in 1 .. Len(frames) /\ frames[2].w = w
      BY <1>7, <1>10
    <3>2. \A k \in 1 .. Len(frames) : frames[k].fn # "ReplaceAll"
      BY <1>11
    <3> QED
      BY <1>0, <1>2, <1>8, <1>10, <3>1, <3>2, StillSpares DEF Danger
  <2>2. \A j \in 1 .. Len(stack') : At(j, "Terminate", w)' => j = 2
    <3> SUFFICES ASSUME NEW j \in 1 .. Len(stack'), At(j, "Terminate", w)', j # 2
                 PROVE  FALSE
      OBVIOUS
    <3>1. j # 1
      BY <1>7, <1>9 DEF At
    <3>2. j \in 3 .. Len(stack')
      BY <1>1, <1>9, <3>1
    <3>3. PICK k \in 2 .. Len(stack) : stack'[j] = stack[k]
      BY <1>9, <3>2
    <3>4. k \in 1 .. Len(stack) /\ k # 1 /\ stack[k].fn = "Terminate" /\ stack[k].w = w
      BY <1>1, <3>3 DEF At
    <3>5. FrameInv(k)
      BY <3>4 DEF ObjectInv, FramesInv
    <3> QED
      BY <3>4, <3>5 DEF FrameInv, Founded
  <2>3. ~Dead(w)' \/ KeptBelow(w, 2)'
    <3>1. CASE ~Dead(w)
      BY <1>2, <3>1 DEF Dead
    <3>2. CASE KeptBelow(w, 1)
      <4>1. PICK j \in 2 .. Len(stack) : stack[j] = Call("Dereference", w)
        BY <3>2 DEF KeptBelow
      <4>2. j + 1 \in 2 + 1 .. Len(stack') /\ stack'[j + 1] = Call("Dereference", w)
        BY <1>1, <1>9, <4>1
      <4> QED
        BY <1>2, <3>2, <4>2 DEF KeptBelow
    <3> QED
      BY <1>4, <3>1, <3>2
  <2> QED
    BY <1>3, <1>7, <1>9, <2>1, <2>2, <2>3 DEF FrameInv, Placed, Founded, Ordered
<1>14. Fresh(frames)
  BY <1>10, <1>11, <1>12, <1>13 DEF Fresh
<1>15. Balanced(frames)
  <2>1. Count(frames, {Call("Dereference", w)}) = 0
    BY <1>10, <1>11, CountNone
  <2>2. Head(stack) # Call("Dereference", w)
    BY <1>0 DEF Call
  <2>3. Handled(w) \in Int /\ wp[w].m_RefCount \in Int /\ Handled(w)' = Handled(w)
    BY <1>1, <1>2 DEF Handled, TypeOK, WorkerProcesses
  <2>4. wp'[w].m_RefCount + Handled(w)
             + (IF Head(stack) = Call("Dereference", w) THEN 1 ELSE 0)
           = wp[w].m_RefCount + Handled(w)' + Count(frames, {Call("Dereference", w)})
    BY <1>2, <2>1, <2>2, <2>3
  <2> QED
    BY <1>0, <1>1, <1>2, <1>10, <1>11, <2>4, OneBalanced
<1> QED
  BY <1>0, <1>1, <1>6, <1>8, <1>10, <1>14, <1>15, OrdinaryObject

LEMMA MarkAsTerminallyIllCall ==
  ASSUME ObjectInv, MarkAsTerminallyIll
  PROVE  ObjectInv'
<1>0. /\ MakeCall /\ stack # <<>> /\ UNCHANGED <<pool, list, queue>>
      /\ Head(stack).fn = "MarkAsTerminallyIll" /\ Calling("MarkAsTerminallyIll")
  BY DEF MakeCall, WorkerProcessCall, MarkAsTerminallyIll, Calling
<1>1. TypeOK /\ HeadDone
  BY <1>0, First, OtherHead
<1>2. PICK w \in WP : w = This
  BY <1>0, <1>1, CallingWP DEF WorkerProcessMethods
<1>3. CASE Return(<<>>)
  <2>2. CASE CoreKept
    BY <1>0, <1>1, <1>3, <2>2, CoreReturns
  <2>3. CASE /\ wp' = [wp EXCEPT ![w].m_TerminalIllReason = Head(stack).why] /\ ~Sick(w)
             /\ Return(<<Call("ReportFailure", w), Call("Terminate", w)>>)
    BY <1>2, <2>3, FoundIll
  <2>4. \/ CoreKept
        \/ /\ wp' = [wp EXCEPT ![w].m_TerminalIllReason = Head(stack).why] /\ ~Sick(w)
           /\ Return(<<Call("ReportFailure", w), Call("Terminate", w)>>)
    BY <1>1, <1>2, CoreField DEF MarkAsTerminallyIll, Sick
  <2> QED
    BY <2>2, <2>3, <2>4
<1>4. CASE ~Return(<<>>)
  <2>1. /\ wp' = [wp EXCEPT ![w].m_TerminalIllReason = Head(stack).why] /\ ~Sick(w)
        /\ Return(<<Call("ReportFailure", w), Call("Terminate", w)>>)
    BY <1>2, <1>4 DEF MarkAsTerminallyIll, Sick
  <2> QED
    BY <1>2, <2>1, FoundIll
<1> QED
  BY <1>3, <1>4

\* A process that may not be replaced is left alone or shut down.
LEMMA ReplacementRefusedCall ==
  ASSUME ObjectInv, InitiateReplacement, UNCHANGED <<wp, list>>,
         Return(<<>>) \/ Return(ReplacementRefused(This))
  PROVE  ObjectInv'
<1>0. /\ MakeCall /\ stack # <<>> /\ queue' = queue
      /\ Head(stack).fn = "InitiateReplacement" /\ Calling("InitiateReplacement")
  BY DEF MakeCall, WorkerProcessCall, InitiateReplacement, Calling
<1>1. TypeOK /\ HeadDone
  BY <1>0, First, OtherHead
<1>2. PICK w \in WP : w = This
  BY <1>0, <1>1, CallingWP DEF WorkerProcessMethods
<1>3. CASE Return(<<>>)
  BY <1>0, <1>1, <1>3, JustReturns
<1>4. CASE Return(ReplacementRefused(This))
  <2> DEFINE f == Call("Shutdown", w)
             frames == <<f>>
  <2>1. f \in Frames /\ f.fn = "Shutdown" /\ f.w = w
    BY WorkerFrame DEF Call, WorkerProcessMethods
  <2>2. Return(frames)
    BY <1>2, <1>4 DEF ReplacementRefused
  <2> HIDE DEF f
  <2>3. frames \in Seq(Frames) /\ Len(frames) = 1 /\ frames[1] = f
    BY <2>1
  <2>4. stack'[1] = f
    BY <1>0, <1>1, <2>1, <2>2, PushedOne
  <2> HIDE DEF frames
  <2>5. Replacing' => Spares(1, Bottom.w)'
    <3>1. 1 \in 1 .. Len(frames) /\ frames[1].w = w /\ frames[1].fn = "Shutdown"
      BY <2>1, <2>3
    <3>2. \A k \in 1 .. Len(frames) : frames[k].fn # "ReplaceAll"
      BY <2>1, <2>3
    <3>3. Head(stack).w = w /\ Old(w)' = Old(w) /\ wp'[w].m_State = wp[w].m_State
      BY <1>2 DEF This, Old
    <3> QED
      BY <1>0, <2>2, <2>3, <3>1, <3>2, <3>3, StillSpares DEF Danger
  <2>6. FrameInv(1)'
    BY <2>1, <2>4, <2>5, SparingFrame
  <2>7. Return(<<f>>)
    BY <2>2 DEF frames
  <2> QED
    BY <1>0, <1>1, <2>1, <2>6, <2>7, JustCalls
<1> QED
  BY <1>3, <1>4

-----------------------------------------------------------------------------
(***************************************************************************)
(* Calls that drop a reference.  Whoever drops the last one is the last to *)
(* refer to the object, so that nothing is pending on it.                  *)
(***************************************************************************)
\* The count, by who holds the references.
LEMMA Shares ==
  ASSUME ObjectInv, NEW w \in WP
  PROVE  \E l, h, q, c, d \in Nat :
           /\ wp[w].m_RefCount = l + h + q + c + d
           /\ l = Listed(w) /\ h = Handled(w) /\ q = Queued(w)
           /\ c = Cardinality(Replacements(w)) /\ d = Held(w)
<1>1. Sum(w) /\ wp[w].m_RefCount = References(w)
  BY ReferencesSum DEF ObjectInv, QuietInvariant, RefCountExact
<1>2. Listed(w) \in Nat /\ Handled(w) \in Nat
  BY <1>1 DEF Sum
<1> QED
  BY <1>1, <1>2, Zenon DEF Sum

\* An object that is referred to has not been deleted.
LEMMA ReferredTo ==
  ASSUME ObjectInv, NEW w \in WP,
         \/ InList(w) \/ wp[w].m_pMessagingHandler = "attached" \/ Queued(w) >= 1
         \/ Cardinality(Replacements(w)) >= 1 \/ Held(w) >= 1
  PROVE  wp[w].m_State # "Free" /\ wp[w].m_RefCount >= 1
<1>1. PICK l, h, q, c, d \in Nat :
           /\ wp[w].m_RefCount = l + h + q + c + d
           /\ l = Listed(w) /\ h = Handled(w) /\ q = Queued(w)
           /\ c = Cardinality(Replacements(w)) /\ d = Held(w)
  BY Shares
<1>2. l >= 1 \/ h >= 1 \/ q >= 1 \/ c >= 1 \/ d >= 1
  BY <1>1 DEF Listed, Handled
<1>3. l + h + q + c + d >= 1
  BY <1>2
<1>4. wp[w].m_RefCount >= 1
  BY <1>1, <1>3
<1>5. ASSUME wp[w].m_State = "Free" PROVE FALSE
  BY <1>4, <1>5 DEF ObjectInv, Empties
<1> QED
  BY <1>4, <1>5

\* One reference has one holder.
LEMMA LastReference ==
  ASSUME ObjectInv, NEW w \in WP, wp[w].m_RefCount = 1
  PROVE  /\ Held(w) >= 1 =>
              /\ ~InList(w) /\ wp[w].m_pMessagingHandler # "attached"
              /\ Cardinality(Replacements(w)) = 0 /\ Held(w) = 1
         /\ InList(w) =>
              /\ wp[w].m_pMessagingHandler # "attached"
              /\ Cardinality(Replacements(w)) = 0 /\ Held(w) = 0
         /\ Cardinality(Replacements(w)) >= 1 =>
              /\ ~InList(w) /\ wp[w].m_pMessagingHandler # "attached"
              /\ Cardinality(Replacements(w)) = 1 /\ Held(w) = 0
<1>1. PICK l, h, q, c, d \in Nat :
           /\ wp[w].m_RefCount = l + h + q + c + d
           /\ l = Listed(w) /\ h = Handled(w) /\ q = Queued(w)
           /\ c = Cardinality(Replacements(w)) /\ d = Held(w)
  BY Shares
<1>2. l + h + q + c + d = 1
  BY <1>1
<1>3. /\ d >= 1 => l = 0 /\ h = 0 /\ c = 0 /\ d = 1
      /\ l = 1 => h = 0 /\ c = 0 /\ d = 0
      /\ c >= 1 => l = 0 /\ h = 0 /\ c = 1 /\ d = 0
  BY <1>2
<1>4. /\ InList(w) <=> l = 1
      /\ ~InList(w) <=> l = 0
      /\ wp[w].m_pMessagingHandler # "attached" <=> h = 0
  BY <1>1 DEF Listed, Handled
<1> QED
  BY <1>1, <1>3, <1>4

\* No reference held by a pending call, no Terminate pending on a terminated object.
LEMMA Unheld ==
  ASSUME ObjectInv, stack # <<>>, NEW w \in WP, Dead(w),
         Count(Tail(stack), {Call("Dereference", w)}) = 0
  PROVE  Unmentioned(w, {"Terminate"})
<1> SUFFICES ASSUME NEW k \in 2 .. Len(stack), stack[k].w = w, stack[k].fn = "Terminate"
             PROVE  FALSE
  BY DEF Unmentioned
<1>1. stack \in Seq(Frames) /\ Len(stack) \in Nat
  BY First
<1>2. k \in 1 .. Len(stack) /\ k \in Nat
  BY <1>1
<1>3. FrameInv(k)
  BY <1>2 DEF ObjectInv, FramesInv
<1>4. PICK j \in k + 1 .. Len(stack) : stack[j] = Call("Dereference", w)
  BY <1>3 DEF FrameInv, Founded, KeptBelow
<1>5. /\ Tail(stack) \in Seq(Frames) /\ j - 1 \in 1 .. Len(Tail(stack))
      /\ Tail(stack)[j - 1] = stack[j]
  BY <1>1, <1>2, <1>4
<1> DEFINE D == {Call("Dereference", w)}
<1>6. Tail(stack)[j - 1] \in D
  BY <1>4, <1>5
<1> HIDE DEF D
<1>7. Count(Tail(stack), D) >= 1
  BY <1>5, <1>6, CountPositive
<1> QED
  BY <1>7 DEF D

LEMMA DereferenceCall ==
  ASSUME ObjectInv, Dereference
  PROVE  ObjectInv'
<1>0. /\ MakeCall /\ stack # <<>> /\ UNCHANGED <<pool, list, queue>>
      /\ Head(stack).fn = "Dereference" /\ Calling("Dereference") /\ Return(<<>>)
  BY DEF MakeCall, WorkerProcessCall, Dereference, Calling
<1>1. TypeOK /\ HeadDone /\ Head(stack) = stack[1] /\ FrameInv(1)
  BY <1>0, First, OtherHead
<1>2. PICK w \in WP : w = This
  BY <1>0, <1>1, CallingWP DEF WorkerProcessMethods
<1>3. wp' = Dereferenced(wp, w) /\ wp \in [WP -> WorkerProcesses]
  BY <1>1, <1>2 DEF Dereference, TypeOK
<1>4. Head(stack) = Call("Dereference", w) /\ Head(stack).w = w
  BY <1>0, <1>1, <1>2 DEF FrameInv, Placed, This
<1>5. Held(w) = Count(Tail(stack), {Call("Dereference", w)}) + 1
      /\ Count(Tail(stack), {Call("Dereference", w)}) \in Nat
  <2> DEFINE frames == <<>>
  <2>1. frames \in Seq(Frames) /\ Return(frames)
    BY <1>0
  <2> HIDE DEF frames
  <2> QED
    BY <1>0, <1>1, <1>4, <2>1, HeldReturn
<1>6. Held(w) >= 1
  BY <1>5
<1>7. /\ \A v \in WP : v # w => wp'[v] = wp[v]
      /\ wp'[w].m_RefCount = wp[w].m_RefCount - 1
  BY <1>3, DereferencedEffect
<1>8. wp[w].m_RefCount \in Int /\ Handled(w) \in Int
  BY <1>1 DEF TypeOK, WorkerProcesses, Handled
<1>9. ASSUME Handled(w)' = Handled(w)
      PROVE  wp'[w].m_RefCount + Handled(w)
                 + (IF Head(stack) = Call("Dereference", w) THEN 1 ELSE 0)
               = wp[w].m_RefCount + Handled(w)'
  BY <1>4, <1>7, <1>8, <1>9
<1>10. CASE wp[w].m_RefCount = 1
  <2>1. ~InList(w) /\ wp[w].m_pMessagingHandler # "attached" /\ Held(w) = 1
    BY <1>6, <1>10, LastReference
  <2>2. wp'[w] = NoObject
    BY <1>3, <1>10, DereferencedEffect
  <2>3. Dead(w) /\ ~Terminating(w) /\ Old(w) = NoWP
    BY <2>1 DEF ObjectInv, ListInv, Membership, Successors
  <2>4. Count(Tail(stack), {Call("Dereference", w)}) = 0
    BY <1>5, <2>1
  <2>5. Unmentioned(w, {"Terminate"})
    BY <1>0, <2>3, <2>4, Unheld
  <2>6. Unmentioned(w, {"Terminate", "TerminateTail"})
    <3>1. \A i \in 2 .. Len(stack) : i \in 1 .. Len(stack)
      BY <1>0, First
    <3> QED
      BY <2>3, <2>5, <3>1 DEF Unmentioned, Terminating, At
  <2>7. Freed(w) /\ Old(w)' = Old(w) /\ wp'[w].m_State # "Running" /\ Handled(w)' = Handled(w)
    BY <2>1, <2>2, <2>3, <2>6 DEF Freed, NoObject, Old, Handled
  <2> QED
    BY <1>0, <1>1, <1>4, <1>7, <1>9, <2>7, OneReturns
<1>11. CASE wp[w].m_RefCount # 1
  <2>1. /\ wp'[w].m_State = wp[w].m_State
        /\ wp'[w].m_TerminalIllReason = wp[w].m_TerminalIllReason
        /\ Old(w)' = Old(w)
        /\ wp'[w].m_pMessagingHandler = wp[w].m_pMessagingHandler
    BY <1>3, <1>11, DereferencedEffect DEF Old
  <2>2. wp[w].m_State # "Free"
    BY <1>6, ReferredTo
  <2>3. Kept(w) /\ Handled(w)' = Handled(w)
    BY <2>1, <2>2 DEF Kept, Steady, Sick, Dead, Handled
  <2> QED
    BY <1>0, <1>1, <1>4, <1>7, <1>9, <2>1, <2>3, OneReturns
<1> QED
  BY <1>10, <1>11

\* The messaging handler lets go of an object that is still in the list.
LEMMA DetachHandlerCall ==
  ASSUME ObjectInv, DetachHandler
  PROVE  ObjectInv'
<1>0. /\ MakeCall /\ stack # <<>> /\ UNCHANGED <<pool, list, queue>>
      /\ Head(stack).fn = "DetachHandler" /\ Calling("DetachHandler") /\ Return(<<>>)
  BY DEF MakeCall, DetachHandler, Calling
<1>1. TypeOK /\ HeadDone
  BY <1>0, First, OtherHead
<1>2. PICK w \in WP : w = This
  BY <1>0, <1>1, CallingWP DEF WorkerProcessMethods
<1>3. CASE wp[w].m_pMessagingHandler # "attached"
  <2>1. wp' = wp
    BY <1>2, <1>3 DEF DetachHandler
  <2> QED
    BY <1>0, <1>1, <2>1, JustReturns
<1>4. CASE wp[w].m_pMessagingHandler = "attached"
  <2>1. ~Dead(w)
    BY <1>4 DEF ObjectInv, QuietInvariant, AllQuiet, Quiet, Dead
  <2>2. InList(w)
    BY <2>1 DEF ObjectInv, ListInv, Membership
  <2>3. wp[w].m_RefCount # 1
    BY <1>4, <2>2, LastReference
  <2> DEFINE r == [wp[w] EXCEPT !.m_pMessagingHandler = "detached"]
             tbl == [wp EXCEPT ![w] = r]
  <2>4. wp' = Dereferenced(tbl, w)
    BY <1>2, <1>4 DEF DetachHandler
  <2>5. wp \in [WP -> WorkerProcesses] /\ wp[w] \in WorkerProcesses
    BY <1>1 DEF TypeOK
  <2>6. /\ r.m_State = wp[w].m_State /\ r.m_RefCount = wp[w].m_RefCount
        /\ r.m_TerminalIllReason = wp[w].m_TerminalIllReason
        /\ r.m_pWorkerProcessToReplace = wp[w].m_pWorkerProcessToReplace
        /\ r.m_pMessagingHandler = "detached" /\ r \in WorkerProcesses
    BY <2>5 DEF WorkerProcesses, HandlerStates
  <2> HIDE DEF r
  <2>7. tbl \in [WP -> WorkerProcesses] /\ tbl[w] = r /\ \A v \in WP : v # w => tbl[v] = wp[v]
    BY <2>5, <2>6
  <2> HIDE DEF tbl
  <2>8. /\ \A v \in WP : v # w => wp'[v] = tbl[v]
        /\ wp'[w].m_RefCount = tbl[w].m_RefCount - 1
        /\ wp'[w].m_State = tbl[w].m_State
        /\ wp'[w].m_TerminalIllReason = tbl[w].m_TerminalIllReason
        /\ wp'[w].m_pWorkerProcessToReplace = tbl[w].m_pWorkerProcessToReplace
        /\ wp'[w].m_pMessagingHandler = tbl[w].m_pMessagingHandler
    BY <2>3, <2>4, <2>6, <2>7, DereferencedEffect
  <2>9. /\ \A v \in WP : v # w => wp'[v] = wp[v]
        /\ wp'[w].m_RefCount = wp[w].m_RefCount - 1
        /\ wp'[w].m_State = wp[w].m_State /\ Old(w)' = Old(w)
        /\ Handled(w) = 1 /\ Handled(w)' = 0
    BY <1>4, <2>6, <2>7, <2>8 DEF Old, Handled
  <2>10. Kept(w)
    BY <2>1, <2>6, <2>7, <2>8, <2>9 DEF Kept, Steady, Sick, Dead
  <2>11. wp'[w].m_RefCount + Handled(w)
             + (IF Head(stack) = Call("Dereference", w) THEN 1 ELSE 0)
           = wp[w].m_RefCount + Handled(w)'
    <3>1. Head(stack) # Call("Dereference", w)
      BY <1>0 DEF Call
    <3>2. wp[w].m_RefCount \in Int
      BY <2>5 DEF WorkerProcesses
    <3> QED
      BY <2>9, <3>1, <3>2
  <2>12. Head(stack).w = w
    BY <1>2 DEF This
  <2> QED
    BY <1>0, <1>1, <2>9, <2>10, <2>11, <2>12, OneReturns
<1> QED
  BY <1>3, <1>4

\* An object that only a replacement refers to has been terminated for good.
LEMMA OnlyReplaced ==
  ASSUME ObjectInv, stack # <<>>, Return(<<>>), Head(stack).fn # "Dereference",
         NEW w \in WP, wp[w].m_RefCount = 1, Cardinality(Replacements(w)) >= 1
  PROVE  /\ wp[w].m_pMessagingHandler # "attached" /\ Dead(w) /\ Old(w) = NoWP
         /\ Unmentioned(w, {"Terminate", "TerminateTail"})
<1>0. TypeOK
  BY First
<1>1. ~InList(w) /\ wp[w].m_pMessagingHandler # "attached" /\ Held(w) = 0
  BY LastReference
<1>2. Dead(w) /\ ~Terminating(w) /\ Old(w) = NoWP
  BY <1>1 DEF ObjectInv, ListInv, Membership, Successors
<1>3. Count(Tail(stack), {Call("Dereference", w)}) = 0
  <2> DEFINE frames == <<>>
  <2>1. frames \in Seq(Frames) /\ Return(frames)
    OBVIOUS
  <2> HIDE DEF frames
  <2>2. Head(stack) # Call("Dereference", w)
    BY DEF Call
  <2>3. /\ Count(Tail(stack), {Call("Dereference", w)}) \in Nat
        /\ Held(w) = Count(Tail(stack), {Call("Dereference", w)})
                       + (IF Head(stack) = Call("Dereference", w) THEN 1 ELSE 0)
    BY <1>0, <2>1, HeldReturn
  <2> QED
    BY <1>1, <2>2, <2>3
<1>4. Unmentioned(w, {"Terminate"})
  BY <1>2, <1>3, Unheld
<1>5. \A i \in 2 .. Len(stack) : i \in 1 .. Len(stack)
  BY First
<1> QED
  BY <1>1, <1>2, <1>4, <1>5 DEF Unmentioned, Terminating, At

\* A process lets go of the one it replaces.
LEMMA DropPredecessorEffect ==
  ASSUME ObjectInv, DropPredecessor, NEW w \in WP, w = This, NEW old \in WP, Old(w) = old
  PROVE  /\ \A v \in WP : Old(v)' = IF v = w THEN NoWP ELSE Old(v)
         /\ \A v \in WP : Handled(v)' = Handled(v)
         /\ \A v \in WP : wp'[v].m_RefCount = wp[v].m_RefCount - (IF v = old THEN 1 ELSE 0)
         /\ \A v \in WP : Kept(v) \/ Freed(v)
         /\ \A v \in WP : wp'[v].m_State = "Running" => wp[v].m_State = "Running"
<1>0. /\ stack # <<>> /\ Head(stack).fn = "DropPredecessor" /\ Return(<<>>)
      /\ wp' = Dereferenced([wp EXCEPT ![w].m_pWorkerProcessToReplace = NoWP], old)
  BY PointerAssumption DEF DropPredecessor, Calling, Old
<1>1. TypeOK /\ wp \in [WP -> WorkerProcesses] /\ wp[w] \in WorkerProcesses
  BY <1>0, First DEF TypeOK
<1>2. w \in Replacements(old) /\ Cardinality(Replacements(old)) >= 1
  <2>1. w \in Replacements(old)
    BY DEF Replacements
  <2>2. IsFiniteSet(Replacements(old)) /\ Cardinality(Replacements(old)) \in Nat
    BY <1>1, ReplacementsFinite DEF ObjectInv
  <2>3. Cardinality(Replacements(old)) # 0
    BY <2>1, <2>2, FS_EmptySet
  <2> QED
    BY <2>1, <2>2, <2>3
<1>3. wp[old].m_State # "Free" /\ wp[w].m_State # "Free"
  BY <1>2, ReferredTo, PointerAssumption DEF ObjectInv, Empties
<1> DEFINE r == [wp[w] EXCEPT !.m_pWorkerProcessToReplace = NoWP]
           tbl == [wp EXCEPT ![w] = r]
<1>4. wp' = Dereferenced(tbl, old)
  BY <1>0
<1>5. /\ r.m_State = wp[w].m_State /\ r.m_RefCount = wp[w].m_RefCount
      /\ r.m_TerminalIllReason = wp[w].m_TerminalIllReason
      /\ r.m_pWorkerProcessToReplace = NoWP
      /\ r.m_pMessagingHandler = wp[w].m_pMessagingHandler /\ r \in WorkerProcesses
  BY <1>1 DEF WorkerProcesses
<1> HIDE DEF r
<1>6. tbl \in [WP -> WorkerProcesses] /\ tbl[w] = r /\ \A v \in WP : v # w => tbl[v] = wp[v]
  BY <1>1, <1>5
<1> HIDE DEF tbl
<1>7. /\ \A v \in WP : v # old => wp'[v] = tbl[v]
      /\ wp'[old].m_RefCount = tbl[old].m_RefCount - 1
      /\ tbl[old].m_RefCount = wp[old].m_RefCount
  BY <1>4, <1>5, <1>6, DereferencedEffect
<1>8. \A v \in WP : wp[v].m_RefCount \in Int
  BY <1>1 DEF WorkerProcesses
<1>9. ASSUME NEW v \in WP, v # old
      PROVE  /\ Old(v)' = (IF v = w THEN NoWP ELSE Old(v)) /\ Handled(v)' = Handled(v)
             /\ wp'[v].m_RefCount = wp[v].m_RefCount /\ Kept(v)
             /\ wp'[v].m_State = wp[v].m_State
  BY <1>3, <1>5, <1>6, <1>7, <1>9 DEF Old, Handled, Kept, Steady, Sick, Dead, SameCore
<1>10. /\ Old(old)' = (IF old = w THEN NoWP ELSE Old(old)) /\ Handled(old)' = Handled(old)
       /\ Kept(old) \/ Freed(old)
       /\ wp'[old].m_State = "Running" => wp[old].m_State = "Running"
  <2>1. CASE wp[old].m_RefCount = 1
    <3>1. /\ wp[old].m_pMessagingHandler # "attached" /\ Dead(old) /\ Old(old) = NoWP
          /\ Unmentioned(old, {"Terminate", "TerminateTail"})
      BY <1>0, <1>2, <2>1, OnlyReplaced
    <3>2. wp'[old] = NoObject
      BY <1>4, <1>6, <1>7, <2>1, DereferencedEffect
    <3>3. old # w
      BY <3>1, PointerAssumption
    <3> QED
      BY <3>1, <3>2, <3>3 DEF Freed, NoObject, Old, Handled
  <2>2. CASE wp[old].m_RefCount # 1
    <3>1. /\ wp'[old].m_State = tbl[old].m_State
          /\ wp'[old].m_TerminalIllReason = tbl[old].m_TerminalIllReason
          /\ wp'[old].m_pWorkerProcessToReplace = tbl[old].m_pWorkerProcessToReplace
          /\ wp'[old].m_pMessagingHandler = tbl[old].m_pMessagingHandler
      BY <1>4, <1>6, <1>7, <2>2, DereferencedEffect
    <3>2. /\ wp'[old].m_State = wp[old].m_State
          /\ wp'[old].m_TerminalIllReason = wp[old].m_TerminalIllReason
          /\ wp'[old].m_pWorkerProcessToReplace
               = (IF old = w THEN NoWP ELSE wp[old].m_pWorkerProcessToReplace)
          /\ wp'[old].m_pMessagingHandler = wp[old].m_pMessagingHandler
      BY <1>5, <1>6, <3>1
    <3> QED
      BY <1>3, <3>2 DEF Old, Handled, Kept, Steady, Sick, Dead
  <2> QED
    BY <2>1, <2>2
<1>11. \A v \in WP : wp'[v].m_RefCount = wp[v].m_RefCount - (IF v = old THEN 1 ELSE 0)
  BY <1>7, <1>8, <1>9
<1> QED
  BY <1>9, <1>10, <1>11

LEMMA DropPredecessorCall ==
  ASSUME ObjectInv, DropPredecessor
  PROVE  ObjectInv'
<1>0. /\ MakeCall /\ stack # <<>> /\ UNCHANGED <<pool, list, queue>>
      /\ Head(stack).fn = "DropPredecessor" /\ Calling("DropPredecessor") /\ Return(<<>>)
  BY DEF MakeCall, WorkerProcessCall, DropPredecessor, Calling
<1>1. TypeOK /\ TypeOK' /\ QuietInvariant' /\ Head(stack) = stack[1] /\ ListInv /\ RefCountExact
  BY <1>0, First, NextType, NextQuiet DEF ObjectInv, QuietInvariant, Next
<1>2. PICK w \in WP : w = This
  BY <1>0, <1>1, CallingWP DEF WorkerProcessMethods
<1>3. \A v \in WP : /\ At(1, "DropPredecessor", v) => v = w
                    /\ ~At(1, "Shutdown", v) /\ ~At(1, "TerminateTail", v)
  BY <1>0, <1>1, <1>2 DEF At, This
<1>4. Old(w) \in WP \cup {NoWP}
  BY <1>1 DEF TypeOK, WorkerProcesses, Old
<1>5. CASE Old(w) = NoWP
  <2>1. wp' = wp
    BY <1>2, <1>5 DEF DropPredecessor, Old
  <2>2. HeadDone
    BY <1>3, <1>5, <2>1 DEF HeadDone, Old
  <2> QED
    BY <1>0, <2>1, <2>2, JustReturns
<1>6. CASE Old(w) \in WP
  <2>1. PICK old \in WP : Old(w) = old
    BY <1>6
  <2>2. /\ \A v \in WP : Old(v)' = IF v = w THEN NoWP ELSE Old(v)
        /\ \A v \in WP : Handled(v)' = Handled(v)
        /\ \A v \in WP : wp'[v].m_RefCount = wp[v].m_RefCount - (IF v = old THEN 1 ELSE 0)
        /\ \A v \in WP : Kept(v) \/ Freed(v)
        /\ \A v \in WP : wp'[v].m_State = "Running" => wp[v].m_State = "Running"
    BY <1>2, <2>1, DropPredecessorEffect
  <2> DEFINE frames == <<>>
  <2>3. frames \in Seq(Frames) /\ Len(frames) = 0 /\ Return(frames)
    BY <1>0
  <2> HIDE DEF frames
  <2>4. FramesInv' /\ ListInv' /\ Empties'
    <3>1. \A v \in WP : SameOld(v) /\ (Kept(v) \/ Freed(v))
      BY <2>2 DEF SameOld
    <3>2. \A v \in WP : /\ At(1, "DropPredecessor", v) => Old(v)' = NoWP
                        /\ At(1, "Shutdown", v) => wp'[v].m_State # "Running"
                        /\ ~At(1, "TerminateTail", v)
      BY <1>3, <2>2
    <3>3. 1 .. Len(frames) = {}
      BY <2>3
    <3> QED
      BY <1>0, <2>2, <2>3, <3>1, <3>2, <3>3, OrdinaryCall DEF ObjectInv
  <2>5. \A v \in WP : Replacements(v)' = IF v = old THEN Replacements(v) \ {w} ELSE Replacements(v)
    <3> TAKE v \in WP
    <3>1. \A u \in WP : Old(u)' = v <=> Old(u) = v /\ u # w
      BY <2>1, <2>2, PointerAssumption
    <3>2. Replacements(v)' = Replacements(v) \ {w}
      BY <3>1 DEF Replacements
    <3>3. v # old => w \notin Replacements(v)
      BY <2>1 DEF Replacements
    <3> QED
      BY <3>2, <3>3
  <2>6. RefCountExact'
    <3> SUFFICES ASSUME NEW v \in WP
                 PROVE  wp'[v].m_RefCount = References(v)'
      BY DEF RefCountExact
    <3>1. IsFiniteSet(Replacements(v)) /\ Cardinality(Replacements(v)) \in Nat
      BY <1>1, ReplacementsFinite
    <3>2. Cardinality(Replacements(v)') = Cardinality(Replacements(v)) - (IF v = old THEN 1 ELSE 0)
      <4>1. CASE v = old
        <5>1. w \in Replacements(v)
          BY <2>1, <4>1 DEF Replacements
        <5>2. Cardinality(Replacements(v) \ {w}) = Cardinality(Replacements(v)) - 1
          BY <3>1, <5>1, FS_RemoveElement
        <5> QED
          BY <2>5, <4>1, <5>2
      <4>2. CASE v # old
        BY <2>5, <3>1, <4>2
      <4> QED
        BY <4>1, <4>2
    <3>0. \A i \in 1 .. Len(frames) : frames[i].fn # "Dereference"
      BY <2>3
    <3>3. Count(frames, {Call("Dereference", v)}) = 0
      BY <2>3, <3>0, CountNone
    <3>4. Head(stack) # Call("Dereference", v)
      BY <1>0 DEF Call
    <3>5. Listed(v)' = Listed(v) /\ Listed(v) \in Int /\ Handled(v) \in Int
          /\ wp[v].m_RefCount \in Int
      BY <1>0, <1>1 DEF Listed, InList, Handled, TypeOK, WorkerProcesses
    <3>6. PICK s, l, h, c, x \in Int :
            /\ s = wp[v].m_RefCount /\ l = Listed(v) /\ h = Handled(v)
            /\ c = Cardinality(Replacements(v)) /\ x = IF v = old THEN 1 ELSE 0
      <4>1. (IF v = old THEN 1 ELSE 0) \in Int /\ Cardinality(Replacements(v)) \in Int
        BY <3>1
      <4> QED
        BY <3>5, <4>1, Zenon
    <3>7. (s - x) + l + h + c + 0 = s + l + h + (c - x) + 0
      OBVIOUS
    <3>8. wp'[v].m_RefCount = s - x /\ Handled(v)' = h /\ Listed(v)' = l
          /\ Cardinality(Replacements(v)') = c - x
          /\ (IF Head(stack) = Call("Dereference", v) THEN 1 ELSE 0) = 0
      BY <2>2, <3>2, <3>4, <3>5, <3>6, Zenon
    <3>9. wp'[v].m_RefCount + Listed(v) + Handled(v) + Cardinality(Replacements(v))
             + (IF Head(stack) = Call("Dereference", v) THEN 1 ELSE 0)
           = wp[v].m_RefCount + Listed(v)' + Handled(v)' + Cardinality(Replacements(v)')
             + Count(frames, {Call("Dereference", v)})
      BY <3>3, <3>6, <3>7, <3>8, Zenon
    <3> QED
      BY <1>0, <1>1, <2>3, <2>4, <3>9, ExactCall
  <2> QED
    BY <1>1, <2>4, <2>6 DEF ObjectInv
<1> QED
  BY <1>4, <1>5, <1>6

-----------------------------------------------------------------------------
(***************************************************************************)
(* Terminate and its last calls.                                           *)
(***************************************************************************)
LEMMA TerminatedEffect ==
  ASSUME NEW r \in WorkerProcesses
  PROVE  LET s == Terminated(r) IN
         /\ s.m_State = "DeletePending"
         /\ s.m_TerminalIllReason = r.m_TerminalIllReason
         /\ s.m_pWorkerProcessToReplace = r.m_pWorkerProcessToReplace
         /\ s.m_pMessagingHandler = "NULL"
         /\ s.m_RefCount = r.m_RefCount - (IF r.m_pMessagingHandler = "attached" THEN 1 ELSE 0)
<1>1. r.m_RefCount \in Int
  BY DEF WorkerProcesses
<1> QED
  BY <1>1 DEF Terminated, WorkerProcesses

\* The process to replace is released first, if there is one.
LEMMA ReleaseShape ==
  ASSUME TypeOK, NEW w \in WP, NEW last \in Frames
  PROVE  LET frames == ReleasePredecessor(w) \o <<last>> IN
         /\ frames \in Seq(Frames)
         /\ Old(w) = NoWP => Len(frames) = 1 /\ frames[1] = last
         /\ Old(w) # NoWP =>
              /\ Len(frames) = 3 /\ frames[1] = Call("Shutdown", Old(w))
              /\ frames[2] = Call("DropPredecessor", w) /\ frames[3] = last
<1>1. Old(w) \in WP \cup {NoWP} /\ Old(w) = wp[w].m_pWorkerProcessToReplace
  BY DEF TypeOK, WorkerProcesses, Old
<1>2. CASE Old(w) = NoWP
  <2>1. ReleasePredecessor(w) = <<>>
    BY <1>1, <1>2 DEF ReleasePredecessor
  <2> QED
    BY <1>2, <2>1
<1>3. CASE Old(w) # NoWP
  <2> DEFINE f == Call("Shutdown", Old(w))
             g == Call("DropPredecessor", w)
  <2>1. ReleasePredecessor(w) = <<f, g>>
    BY <1>1, <1>3 DEF ReleasePredecessor
  <2>2. f \in Frames /\ g \in Frames
    BY <1>1, <1>3, WorkerFrame DEF WorkerProcessMethods
  <2> HIDE DEF f, g
  <2>3. <<f, g>> \in Seq(Frames) /\ <<last>> \in Seq(Frames)
    BY <2>2
  <2>4. /\ <<f, g>> \o <<last>> \in Seq(Frames) /\ Len(<<f, g>> \o <<last>>) = 3
        /\ (<<f, g>> \o <<last>>)[1] = f /\ (<<f, g>> \o <<last>>)[2] = g
        /\ (<<f, g>> \o <<last>>)[3] = last
    BY <2>2, <2>3
  <2> QED
    BY <1>3, <2>1, <2>4 DEF f, g
<1> QED
  BY <1>2, <1>3

\* The object that Terminate is called on, unless it has been terminated meanwhile.
LEMMA TerminateBegins ==
  ASSUME ObjectInv, Terminate, NEW w \in WP, w = This, wp[w].m_State # "DeletePending"
  PROVE  /\ MakeCall /\ stack # <<>> /\ UNCHANGED <<pool, list, queue>>
         /\ Head(stack).fn = "Terminate" /\ Head(stack).w = w /\ Head(stack) = stack[1]
         /\ TypeOK /\ TypeOK' /\ ~Dead(w) /\ InList(w)
         /\ Unmentioned(w, {"Terminate", "TerminateTail"})
         /\ \A v \in WP : v # w => wp'[v] = wp[v]
         /\ wp'[w].m_State = "DeletePending" /\ Old(w)' = Old(w) /\ (Sick(w)' <=> Sick(w))
         /\ Handled(w)' = 0 /\ wp'[w].m_RefCount = wp[w].m_RefCount - Handled(w)
<1>0. /\ MakeCall /\ stack # <<>> /\ UNCHANGED <<pool, list, queue>>
      /\ Head(stack).fn = "Terminate" /\ Head(stack).w = w
      /\ wp' = [wp EXCEPT ![w] = Terminated(wp[w])]
  BY DEF MakeCall, WorkerProcessCall, Terminate, Calling, This
<1>1. TypeOK /\ TypeOK' /\ Head(stack) = stack[1] /\ FrameInv(1) /\ 1 \in 1 .. Len(stack)
      /\ Len(stack) \in Nat
  BY <1>0, First, NextType DEF Next
<1>2. ~Dead(w) /\ \A j \in 1 .. Len(stack) : At(j, "Terminate", w) => j = 1
  BY <1>0, <1>1 DEF FrameInv, Founded, Dead, KeptBelow
<1>3. InList(w)
  BY <1>2 DEF ObjectInv, ListInv, Membership
<1>4. Unmentioned(w, {"Terminate", "TerminateTail"})
  <2> SUFFICES ASSUME NEW i \in 2 .. Len(stack), stack[i].w = w,
                      stack[i].fn \in {"Terminate", "TerminateTail"}
               PROVE  FALSE
    BY DEF Unmentioned
  <2>1. i \in 1 .. Len(stack) /\ i # 1
    BY <1>1
  <2>2. stack[i].fn = "TerminateTail"
    BY <1>2, <2>1 DEF At
  <2>3. FrameInv(i)
    BY <2>1 DEF ObjectInv, FramesInv
  <2> QED
    BY <1>2, <2>2, <2>3 DEF FrameInv, Founded, Dead
<1>5. /\ wp[w] \in WorkerProcesses /\ wp'[w] = Terminated(wp[w])
      /\ \A v \in WP : v # w => wp'[v] = wp[v]
  BY <1>0, <1>1 DEF TypeOK
<1>6. /\ wp'[w].m_State = "DeletePending" /\ Old(w)' = Old(w) /\ (Sick(w)' <=> Sick(w))
      /\ Handled(w)' = 0
      /\ wp'[w].m_RefCount = wp[w].m_RefCount - Handled(w)
  BY <1>5, TerminatedEffect DEF Old, Sick, Handled
<1> QED
  BY <1>0, <1>1, <1>2, <1>3, <1>4, <1>5, <1>6

\* The calls that Terminate makes.
LEMMA TerminateFrames ==
  ASSUME ObjectInv, Terminate, NEW w \in WP, w = This, wp[w].m_State # "DeletePending",
         NEW frames \in Seq(Frames), Return(frames),
         Old(w) = NoWP => Len(frames) = 1 /\ frames[1] = Call("TerminateTail", w),
         Old(w) # NoWP =>
           /\ Len(frames) = 3 /\ frames[1] = Call("Shutdown", Old(w))
           /\ frames[2] = Call("DropPredecessor", w)
           /\ frames[3] = Call("TerminateTail", w)
  PROVE  \A i \in 1 .. Len(frames) : FrameInv(i)'
<1>0. /\ MakeCall /\ stack # <<>>
      /\ Head(stack).fn = "Terminate" /\ Head(stack).w = w /\ Head(stack) = stack[1]
      /\ TypeOK /\ Unmentioned(w, {"Terminate", "TerminateTail"})
      /\ \A v \in WP : v # w => wp'[v] = wp[v]
      /\ wp'[w].m_State = "DeletePending" /\ Old(w)' = Old(w)
  BY TerminateBegins
<1> DEFINE n == Len(frames)
<1>1. /\ n \in Nat /\ Len(stack) \in Nat \ {0}
      /\ Len(stack') = n + Len(stack) - 1
      /\ \A i \in 1 .. n : stack'[i] = frames[i]
      /\ \A i \in n + 1 .. Len(stack') :
           stack'[i] = stack[i - n + 1] /\ i - n + 1 \in 2 .. Len(stack)
  BY <1>0, Pushed
<1>7. /\ Old(w) = NoWP => n = 1 /\ frames[1].fn = "TerminateTail" /\ frames[1].w = w
      /\ Old(w) # NoWP =>
           /\ n = 3 /\ frames[1].fn = "Shutdown" /\ frames[1].w = Old(w)
           /\ frames[2].fn = "DropPredecessor" /\ frames[2].w = w
           /\ frames[3].fn = "TerminateTail" /\ frames[3].w = w
  BY DEF Call
<1> HIDE DEF n
<1>3. /\ n = 1 \/ n = 3
      /\ frames[n].fn = "TerminateTail" /\ frames[n].w = w
      /\ \A i \in 1 .. n : i # n => frames[i].fn \in {"Shutdown", "DropPredecessor"}
  <2>1. CASE Old(w) = NoWP
    <3>1. n = 1 /\ \A i \in 1 .. 1 : i = 1
      BY <1>7, <2>1
    <3> QED
      BY <1>7, <2>1, <3>1
  <2>2. CASE Old(w) # NoWP
    <3>1. n = 3 /\ \A i \in 1 .. 3 : i = 1 \/ i = 2 \/ i = 3
      BY <1>7, <2>2
    <3> QED
      BY <1>7, <2>2, <3>1
  <2> QED
    BY <2>1, <2>2
<1>4. \A i \in 1 .. n : frames[i].fn # "ReplaceAll"
  BY <1>3
<1>5. FrameInv(n)'
  <2>0. n \in 1 .. n /\ n \in 1 .. Len(stack') /\ stack'[n] = frames[n]
    BY <1>1, <1>3
  <2>1. Replacing' => Spares(n, Bottom.w)'
    BY <1>0, <1>3, <1>4, <2>0, StillSpares DEF Danger, n
  <2>2. \A j \in 1 .. Len(stack') : At(j, "TerminateTail", w)' => j = n
    <3> SUFFICES ASSUME NEW j \in 1 .. Len(stack'), At(j, "TerminateTail", w)', j # n
                 PROVE  FALSE
      OBVIOUS
    <3>1. ~(j < n)
      <4>1. ASSUME j < n PROVE FALSE
        <5>1. j \in 1 .. n /\ stack'[j] = frames[j]
          BY <1>1, <4>1
        <5> QED
          BY <1>3, <5>1 DEF At
      <4> QED
        BY <4>1
    <3>2. j \in n + 1 .. Len(stack')
      BY <1>1, <3>1
    <3>3. PICK k \in 2 .. Len(stack) : stack'[j] = stack[k]
      BY <1>1, <3>2
    <3> QED
      BY <1>0, <3>3 DEF At, Unmentioned
  <2>3. Old(w)' # NoWP => n > 1 /\ At(n - 1, "DropPredecessor", w)'
    <3>1. ASSUME Old(w) # NoWP PROVE n = 3 /\ 2 \in 1 .. n /\ frames[2].fn = "DropPredecessor"
                                      /\ frames[2].w = w
      BY <1>7, <3>1
    <3>2. ASSUME Old(w) # NoWP PROVE n - 1 = 2 /\ stack'[2] = frames[2] /\ n > 1
      BY <1>1, <3>1, <3>2
    <3> QED
      BY <1>0, <3>1, <3>2 DEF At
  <2> QED
    BY <1>0, <1>3, <2>0, <2>1, <2>2, <2>3 DEF FrameInv, Placed, Founded, Ordered
<1>6. ASSUME NEW i \in 1 .. n, i # n
      PROVE  FrameInv(i)'
  <2>0. Old(w) # NoWP /\ Old(w) \in WP /\ (i = 1 \/ i = 2)
    <3>1. Old(w) # NoWP
      <4>1. \A j \in 1 .. 1 : j = 1
        OBVIOUS
      <4> QED
        BY <1>6, <1>7, <4>1
    <3>2. Old(w) \in WP \cup {NoWP}
      BY <1>0 DEF TypeOK, WorkerProcesses, Old
    <3>3. \A j \in 1 .. 3 : j = 1 \/ j = 2 \/ j = 3
      OBVIOUS
    <3> QED
      BY <1>6, <1>7, <3>1, <3>2, <3>3
  <2>1. stack'[i] = frames[i]
    BY <1>1
  <2>2. CASE i = 2
    <3>1. stack'[i].fn = "DropPredecessor"
      BY <1>7, <2>0, <2>1, <2>2
    <3> QED
      BY <3>1, Harmless
  <2>3. CASE i = 1
    <3>0. stack'[1].fn = "Shutdown" /\ stack'[1].w = Old(w)
      BY <1>7, <2>0, <2>1, <2>3
    <3>1. ASSUME Replacing' PROVE Spares(1, Bottom.w)'
      <4>1. Replacing /\ Bottom' = Bottom
        BY <1>0, <1>4, <3>1, BottomStays DEF n
      <4>2. Spares(1, Bottom.w)
        BY <1>0, <4>1, First DEF FrameInv, Ordered, Danger
      <4>3. Old(w) # Bottom.w
        BY <1>0, <4>2 DEF Spares
      <4>4. Bottom.w # NoWP
        BY <4>1, PointerAssumption DEF Replacing
      <4>5. ASSUME wp'[Old(w)].m_State = "Running" PROVE Old(Old(w)) = NoWP /\ Old(w) # w
        <5>1. Old(w) # w
          BY <1>0, <4>5
        <5>2. wp[Old(w)].m_State = "Running"
          BY <1>0, <2>0, <4>5, <5>1
        <5>3. ASSUME Old(Old(w)) # NoWP PROVE FALSE
          <6>1. At(Len(stack), "StartupTail", Old(w)) \/ At(1, "Shutdown", Old(w))
            BY <2>0, <5>2, <5>3 DEF ObjectInv, ListInv, Starting
          <6> QED
            BY <1>0, <4>1, <6>1 DEF At, Replacing, Bottom
        <5> QED
          BY <5>1, <5>3
      <4>6. ASSUME wp'[Old(w)].m_State = "Running" 
            PROVE wp'[Old(w)].m_pWorkerProcessToReplace # Bottom.w
        <5>1. Old(Old(w)) = NoWP /\ Old(w) # w
          BY <4>5, <4>6
        <5>2. wp'[Old(w)] = wp[Old(w)]
          BY <1>0, <2>0, <5>1
        <5>3. wp'[Old(w)].m_pWorkerProcessToReplace = NoWP
          BY <5>1, <5>2 DEF Old
        <5> QED
          BY <4>4, <5>3
      <4> QED
        BY <3>0, <4>1, <4>3, <4>6 DEF Spares, Old
    <3> QED
      BY <2>3, <3>0, <3>1, SparingFrame
  <2> QED
    BY <2>0, <2>2, <2>3
<1> QED
  BY <1>5, <1>6 DEF n

LEMMA TerminateCall ==
  ASSUME ObjectInv, Terminate
  PROVE  ObjectInv'
<1>0. stack # <<>> /\ MakeCall /\ Calling("Terminate") /\ UNCHANGED <<pool, list, queue>>
  BY DEF MakeCall, WorkerProcessCall, Terminate, Calling
<1>1. TypeOK /\ HeadDone /\ ListInv /\ RefCountExact /\ Head(stack).fn = "Terminate"
  BY <1>0, First, OtherHead DEF Calling, ObjectInv
<1>2. PICK w \in WP : w = This
  BY <1>0, <1>1, CallingWP DEF WorkerProcessMethods
<1>3. CASE wp[w].m_State = "DeletePending"
  <2>1. Return(<<>>) /\ wp' = wp
    BY <1>2, <1>3 DEF Terminate
  <2> QED
    BY <1>0, <1>1, <2>1, JustReturns
<1>4. CASE wp[w].m_State # "DeletePending"
  <2>1. /\ Head(stack).w = w /\ Head(stack) = stack[1]
        /\ TypeOK' /\ ~Dead(w) /\ InList(w)
        /\ Unmentioned(w, {"Terminate", "TerminateTail"})
        /\ \A v \in WP : v # w => wp'[v] = wp[v]
        /\ wp'[w].m_State = "DeletePending" /\ Old(w)' = Old(w) /\ (Sick(w)' <=> Sick(w))
        /\ Handled(w)' = 0 /\ wp'[w].m_RefCount = wp[w].m_RefCount - Handled(w)
    BY <1>2, <1>4, TerminateBegins
  <2> DEFINE t == Call("TerminateTail", w)
             frames == ReleasePredecessor(w) \o <<t>>
  <2>2. Return(frames)
    BY <1>2, <1>4 DEF Terminate
  <2>3. t \in Frames
    BY WorkerFrame DEF WorkerProcessMethods
  <2>4. /\ frames \in Seq(Frames)
        /\ Old(w) = NoWP => Len(frames) = 1 /\ frames[1] = t
        /\ Old(w) # NoWP =>
             /\ Len(frames) = 3 /\ frames[1] = Call("Shutdown", Old(w))
             /\ frames[2] = Call("DropPredecessor", w) /\ frames[3] = t
    BY <1>1, <2>3, ReleaseShape
  <2> HIDE DEF frames
  <2>5. \A i \in 1 .. Len(frames) : FrameInv(i)'
    BY <1>2, <1>4, <2>2, <2>4, TerminateFrames
  <2>6. /\ \A i \in 1 .. Len(frames) :
             /\ frames[i].fn \in {"Shutdown", "DropPredecessor", "TerminateTail"}
             /\ frames[i].fn = "TerminateTail" => frames[i].w = w
        /\ \E i \in 1 .. Len(frames) : frames[i] = t
    <3>1. t.fn = "TerminateTail" /\ t.w = w /\ Call("Shutdown", Old(w)).fn = "Shutdown"
          /\ Call("DropPredecessor", w).fn = "DropPredecessor"
      BY DEF Call
    <3> HIDE DEF t
    <3>2. CASE Old(w) = NoWP
      <4>1. \A i \in 1 .. 1 : i = 1
        OBVIOUS
      <4>3. Len(frames) = 1 /\ frames[1] = t
        BY <2>4, <3>2
      <4>2. 1 \in 1 .. Len(frames) /\ \A i \in 1 .. Len(frames) : frames[i] = t
        BY <4>1, <4>3
      <4> QED
        BY <3>1, <4>2
    <3>3. CASE Old(w) # NoWP
      <4>1. \A i \in 1 .. 3 : i = 1 \/ i = 2 \/ i = 3
        OBVIOUS
      <4>2. 3 \in 1 .. Len(frames) /\ frames[3] = t
        BY <2>4, <3>3
      <4> QED
        BY <2>4, <3>1, <3>3, <4>1, <4>2
    <3> QED
      BY <3>2, <3>3
  <2>7. Covered => Covered'
    BY <1>0, <1>1, CoveredStays
  <2>8. \A v \in WP : ~At(1, "DropPredecessor", v) /\ ~At(1, "Shutdown", v)
                        /\ ~At(1, "TerminateTail", v)
    BY <1>1, <2>1 DEF At
  <2>9. \A v \in WP : /\ Old(v)' = Old(v) /\ (v # w => Steady(v))
                      /\ wp'[v].m_State = "Running" => wp[v].m_State = "Running"
    BY <2>1 DEF Old, Steady, Sick, Dead
  <2>10. FramesInv'
    <3>1. \A v \in WP : SameOld(v) /\ (Steady(v) \/ Unmentioned(v, {"Terminate", "TerminateTail"}))
      BY <2>1, <2>9 DEF SameOld
    <3> QED
      BY <1>0, <1>1, <2>2, <2>4, <2>5, <2>7, <2>8, <2>9, <3>1, OldFrames DEF ObjectInv
  <2>11. Membership'
    <3> SUFFICES ASSUME NEW v \in WP
                 PROVE  InList(v)' <=> (~Dead(v)' \/ Terminating(v)')
      BY DEF Membership
    <3>0. InList(v)' <=> InList(v)
      BY <1>0 DEF InList
    <3>1. CASE v # w
      <4>1. Terminating(v)' <=> Terminating(v)
        BY <1>0, <1>1, <2>2, <2>4, <2>6, <2>8, <3>1, TerminatingKept
      <4>2. Dead(v)' <=> Dead(v)
        BY <2>1, <3>1 DEF Dead
      <4> QED
        BY <1>1, <3>0, <4>1, <4>2 DEF ListInv, Membership
    <3>2. CASE v = w
      <4>1. PICK i \in 1 .. Len(frames) : frames[i] = t
        BY <2>6
      <4>2. /\ Len(frames) \in Nat /\ Len(stack) \in Nat \ {0}
            /\ Len(stack') = Len(frames) + Len(stack) - 1
            /\ \A j \in 1 .. Len(frames) : stack'[j] = frames[j]
        BY <1>0, <1>1, <2>2, <2>4, Pushed
      <4>3. i \in 1 .. Len(stack') /\ stack'[i] = t
        BY <4>1, <4>2
      <4>4. At(i, "TerminateTail", w)'
        BY <4>3 DEF At, Call
      <4>5. Terminating(w)'
        BY <4>3, <4>4 DEF Terminating
      <4> QED
        BY <2>1, <3>0, <3>2, <4>5
    <3> QED
      BY <3>1, <3>2
  <2>12. Starting'
    <3>1. \A v \in WP : wp'[v].m_State = "Running" => wp[v].m_State = "Running" /\ SameOld(v)
      BY <2>9 DEF SameOld
    <3> QED
      BY <1>0, <1>1, <2>2, <2>4, <2>8, <3>1, StartingKept DEF ObjectInv
  <2>13. WalkListed' /\ WalkCovered'
    <3>1. Replacing /\ Len(stack) > 1 => Bottom.w \in ToSet(list')
      BY <1>0, <1>1 DEF ListInv, WalkListed, InList
    <3>2. \A i \in 1 .. Len(frames) : frames[i].fn \notin {"ShutdownAll", "ReplaceAll"}
      BY <2>6
    <3> QED
      BY <1>0, <1>1, <2>2, <2>4, <2>7, <3>1, <3>2, WalksKept
  <2>14. Distinct' /\ Successors'
    BY <1>0, <1>1, <2>9 DEF ListInv, Distinct, Successors, InList
  <2>15. Empties'
    <3>1. \A v \in WP : wp'[v].m_State = "Free" => v # w /\ wp'[v] = wp[v]
      BY <2>1
    <3> QED
      BY <3>1 DEF ObjectInv, Empties, Old, Sick
  <2>16. ListInv'
    BY <2>11, <2>12, <2>13, <2>14 DEF ListInv
  <2>17. RefCountExact'
    <3> SUFFICES ASSUME NEW v \in WP
                 PROVE  wp'[v].m_RefCount = References(v)'
      BY DEF RefCountExact
    <3>1. Listed(v)' = Listed(v) /\ Replacements(v)' = Replacements(v)
      BY <1>0, <2>9 DEF Listed, InList, Replacements
    <3>2. wp'[v].m_RefCount = wp[v].m_RefCount + (Handled(v)' - Handled(v))
          /\ wp[v].m_RefCount \in Int /\ Handled(v)' \in Int /\ Handled(v) \in Int
      <4>1. wp[v].m_RefCount \in Int /\ Handled(v)' \in Int /\ Handled(v) \in Int
        BY <1>1 DEF TypeOK, WorkerProcesses, Handled
      <4>2. CASE v = w
        BY <2>1, <4>1, <4>2
      <4>3. CASE v # w
        <5>1. wp'[v] = wp[v] /\ Handled(v)' = Handled(v)
          BY <2>1, <4>3 DEF Handled
        <5> QED
          BY <4>1, <5>1
      <4> QED
        BY <4>1, <4>2, <4>3
    <3>3. Count(frames, {Call("Dereference", v)}) = 0
      BY <2>4, <2>6, CountNone
    <3>4. Head(stack) # Call("Dereference", v)
      BY <1>1 DEF Call
    <3>5. Listed(v) \in Int /\ Cardinality(Replacements(v)) \in Int
      BY <1>1, ReplacementsFinite DEF Listed
    <3>6. PICK r, s, l, h, c, h1 \in Int :
            /\ r = wp'[v].m_RefCount /\ s = wp[v].m_RefCount /\ l = Listed(v) /\ h = Handled(v)
            /\ c = Cardinality(Replacements(v)) /\ h1 = Handled(v)'
      <4>1. wp'[v].m_RefCount \in Int
        BY <2>1 DEF TypeOK, WorkerProcesses
      <4> QED
        BY <3>2, <3>5, <4>1, Zenon
    <3>7. r = s + (h1 - h)
      BY <3>2, <3>6, Zenon
    <3>8. r + l + h + c + 0 = s + l + h1 + c + 0
      BY <3>7
    <3>9. (IF Head(stack) = Call("Dereference", v) THEN 1 ELSE 0) = 0
          /\ Cardinality(Replacements(v)') = c /\ Listed(v)' = l
      BY <3>1, <3>4, <3>6
    <3>10. wp'[v].m_RefCount + Listed(v) + Handled(v) + Cardinality(Replacements(v))
             + (IF Head(stack) = Call("Dereference", v) THEN 1 ELSE 0)
           = wp[v].m_RefCount + Listed(v)' + Handled(v)' + Cardinality(Replacements(v)')
             + Count(frames, {Call("Dereference", v)})
      BY <3>3, <3>6, <3>8, <3>9, Zenon
    <3> QED
      BY <1>0, <1>1, <2>1, <2>2, <2>4, <2>16, <3>10, ExactCall
  <2>18. QuietInvariant'
    BY <1>0, NextQuiet DEF ObjectInv, Next
  <2> QED
    BY <2>10, <2>15, <2>16, <2>17, <2>18 DEF ObjectInv
<1> QED
  BY <1>3, <1>4

\* RemoveWorkerProcessFromList takes out the one entry of the object.
LEMMA UnlinkedEntries ==
  ASSUME ObjectInv, NEW w \in WP, InList(w)
  PROVE  /\ \A v \in WP : v \in ToSet(Unlinked(w)) <=> InList(v) /\ v # w
         /\ \A i, j \in 1 .. Len(Unlinked(w)) : Unlinked(w)[i] = Unlinked(w)[j] => i = j
<1>1. list \in Seq(WP) /\ Len(list) \in Nat /\ Distinct
  BY DEF ObjectInv, QuietInvariant, TypeOK, ListInv
<1>2. PICK p : p = Position(w)
  OBVIOUS
<1>3. p \in 1 .. Len(list) /\ list[p] = w
  <2>1. \E i \in DOMAIN list : list[i] = w
    BY <1>1 DEF InList, ToSet
  <2> QED
    BY <1>1, <1>2, <2>1 DEF Position
<1> DEFINE a == SubSeq(list, 1, p - 1)
           b == SubSeq(list, p + 1, Len(list))
           l == a \o b
<1>4. Unlinked(w) = l
  BY <1>2 DEF Unlinked, RemoveAt
<1>5. /\ a \in Seq(WP) /\ Len(a) = p - 1 /\ \A i \in 1 .. p - 1 : a[i] = list[i]
      /\ b \in Seq(WP) /\ Len(b) = Len(list) - p
      /\ \A i \in 1 .. Len(list) - p : b[i] = list[p + i]
  BY <1>1, <1>3
<1> HIDE DEF a, b
<1>6. /\ Len(l) = Len(list) - 1 /\ l \in Seq(WP)
      /\ \A i \in 1 .. Len(l) : l[i] = IF i < p THEN list[i] ELSE list[i + 1]
  <2>1. Len(l) = Len(list) - 1 /\ l \in Seq(WP)
    <3>1. l \in Seq(WP) /\ Len(l) = Len(a) + Len(b)
      BY <1>5
    <3>2. p \in Int
      BY <1>1, <1>3
    <3>3. (p - 1) + (Len(list) - p) = Len(list) - 1
      BY <1>1, <3>2
    <3> QED
      BY <1>5, <3>1, <3>3
  <2>2. ASSUME NEW i \in 1 .. Len(l), i < p PROVE l[i] = list[i]
    BY <1>1, <1>3, <1>5, <2>1, <2>2
  <2>3. ASSUME NEW i \in 1 .. Len(l), ~(i < p) PROVE l[i] = list[i + 1]
    <3>1. i - (p - 1) \in 1 .. Len(b) /\ i = Len(a) + (i - (p - 1))
      BY <1>1, <1>3, <1>5, <2>1, <2>3
    <3>2. l[i] = b[i - (p - 1)]
      BY <1>1, <1>3, <1>5, <2>1, <2>3, <3>1
    <3>3. p + (i - (p - 1)) = i + 1
      BY <1>1, <1>3, <2>1
    <3> QED
      BY <1>5, <3>1, <3>2, <3>3
  <2> QED
    BY <2>1, <2>2, <2>3
<1> HIDE DEF l
<1>7. ASSUME NEW v \in WP, v \in ToSet(l) PROVE InList(v) /\ v # w
  <2>1. PICK i \in 1 .. Len(l) : l[i] = v
    BY <1>6, <1>7 DEF ToSet
  <2>2. PICK j \in 1 .. Len(list) : j # p /\ list[j] = v
    <3>1. CASE i < p
      BY <1>1, <1>3, <1>6, <2>1, <3>1
    <3>2. CASE ~(i < p)
      <4>1. i + 1 \in 1 .. Len(list) /\ i + 1 # p /\ list[i + 1] = v
        BY <1>1, <1>3, <1>6, <2>1, <3>2
      <4> QED
        BY <4>1
    <3> QED
      BY <3>1, <3>2
  <2> QED
    BY <1>1, <1>3, <2>2 DEF Distinct, InList, ToSet
<1>8. ASSUME NEW v \in WP, InList(v), v # w PROVE v \in ToSet(l)
  <2>1. PICK j \in 1 .. Len(list) : list[j] = v
    BY <1>1, <1>8 DEF InList, ToSet
  <2>2. \E i \in 1 .. Len(l) : l[i] = v
    <3>1. CASE j < p
      BY <1>1, <1>3, <1>6, <2>1, <3>1
    <3>2. CASE j > p
      <4>1. j - 1 \in 1 .. Len(l) /\ ~(j - 1 < p) /\ (j - 1) + 1 = j
        BY <1>1, <1>3, <1>6, <2>1, <3>2
      <4>2. l[j - 1] = v
        BY <1>6, <2>1, <4>1
      <4> QED
        BY <4>1, <4>2
    <3> QED
      BY <1>1, <1>3, <1>8, <2>1, <3>1, <3>2
  <2> QED
    BY <1>6, <2>2 DEF ToSet
<1>9. ASSUME NEW i \in 1 .. Len(l), NEW j \in 1 .. Len(l), l[i] = l[j] PROVE i = j
  <2>1. PICK x \in 1 .. Len(list) : x = (IF i < p THEN i ELSE i + 1) /\ l[i] = list[x]
    BY <1>1, <1>3, <1>6
  <2>2. PICK y \in 1 .. Len(list) : y = (IF j < p THEN j ELSE j + 1) /\ l[j] = list[y]
    BY <1>1, <1>3, <1>6
  <2>3. x = y
    BY <1>1, <1>9, <2>1, <2>2 DEF Distinct
  <2> QED
    BY <1>1, <1>3, <2>1, <2>2, <2>3
<1> QED
  BY <1>4, <1>7, <1>8, <1>9

\* The last calls of Terminate take the object out of the list.
LEMMA TerminateTailEffect ==
  ASSUME ObjectInv, TerminateTail, NEW w \in WP, w = This
  PROVE  /\ MakeCall /\ stack # <<>> /\ queue' = queue /\ list' = Unlinked(w)
         /\ Head(stack).fn = "TerminateTail" /\ Head(stack).w = w /\ Head(stack) = stack[1]
         /\ TypeOK /\ TypeOK' /\ InList(w) /\ Old(w) = NoWP /\ Dead(w)
         /\ Unmentioned(w, {"TerminateTail"})
         /\ \A v \in WP : v # w => wp'[v] = wp[v]
         /\ Dead(w)' /\ Old(w)' = NoWP /\ Handled(w) = 0 /\ Handled(w)' = 0
         /\ wp'[w].m_RefCount = wp[w].m_RefCount - 1
         /\ Steady(w) \/ Unmentioned(w, {"Terminate", "TerminateTail"})
         /\ wp'[w].m_State = "Free" => wp'[w].m_RefCount = 0 /\ ~Sick(w)'
         /\ Return(ShutdownNowCompleted(list'))
<1>0. /\ MakeCall /\ stack # <<>> /\ queue' = queue /\ list' = Unlinked(w)
      /\ Head(stack).fn = "TerminateTail" /\ Head(stack).w = w
      /\ wp' = Dereferenced([wp EXCEPT ![w].m_NotifiedAppPool = TRUE], w)
      /\ Return(ShutdownNowCompleted(list'))
  BY DEF MakeCall, WorkerProcessCall, TerminateTail, Calling, This
<1>1. TypeOK /\ TypeOK' /\ Head(stack) = stack[1] /\ FrameInv(1) /\ 1 \in 1 .. Len(stack)
      /\ Len(stack) \in Nat /\ wp \in [WP -> WorkerProcesses] /\ wp[w] \in WorkerProcesses
  BY <1>0, First, NextType DEF Next, TypeOK
<1>2. /\ wp[w].m_State = "DeletePending"
      /\ \A j \in 1 .. Len(stack) : At(j, "TerminateTail", w) => j = 1
  BY <1>0, <1>1 DEF FrameInv, Founded
<1>3. Old(w) = NoWP
  BY <1>0, <1>1 DEF FrameInv, Ordered
<1>4. InList(w)
  <2>1. Terminating(w)
    BY <1>0, <1>1 DEF Terminating, At
  <2> QED
    BY <2>1 DEF ObjectInv, ListInv, Membership
<1>5. Unmentioned(w, {"TerminateTail"})
  <2>1. \A i \in 2 .. Len(stack) : i \in 1 .. Len(stack) /\ i # 1
    BY <1>1
  <2> QED
    BY <1>2, <2>1 DEF Unmentioned, At
<1>6. wp[w].m_pMessagingHandler = "NULL"
  BY <1>2 DEF ObjectInv, QuietInvariant, AllQuiet, Quiet
<1> DEFINE r == [wp[w] EXCEPT !.m_NotifiedAppPool = TRUE]
           tbl == [wp EXCEPT ![w] = r]
<1>7. wp' = Dereferenced(tbl, w)
  BY <1>0
<1>8. /\ r.m_State = wp[w].m_State /\ r.m_RefCount = wp[w].m_RefCount
      /\ r.m_TerminalIllReason = wp[w].m_TerminalIllReason
      /\ r.m_pWorkerProcessToReplace = wp[w].m_pWorkerProcessToReplace
      /\ r.m_pMessagingHandler = wp[w].m_pMessagingHandler /\ r \in WorkerProcesses
  BY <1>1 DEF WorkerProcesses
<1> HIDE DEF r
<1>9. tbl \in [WP -> WorkerProcesses] /\ tbl[w] = r /\ \A v \in WP : v # w => tbl[v] = wp[v]
  BY <1>1, <1>8
<1> HIDE DEF tbl
<1>10. /\ \A v \in WP : v # w => wp'[v] = wp[v]
       /\ wp'[w].m_RefCount = wp[w].m_RefCount - 1
  BY <1>7, <1>8, <1>9, DereferencedEffect
<1>11. CASE wp[w].m_RefCount = 1
  <2>1. wp'[w] = NoObject
    BY <1>7, <1>8, <1>9, <1>11, DereferencedEffect
  <2>2. Held(w) = 0
    BY <1>4, <1>11, LastReference
  <2>3. Dead(w)
    BY <1>2 DEF Dead
  <2>4. Count(Tail(stack), {Call("Dereference", w)}) = 0
    <3>1. PICK frames \in Seq(Frames) : Return(frames)
      BY <1>0, <1>1, CallsReturn
    <3>2. Head(stack) # Call("Dereference", w)
      BY <1>0 DEF Call
    <3>3. /\ Count(Tail(stack), {Call("Dereference", w)}) \in Nat
          /\ Held(w) = Count(Tail(stack), {Call("Dereference", w)})
                         + (IF Head(stack) = Call("Dereference", w) THEN 1 ELSE 0)
      BY <1>0, <1>1, <3>1, HeldReturn
    <3> QED
      BY <2>2, <3>2, <3>3
  <2>5. Unmentioned(w, {"Terminate"})
    BY <1>0, <2>3, <2>4, Unheld
  <2>6. Unmentioned(w, {"Terminate", "TerminateTail"})
    BY <1>5, <2>5 DEF Unmentioned
  <2>7. /\ Dead(w)' /\ Old(w)' = NoWP /\ Handled(w) = 0 /\ Handled(w)' = 0
        /\ wp'[w].m_RefCount = 0 /\ ~Sick(w)'
    BY <1>6, <2>1 DEF Dead, Old, Handled, NoObject, Sick
  <2> QED
    BY <1>0, <1>1, <1>3, <1>4, <1>5, <1>10, <2>3, <2>6, <2>7
<1>12. CASE wp[w].m_RefCount # 1
  <2>1. /\ wp'[w].m_State = wp[w].m_State
        /\ wp'[w].m_TerminalIllReason = wp[w].m_TerminalIllReason
        /\ wp'[w].m_pWorkerProcessToReplace = wp[w].m_pWorkerProcessToReplace
        /\ wp'[w].m_pMessagingHandler = wp[w].m_pMessagingHandler
    BY <1>7, <1>8, <1>9, <1>12, DereferencedEffect
  <2>2. /\ Dead(w) /\ Dead(w)' /\ Old(w)' = NoWP /\ Handled(w) = 0 /\ Handled(w)' = 0
        /\ Steady(w) /\ wp'[w].m_State # "Free"
    BY <1>2, <1>3, <1>6, <2>1 DEF Dead, Old, Handled, Steady, Sick
  <2> QED
    BY <1>0, <1>1, <1>3, <1>4, <1>5, <1>10, <2>2
<1> QED
  BY <1>11, <1>12

LEMMA TerminateTailCall ==
  ASSUME ObjectInv, TerminateTail
  PROVE  ObjectInv'
<1>0. stack # <<>> /\ MakeCall /\ Calling("TerminateTail")
  BY DEF MakeCall, WorkerProcessCall, TerminateTail, Calling
<1>1. TypeOK /\ ListInv /\ RefCountExact
  BY <1>0, First DEF ObjectInv
<1>2. PICK w \in WP : w = This
  BY <1>0, <1>1, CallingWP DEF WorkerProcessMethods
<1>3. /\ queue' = queue /\ list' = Unlinked(w)
      /\ Head(stack).fn = "TerminateTail" /\ Head(stack).w = w /\ Head(stack) = stack[1]
      /\ TypeOK' /\ InList(w) /\ Old(w) = NoWP /\ Dead(w)
      /\ Unmentioned(w, {"TerminateTail"})
      /\ \A v \in WP : v # w => wp'[v] = wp[v]
      /\ Dead(w)' /\ Old(w)' = NoWP /\ Handled(w) = 0 /\ Handled(w)' = 0
      /\ wp'[w].m_RefCount = wp[w].m_RefCount - 1
      /\ Steady(w) \/ Unmentioned(w, {"Terminate", "TerminateTail"})
      /\ wp'[w].m_State = "Free" => wp'[w].m_RefCount = 0 /\ ~Sick(w)'
      /\ Return(ShutdownNowCompleted(list'))
  BY <1>2, TerminateTailEffect
<1>4. /\ \A v \in WP : InList(v)' <=> InList(v) /\ v # w
      /\ Distinct'
  <2>1. InList(w)
    BY <1>3
  <2>2. /\ \A v \in WP : v \in ToSet(Unlinked(w)) <=> InList(v) /\ v # w
        /\ \A i, j \in 1 .. Len(Unlinked(w)) : Unlinked(w)[i] = Unlinked(w)[j] => i = j
    BY <2>1, UnlinkedEntries
  <2>3. list' = Unlinked(w)
    BY <1>3
  <2>4. \A v \in WP : InList(v)' <=> InList(v) /\ v # w
    BY <2>2, <2>3 DEF InList
  <2>5. Distinct'
    BY <2>2, <2>3 DEF Distinct
  <2> QED
    BY <2>4, <2>5
<1> DEFINE frames == ShutdownNowCompleted(list')
           n == Len(frames)
<1>5. /\ frames \in Seq(Frames) /\ n \in {0, 1}
      /\ n = 1 => list' = <<>> /\ frames[1].fn = "PoolTerminate"
  <2> DEFINE f == Call("PoolTerminate", NoWP)
  <2>1. f \in Frames /\ f.fn = "PoolTerminate"
    BY PoolFrame DEF AppPoolMethods, Call
  <2>2. frames = <<>> \/ (frames = <<f>> /\ list' = <<>>)
    BY DEF ShutdownNowCompleted
  <2> HIDE DEF frames, f
  <2>3. CASE frames = <<>>
    BY <2>3
  <2>4. CASE frames = <<f>> /\ list' = <<>>
    BY <2>1, <2>4
  <2> QED
    BY <2>2, <2>3, <2>4
<1>6. Return(frames)
  BY <1>3
<1> HIDE DEF frames, n
<1>7. \A i \in 1 .. Len(frames) : i = 1 /\ n = 1
  <2>1. n = 0 \/ n = 1
    BY <1>5
  <2>2. CASE n = 0
    BY <2>2 DEF n
  <2>3. CASE n = 1
    BY <2>3 DEF n
  <2> QED
    BY <2>1, <2>2, <2>3
<1>8. \A i \in 1 .. Len(frames) : frames[i].fn = "PoolTerminate" /\ FrameInv(i)'
  <2> TAKE i \in 1 .. Len(frames)
  <2>1. i = 1 /\ n = 1 /\ frames[i].fn = "PoolTerminate" /\ list' = <<>>
    BY <1>5, <1>7
  <2>2. stack'[i] = frames[i]
    BY <1>0, <1>1, <1>5, <1>6, Pushed
  <2>3. FrameInv(i)'
    BY <2>1, <2>2 DEF FrameInv, Placed, Founded, Ordered, Danger
  <2> QED
    BY <2>1, <2>3
<1>9. Covered => Covered'
  BY <1>0, <1>1, CoveredStays
<1>10. \A v \in WP : /\ ~At(1, "DropPredecessor", v) /\ ~At(1, "Shutdown", v)
                     /\ v # w => ~At(1, "TerminateTail", v)
  BY <1>3 DEF At
<1>11. \A v \in WP : /\ Old(v)' = Old(v) /\ (v # w => Steady(v))
                     /\ wp'[v].m_State = "Running" => wp[v].m_State = "Running"
  BY <1>3 DEF Old, Steady, Sick, Dead
<1>12. FramesInv'
  <2>1. \A v \in WP : SameOld(v) /\ (Steady(v) \/ Unmentioned(v, {"Terminate", "TerminateTail"}))
    BY <1>3, <1>11 DEF SameOld
  <2> QED
    BY <1>0, <1>1, <1>5, <1>6, <1>8, <1>9, <1>10, <1>11, <2>1, OldFrames DEF ObjectInv
<1>13. ~Terminating(w)'
  <2> SUFFICES ASSUME NEW i \in 1 .. Len(stack'), At(i, "TerminateTail", w)'
               PROVE  FALSE
    BY DEF Terminating
  <2>1. /\ Len(frames) \in Nat /\ Len(stack) \in Nat
        /\ \A j \in 1 .. Len(frames) : stack'[j] = frames[j]
        /\ \A j \in Len(frames) + 1 .. Len(stack') :
              /\ stack'[j] = stack[j - Len(frames) + 1]
              /\ j - Len(frames) + 1 \in 2 .. Len(stack)
    BY <1>0, <1>1, <1>5, <1>6, Pushed
  <2>2. CASE i <= Len(frames)
    BY <1>8, <2>1, <2>2 DEF At
  <2>3. CASE i > Len(frames)
    <3>1. i \in Len(frames) + 1 .. Len(stack')
      BY <2>1, <2>3
    <3>2. PICK k \in 2 .. Len(stack) : stack'[i] = stack[k]
      BY <2>1, <3>1
    <3> QED
      BY <1>3, <3>2 DEF At, Unmentioned
  <2> QED
    BY <2>1, <2>2, <2>3
<1>14. Membership'
  <2> SUFFICES ASSUME NEW v \in WP
               PROVE  InList(v)' <=> (~Dead(v)' \/ Terminating(v)')
    BY DEF Membership
  <2>1. CASE v # w
    <3>1. Terminating(v)' <=> Terminating(v)
      BY <1>0, <1>1, <1>5, <1>6, <1>8, <1>10, <2>1, TerminatingKept
    <3>2. Dead(v)' <=> Dead(v)
      BY <1>3, <2>1 DEF Dead
    <3> QED
      BY <1>1, <1>4, <2>1, <3>1, <3>2 DEF ListInv, Membership
  <2>2. CASE v = w
    BY <1>3, <1>4, <1>13, <2>2
  <2> QED
    BY <2>1, <2>2
<1>15. Starting'
  <2>1. \A v \in WP : wp'[v].m_State = "Running" => wp[v].m_State = "Running" /\ SameOld(v)
    BY <1>11 DEF SameOld
  <2> QED
    BY <1>0, <1>1, <1>5, <1>6, <1>10, <2>1, StartingKept DEF ObjectInv
<1>16. WalkListed' /\ WalkCovered'
  <2>1. ASSUME Replacing, Len(stack) > 1 PROVE Bottom.w \in ToSet(list')
    <3>1. Spares(1, Bottom.w)
      BY <1>0, <1>3, <2>1, First DEF FrameInv, Ordered, Danger
    <3>2. Bottom.w # w /\ Bottom.w \in WP
      BY <1>3, <2>1, <3>1 DEF Spares, Replacing
    <3>3. InList(Bottom.w)
      BY <1>1, <2>1 DEF ListInv, WalkListed
    <3>4. PICK x \in WP : x = Bottom.w
      BY <3>2
    <3>5. x \in ToSet(list')
      BY <1>4, <3>2, <3>3, <3>4 DEF InList
    <3> QED
      BY <3>4, <3>5
  <2>2. \A i \in 1 .. Len(frames) : frames[i].fn \notin {"ShutdownAll", "ReplaceAll"}
    BY <1>8
  <2> QED
    BY <1>0, <1>1, <1>5, <1>6, <1>9, <2>1, <2>2, WalksKept
<1>17. Successors'
  BY <1>1, <1>3, <1>4, <1>11 DEF ListInv, Successors
<1>18. Empties'
  <2> SUFFICES ASSUME NEW v \in WP, wp'[v].m_State = "Free"
               PROVE  wp'[v].m_RefCount = 0 /\ Old(v)' = NoWP /\ ~Sick(v)'
    BY DEF Empties
  <2>1. CASE v = w
    BY <1>3, <2>1
  <2>2. CASE v # w
    BY <1>3, <2>2 DEF ObjectInv, Empties, Old, Sick
  <2> QED
    BY <2>1, <2>2
<1>19. ListInv'
  BY <1>4, <1>14, <1>15, <1>16, <1>17 DEF ListInv
<1>20. RefCountExact'
  <2> SUFFICES ASSUME NEW v \in WP
               PROVE  wp'[v].m_RefCount = References(v)'
    BY DEF RefCountExact
  <2>1. Handled(v)' = Handled(v) /\ Replacements(v)' = Replacements(v)
    BY <1>3, <1>11 DEF Handled, Replacements
  <2>2. wp'[v].m_RefCount = wp[v].m_RefCount + (Listed(v)' - Listed(v))
        /\ wp[v].m_RefCount \in Int /\ Listed(v)' \in Int /\ Listed(v) \in Int
    <3>1. wp[v].m_RefCount \in Int /\ Listed(v)' \in Int /\ Listed(v) \in Int
      BY <1>1 DEF TypeOK, WorkerProcesses, Listed
    <3>2. CASE v = w
      <4>1. Listed(w) = 1 /\ Listed(w)' = 0
        BY <1>3, <1>4 DEF Listed
      <4> QED
        BY <1>3, <3>1, <3>2, <4>1
    <3>3. CASE v # w
      <4>1. wp'[v] = wp[v] /\ Listed(v)' = Listed(v)
        BY <1>3, <1>4, <3>3 DEF Listed
      <4> QED
        BY <3>1, <4>1
    <3> QED
      BY <3>1, <3>2, <3>3
  <2>3. Count(frames, {Call("Dereference", v)}) = 0
    BY <1>5, <1>8, CountNone
  <2>4. Head(stack) # Call("Dereference", v)
    BY <1>3 DEF Call
  <2>5. Handled(v) \in Int /\ Cardinality(Replacements(v)) \in Int
    BY <1>1, ReplacementsFinite DEF Handled
  <2>6. PICK r, s, l, h, c, l1 \in Int :
          /\ r = wp'[v].m_RefCount /\ s = wp[v].m_RefCount /\ l = Listed(v) /\ h = Handled(v)
          /\ c = Cardinality(Replacements(v)) /\ l1 = Listed(v)'
    <3>1. wp'[v].m_RefCount \in Int
      BY <1>3 DEF TypeOK, WorkerProcesses
    <3> QED
      BY <2>2, <2>5, <3>1, Zenon
  <2>7. r = s + (l1 - l)
    BY <2>2, <2>6, Zenon
  <2>8. r + l + h + c + 0 = s + l1 + h + c + 0
    BY <2>7
  <2>9. (IF Head(stack) = Call("Dereference", v) THEN 1 ELSE 0) = 0
        /\ Cardinality(Replacements(v)') = c /\ Handled(v)' = h
    BY <2>1, <2>4, <2>6
  <2>10. wp'[v].m_RefCount + Listed(v) + Handled(v) + Cardinality(Replacements(v))
           + (IF Head(stack) = Call("Dereference", v) THEN 1 ELSE 0)
         = wp[v].m_RefCount + Listed(v)' + Handled(v)' + Cardinality(Replacements(v)')
           + Count(frames, {Call("Dereference", v)})
    BY <2>3, <2>6, <2>8, <2>9, Zenon
  <2> QED
    BY <1>0, <1>1, <1>3, <1>5, <1>6, <1>19, <2>10, ExactCall
<1>21. QuietInvariant'
  BY <1>0, NextQuiet DEF ObjectInv, Next
<1> QED
  BY <1>12, <1>18, <1>19, <1>20, <1>21 DEF ObjectInv

-----------------------------------------------------------------------------
(***************************************************************************)
(* CreateWorkerProcess.                                                    *)
(***************************************************************************)
LEMMA ConstructedEffect ==
  ASSUME TypeOK, NEW new \in WP, NEW reason \in {"DemandStart", "Replace"},
         NEW old \in WP \cup {NoWP}, old # new, wp' = Constructed(new, reason, old)
  PROVE  /\ wp'[new].m_State = "Uninitialized" /\ wp'[new].m_RefCount = 1
         /\ wp'[new].m_pWorkerProcessToReplace = old
         /\ wp'[new].m_pMessagingHandler = "NULL"
         /\ wp'[new].m_TerminalIllReason = "NotIll"
         /\ \A v \in WP : v # new =>
              /\ wp'[v].m_State = wp[v].m_State
              /\ wp'[v].m_TerminalIllReason = wp[v].m_TerminalIllReason
              /\ wp'[v].m_pWorkerProcessToReplace = wp[v].m_pWorkerProcessToReplace
              /\ wp'[v].m_pMessagingHandler = wp[v].m_pMessagingHandler
              /\ wp'[v].m_RefCount = wp[v].m_RefCount + (IF v = old THEN 1 ELSE 0)
<1> DEFINE r == NewWorkerProcess(reason, old)
           tbl == [wp EXCEPT ![new] = r]
<1>1. /\ r.m_State = "Uninitialized" /\ r.m_RefCount = 1 /\ r.m_pWorkerProcessToReplace = old
      /\ r.m_pMessagingHandler = "NULL" /\ r.m_TerminalIllReason = "NotIll"
  BY DEF NewWorkerProcess, NoObject
<1>2. r \in WorkerProcesses
  BY NewWorkerProcessType
<1>3. wp' = IF old = NoWP THEN tbl ELSE Referenced(tbl, old)
  BY DEF Constructed
<1> HIDE DEF r
<1>4. tbl \in [WP -> WorkerProcesses] /\ tbl[new] = r /\ \A v \in WP : v # new => tbl[v] = wp[v]
  BY <1>2 DEF TypeOK
<1> HIDE DEF tbl
<1>5. \A v \in WP : wp[v].m_RefCount \in Int
  BY DEF TypeOK, WorkerProcesses
<1>6. CASE old = NoWP
  <2>1. wp' = tbl /\ \A v \in WP : v # old
    BY <1>3, <1>6, PointerAssumption
  <2>2. \A v \in WP : wp[v].m_RefCount = wp[v].m_RefCount + (IF v = old THEN 1 ELSE 0)
    BY <1>5, <2>1
  <2> QED
    BY <1>1, <1>4, <2>1, <2>2
<1>7. CASE old \in WP
  <2>1. wp' = Referenced(tbl, old)
    BY <1>3, <1>7, PointerAssumption
  <2>2. /\ \A v \in WP : v # old => wp'[v] = tbl[v]
        /\ wp'[old].m_RefCount = tbl[old].m_RefCount + 1
        /\ wp'[old].m_State = tbl[old].m_State
        /\ wp'[old].m_TerminalIllReason = tbl[old].m_TerminalIllReason
        /\ wp'[old].m_pWorkerProcessToReplace = tbl[old].m_pWorkerProcessToReplace
        /\ wp'[old].m_pMessagingHandler = tbl[old].m_pMessagingHandler
    BY <1>4, <1>7, <2>1, ReferencedEffect
  <2>3. tbl[old] = wp[old] /\ wp'[new] = r
    BY <1>4, <1>7, <2>2
  <2>4. ASSUME NEW v \in WP, v # new
        PROVE  /\ wp'[v].m_State = wp[v].m_State
               /\ wp'[v].m_TerminalIllReason = wp[v].m_TerminalIllReason
               /\ wp'[v].m_pWorkerProcessToReplace = wp[v].m_pWorkerProcessToReplace
               /\ wp'[v].m_pMessagingHandler = wp[v].m_pMessagingHandler
               /\ wp'[v].m_RefCount = wp[v].m_RefCount + (IF v = old THEN 1 ELSE 0)
    <3>1. CASE v = old
      BY <2>2, <2>3, <3>1
    <3>2. CASE v # old
      <4>1. wp'[v] = wp[v] /\ wp[v].m_RefCount = wp[v].m_RefCount + 0
        BY <1>4, <1>5, <2>2, <2>4, <3>2
      <4> QED
        BY <3>2, <4>1
    <3> QED
      BY <3>1, <3>2
  <2> QED
    BY <1>1, <2>3, <2>4
<1> QED
  BY <1>6, <1>7

\* A new object joins the list, with a reference to the one it replaces, if any.
Joins(new, old) ==
  /\ wp'[new].m_State = "Uninitialized" /\ wp'[new].m_pMessagingHandler = "NULL"
  /\ Old(new)' = old /\ Handled(new) = 0 /\ ~InList(new)
  /\ \A v \in WP : v # new =>
       /\ wp'[v].m_State = wp[v].m_State /\ (Sick(v)' <=> Sick(v))
       /\ Old(v)' = Old(v)
  /\ \A v \in WP : InList(v)' <=> InList(v) \/ v = new
  /\ \A v \in WP :
       /\ Handled(v)' = Handled(v)
       /\ wp'[v].m_RefCount = wp[v].m_RefCount + (Listed(v)' - Listed(v))
                                + (Cardinality(Replacements(v)') - Cardinality(Replacements(v)))
       /\ Cardinality(Replacements(v)') \in Int
  /\ Distinct' /\ Successors' /\ Empties'

LEMMA Creation ==
  ASSUME ObjectInv, NEW new \in WP, wp[new].m_State = "Free",
         NEW reason \in {"DemandStart", "Replace"},
         NEW old \in WP \cup {NoWP}, old # new, old = NoWP \/ wp[old].m_State # "Free",
         wp' = Constructed(new, reason, old), list' = <<new>> \o list
  PROVE  Joins(new, old)
<1>0. TypeOK /\ list \in Seq(WP) /\ Len(list) \in Nat /\ ListInv
  BY DEF ObjectInv, QuietInvariant, TypeOK
<1>1. /\ wp'[new].m_State = "Uninitialized" /\ wp'[new].m_RefCount = 1
      /\ wp'[new].m_pWorkerProcessToReplace = old
      /\ wp'[new].m_pMessagingHandler = "NULL"
      /\ wp'[new].m_TerminalIllReason = "NotIll"
      /\ \A v \in WP : v # new =>
           /\ wp'[v].m_State = wp[v].m_State
           /\ wp'[v].m_TerminalIllReason = wp[v].m_TerminalIllReason
           /\ wp'[v].m_pWorkerProcessToReplace = wp[v].m_pWorkerProcessToReplace
           /\ wp'[v].m_pMessagingHandler = wp[v].m_pMessagingHandler
           /\ wp'[v].m_RefCount = wp[v].m_RefCount + (IF v = old THEN 1 ELSE 0)
  BY <1>0, ConstructedEffect
<1>2. wp[new].m_RefCount = 0 /\ Old(new) = NoWP
  BY DEF ObjectInv, Empties
<1>3. wp[new].m_pMessagingHandler # "attached"
  BY DEF ObjectInv, QuietInvariant, AllQuiet, Quiet
<1>4. ~InList(new)
  BY Entries
<1>5. /\ \A v \in WP : InList(v)' <=> InList(v) \/ v = new
      /\ Distinct'
  <2> DEFINE l == <<new>> \o list
  <2>1. /\ Len(l) = Len(list) + 1 /\ l \in Seq(WP) /\ l[1] = new
        /\ \A i \in 2 .. Len(list) + 1 : l[i] = list[i - 1] /\ i - 1 \in 1 .. Len(list)
        /\ \A i \in 1 .. Len(list) : l[i + 1] = list[i] /\ i + 1 \in 1 .. Len(list) + 1
    BY <1>0
  <2>2. list' = l
    OBVIOUS
  <2> HIDE DEF l
  <2>3. \A v : v \in ToSet(l) <=> \E i \in 1 .. Len(list) + 1 : l[i] = v
    <3>1. DOMAIN l = 1 .. Len(list) + 1
      BY <2>1
    <3> QED
      BY <3>1, Zenon DEF ToSet
  <2>4. \A v : InList(v) <=> \E i \in 1 .. Len(list) : list[i] = v
    BY <1>0 DEF InList, ToSet
  <2>5. \A i \in 1 .. Len(list) + 1 : i = 1 \/ i \in 2 .. Len(list) + 1
    BY <1>0
  <2>6. ASSUME NEW v \in WP PROVE v \in ToSet(l) <=> InList(v) \/ v = new
    <3>1. ASSUME v \in ToSet(l) PROVE InList(v) \/ v = new
      BY <2>1, <2>3, <2>4, <2>5, <3>1
    <3>2. ASSUME InList(v) PROVE v \in ToSet(l)
      BY <2>1, <2>3, <2>4, <3>2
    <3>3. new \in ToSet(l)
      <4>1. 1 \in 1 .. Len(list) + 1
        BY <1>0
      <4> QED
        BY <2>1, <2>3, <4>1
    <3> QED
      BY <3>1, <3>2, <3>3
  <2>7. \A i \in 2 .. Len(list) + 1 : l[i] # new
    BY <1>4, <2>1, <2>4
  <2>8. ASSUME NEW i \in 1 .. Len(l), NEW j \in 1 .. Len(l), l[i] = l[j] PROVE i = j
    <3>1. i \in 1 .. Len(list) + 1 /\ j \in 1 .. Len(list) + 1
      BY <2>1
    <3>2. CASE i = 1 \/ j = 1
      BY <2>1, <2>5, <2>7, <2>8, <3>1, <3>2
    <3>3. CASE i # 1 /\ j # 1
      <4>1. PICK x \in 1 .. Len(list) : x = i - 1 /\ l[i] = list[x]
        BY <2>1, <2>5, <3>1, <3>3
      <4>2. PICK y \in 1 .. Len(list) : y = j - 1 /\ l[j] = list[y]
        BY <2>1, <2>5, <3>1, <3>3
      <4>3. x = y
        BY <1>0, <2>8, <4>1, <4>2 DEF ListInv, Distinct
      <4> QED
        BY <1>0, <4>1, <4>2, <4>3
    <3> QED
      BY <3>2, <3>3
  <2>9. Distinct'
    BY <2>2, <2>8 DEF Distinct
  <2> QED
    BY <2>2, <2>6, <2>9 DEF InList
<1>6. Successors'
  <2> SUFFICES ASSUME NEW v \in WP, Old(v)' # NoWP
               PROVE  InList(v)'
    BY DEF Successors
  <2>1. CASE v = new
    BY <1>5, <2>1
  <2>2. CASE v # new
    <3>1. Old(v) # NoWP
      BY <1>1, <2>2 DEF Old
    <3> QED
      BY <1>0, <1>5, <3>1 DEF ListInv, Successors
  <2> QED
    BY <2>1, <2>2
<1>7. Empties'
  <2> SUFFICES ASSUME NEW v \in WP, wp'[v].m_State = "Free"
               PROVE  wp'[v].m_RefCount = 0 /\ Old(v)' = NoWP /\ ~Sick(v)'
    BY DEF Empties
  <2>1. v # new /\ wp[v].m_State = "Free" /\ v # old
    BY <1>1, PointerAssumption
  <2>2. wp[v].m_RefCount = 0 /\ Old(v) = NoWP /\ ~Sick(v)
    BY <2>1 DEF ObjectInv, Empties
  <2>3. wp'[v].m_RefCount = wp[v].m_RefCount + (IF v = old THEN 1 ELSE 0)
    BY <1>1, <2>1
  <2> QED
    BY <1>1, <2>1, <2>2, <2>3 DEF Old, Sick
<1>8. ASSUME NEW v \in WP
      PROVE  /\ Replacements(v)' = IF v = old THEN Replacements(v) \cup {new} ELSE Replacements(v)
             /\ new \notin Replacements(v)
  <2>1. \A u \in WP : Old(u)' = v <=> Old(u) = v \/ (u = new /\ v = old)
    BY <1>1, <1>2, PointerAssumption DEF Old
  <2>2. new \notin Replacements(v)
    BY <1>2, PointerAssumption DEF Replacements
  <2> QED
    BY <2>1, <2>2 DEF Replacements
<1>9. ASSUME NEW v \in WP
      PROVE  /\ Cardinality(Replacements(v)) \in Int
             /\ Cardinality(Replacements(v)')
                  = Cardinality(Replacements(v)) + (IF v = old THEN 1 ELSE 0)
  <2>1. IsFiniteSet(Replacements(v)) /\ Cardinality(Replacements(v)) \in Nat
    BY <1>0, ReplacementsFinite
  <2>2. CASE v = old
    <3>1. Cardinality(Replacements(v) \cup {new}) = Cardinality(Replacements(v)) + 1
      BY <1>8, <2>1, FS_AddElement
    <3>2. Replacements(v)' = Replacements(v) \cup {new} /\ (IF v = old THEN 1 ELSE 0) = 1
      BY <1>8, <2>2
    <3> QED
      BY <2>1, <3>1, <3>2
  <2>3. CASE v # old
    BY <1>8, <2>1, <2>3
  <2> QED
    BY <2>2, <2>3
<1>10. ASSUME NEW v \in WP
       PROVE  /\ Handled(v)' = Handled(v)
              /\ wp'[v].m_RefCount = wp[v].m_RefCount + (Listed(v)' - Listed(v))
                                 + (Cardinality(Replacements(v)') - Cardinality(Replacements(v)))
              /\ Cardinality(Replacements(v)') \in Int
  <2>1. PICK c, x \in Int : c = Cardinality(Replacements(v)) /\ x = IF v = old THEN 1 ELSE 0
    BY <1>9
  <2>2. Cardinality(Replacements(v)') = c + x
    BY <1>9, <2>1
  <2>3. PICK s \in Int : s = wp[v].m_RefCount
    BY <1>0 DEF TypeOK, WorkerProcesses
  <2>4. CASE v = new
    <3>1. s = 0 /\ x = 0 /\ wp'[v].m_RefCount = 1 /\ Listed(v) = 0 /\ Listed(v)' = 1
      BY <1>1, <1>2, <1>4, <1>5, <2>1, <2>3, <2>4 DEF Listed
    <3>2. 1 = 0 + (1 - 0) + ((c + 0) - c)
      OBVIOUS
    <3>3. c + x \in Int /\ Handled(v)' = Handled(v)
      BY <1>1, <1>3, <2>4 DEF Handled
    <3> QED
      BY <2>1, <2>2, <2>3, <3>1, <3>2, <3>3
  <2>5. CASE v # new
    <3>1. wp'[v].m_RefCount = s + x /\ Listed(v)' = Listed(v) /\ Handled(v)' = Handled(v)
      BY <1>1, <1>5, <2>1, <2>3, <2>5 DEF Listed, Handled
    <3>2. PICK l \in Int : l = Listed(v)
      BY DEF Listed
    <3>3. s + x = s + (l - l) + ((c + x) - c) /\ c + x \in Int
      OBVIOUS
    <3> QED
      BY <2>1, <2>2, <2>3, <3>1, <3>2, <3>3
  <2> QED
    BY <2>4, <2>5
<1>11. Handled(new) = 0 /\ Old(new)' = old
  BY <1>1, <1>3 DEF Handled, Old
<1>12. \A v \in WP : v # new =>
         wp'[v].m_State = wp[v].m_State /\ (Sick(v)' <=> Sick(v)) /\ Old(v)' = Old(v)
  BY <1>1 DEF Sick, Old
<1> QED
  BY <1>1, <1>4, <1>5, <1>6, <1>7, <1>10, <1>11, <1>12 DEF Joins

\* Equal shifts on both sides of the count.
LEMMA Shifted ==
  ASSUME NEW r \in Int, NEW s \in Int, NEW l \in Int, NEW h \in Int, NEW c \in Int,
         NEW l1 \in Int, NEW c1 \in Int, r = s + (l1 - l) + (c1 - c)
  PROVE  r + l + h + c + 0 = s + l1 + h + c1 + 0
  OBVIOUS

\* A replacement is created: the call stands above the loop that replaces, if anything.
LEMMA ReplacementCreated ==
  ASSUME ObjectInv, InitiateReplacement, NEW w \in WP, w = This, NEW new \in WP,
         wp[new].m_State = "Free", IsOkToReplaceWorkerProcess,
         wp' = Constructed(new, "Replace", w), list' = <<new>> \o list,
         Return(<<Call("Initialize", new), Call("MarkReplaced", w)>>)
  PROVE  ObjectInv'
<1>0. /\ MakeCall /\ stack # <<>> /\ queue' = queue
      /\ Head(stack).fn = "InitiateReplacement" /\ Head(stack).w = w
  BY DEF MakeCall, WorkerProcessCall, InitiateReplacement, Calling, This
<1>1. TypeOK /\ TypeOK' /\ Head(stack) = stack[1] /\ FrameInv(1) /\ ListInv /\ RefCountExact
      /\ Len(stack) \in Nat
  BY <1>0, First, NextType DEF ObjectInv, Next
<1>2. wp[w].m_State # "Free" /\ w # new
  BY <1>0, <1>1 DEF FrameInv, Founded, IsOkToReplaceWorkerProcess
<1>3. Joins(new, w)
  BY <1>2, Creation
<1>4. \A i \in 2 .. Len(stack) : stack[i].fn = "ReplaceAll"
  <2>1. Len(stack) <= 2 /\ (Len(stack) = 2 => stack[2].fn = "ReplaceAll")
    BY <1>0, <1>1 DEF FrameInv, Placed
  <2>2. \A i \in 2 .. Len(stack) : i = 2 /\ Len(stack) = 2
    <3>1. \A m \in Nat : m <= 2 => \A i \in 2 .. m : i = 2 /\ m = 2
      OBVIOUS
    <3> QED
      BY <1>1, <2>1, <3>1, Zenon
  <2> QED
    BY <2>1, <2>2
<1>5. \A v \in WP : Unmentioned(v, Danger \cup {"StartupTail"})
                      /\ Unmentioned(v, {"Terminate", "TerminateTail"})
  BY <1>4 DEF Unmentioned, Danger
<1> DEFINE f == Call("Initialize", new)
           g == Call("MarkReplaced", w)
           frames == <<f, g>>
<1>6. /\ f \in Frames /\ f.fn = "Initialize" /\ f.w = new
      /\ g \in Frames /\ g.fn = "MarkReplaced" /\ g.w = w
  BY WorkerFrame DEF Call, WorkerProcessMethods
<1>7. Return(frames)
  OBVIOUS
<1> HIDE DEF f, g
<1>8. frames \in Seq(Frames) /\ Len(frames) = 2 /\ frames[1] = f /\ frames[2] = g
  BY <1>6
<1>9. stack'[1] = f /\ stack'[2] = g
  BY <1>0, <1>1, <1>6, <1>7, PushedTwo
<1> HIDE DEF frames
<1>10. \A i \in 1 .. Len(frames) : /\ i = 1 \/ i = 2
                                   /\ frames[i].fn \in {"Initialize", "MarkReplaced"}
  BY <1>6, <1>8
<1>11. Covered => Covered'
  BY <1>0, <1>1, CoveredStays
<1>12. FrameInv(1)'
  <2>1. ASSUME Replacing' PROVE Spares(1, Bottom.w)'
    <3>1. Replacing /\ Bottom' = Bottom
      <4>1. \A i \in 1 .. Len(frames) : frames[i].fn # "ReplaceAll"
        BY <1>10
      <4> QED
        BY <1>0, <1>1, <1>7, <1>8, <2>1, <4>1, BottomStays
    <3>2. Spares(1, Bottom.w)
      BY <1>0, <1>1, <3>1 DEF FrameInv, Ordered, Danger
    <3>3. w # Bottom.w
      BY <1>0, <1>1, <3>2 DEF Spares
    <3>4. InList(Bottom.w)
      BY <1>1, <3>1 DEF ListInv, WalkListed
    <3>5. new # Bottom.w
      BY <1>3, <3>4 DEF Joins
    <3>6. stack'[1].w = new /\ wp'[new].m_pWorkerProcessToReplace = w
      BY <1>3, <1>6, <1>9 DEF Joins, Old
    <3> QED
      BY <3>1, <3>3, <3>5, <3>6 DEF Spares, Old
  <2>2. wp'[new].m_State = "Uninitialized" /\ wp'[new].m_pMessagingHandler = "NULL"
    BY <1>3 DEF Joins
  <2> QED
    BY <1>6, <1>9, <2>1, <2>2 DEF FrameInv, Placed, Founded, Ordered
<1>13. FrameInv(2)'
  BY <1>6, <1>9, Harmless
<1>14. \A i \in 1 .. Len(frames) : FrameInv(i)'
  BY <1>10, <1>12, <1>13
<1>15. \A v \in WP : ~At(1, "DropPredecessor", v) /\ ~At(1, "Shutdown", v)
                       /\ ~At(1, "TerminateTail", v)
  BY <1>0, <1>1 DEF At
<1>16. \A v \in WP : wp'[v].m_State = "Running" => wp[v].m_State = "Running" /\ Old(v)' = Old(v)
  BY <1>3 DEF Joins
<1>17. FramesInv'
  BY <1>0, <1>1, <1>5, <1>7, <1>8, <1>11, <1>14, <1>15, <1>16, OldFrames DEF ObjectInv
<1>18. Membership'
  <2> SUFFICES ASSUME NEW v \in WP
               PROVE  InList(v)' <=> (~Dead(v)' \/ Terminating(v)')
    BY DEF Membership
  <2>1. CASE v = new
    BY <1>3, <2>1 DEF Joins, Dead
  <2>2. CASE v # new
    <3>1. \A i \in 1 .. Len(frames) : frames[i].fn # "TerminateTail"
      BY <1>10
    <3>2. Terminating(v)' <=> Terminating(v)
      BY <1>0, <1>1, <1>7, <1>8, <1>15, <3>1, TerminatingKept
    <3>3. (Dead(v)' <=> Dead(v)) /\ (InList(v)' <=> InList(v))
      BY <1>3, <2>2 DEF Joins, Dead
    <3> QED
      BY <1>1, <3>2, <3>3 DEF ListInv, Membership
  <2> QED
    BY <2>1, <2>2
<1>19. Starting'
  <2>1. \A v \in WP : wp'[v].m_State = "Running" => wp[v].m_State = "Running" /\ SameOld(v)
    BY <1>16 DEF SameOld
  <2>2. \A v \in WP : At(1, "Shutdown", v) => wp'[v].m_State # "Running"
    BY <1>15
  <2> QED
    BY <1>0, <1>1, <1>7, <1>8, <2>1, <2>2, StartingKept DEF ObjectInv
<1>20. WalkListed' /\ WalkCovered'
  <2>1. ASSUME Replacing PROVE Bottom.w \in ToSet(list')
    <3>1. PICK x \in WP : x = Bottom.w
      BY <2>1 DEF Replacing
    <3>2. InList(x)
      BY <1>1, <2>1, <3>1 DEF ListInv, WalkListed
    <3>3. InList(x)'
      BY <1>3, <3>2 DEF Joins
    <3> QED
      BY <3>1, <3>3 DEF InList
  <2>2. \A i \in 1 .. Len(frames) : frames[i].fn \notin {"ShutdownAll", "ReplaceAll"}
    BY <1>10
  <2> QED
    BY <1>0, <1>1, <1>7, <1>8, <1>11, <2>1, <2>2, WalksKept
<1>21. ListInv' /\ Empties'
  BY <1>3, <1>18, <1>19, <1>20 DEF ListInv, Joins
<1>22. RefCountExact'
  <2> SUFFICES ASSUME NEW v \in WP
               PROVE  wp'[v].m_RefCount = References(v)'
    BY DEF RefCountExact
  <2>1. /\ Handled(v)' = Handled(v)
        /\ wp'[v].m_RefCount = wp[v].m_RefCount + (Listed(v)' - Listed(v))
                                + (Cardinality(Replacements(v)') - Cardinality(Replacements(v)))
        /\ Cardinality(Replacements(v)') \in Int
    BY <1>3 DEF Joins
  <2>2. Count(frames, {Call("Dereference", v)}) = 0
    <3>1. \A i \in 1 .. Len(frames) : frames[i].fn # "Dereference"
      BY <1>10
    <3> QED
      BY <1>8, <3>1, CountNone
  <2>3. Head(stack) # Call("Dereference", v)
    BY <1>0 DEF Call
  <2>4. /\ Handled(v) \in Int /\ Cardinality(Replacements(v)) \in Int
        /\ Listed(v) \in Int /\ Listed(v)' \in Int
        /\ wp[v].m_RefCount \in Int /\ wp'[v].m_RefCount \in Int
    BY <1>1, ReplacementsFinite DEF Handled, Listed, TypeOK, WorkerProcesses
  <2>5. PICK r, s, l, h, c, l1, c1 \in Int :
          /\ r = wp'[v].m_RefCount /\ s = wp[v].m_RefCount /\ l = Listed(v) /\ h = Handled(v)
          /\ c = Cardinality(Replacements(v)) /\ l1 = Listed(v)'
          /\ c1 = Cardinality(Replacements(v)')
    BY <2>1, <2>4, Zenon
  <2>6. r = s + (l1 - l) + (c1 - c)
    BY <2>1, <2>5, Zenon
  <2>7. r + l + h + c + 0 = s + l1 + h + c1 + 0
    BY <2>6, Shifted
  <2>8. (IF Head(stack) = Call("Dereference", v) THEN 1 ELSE 0) = 0 /\ Handled(v)' = h
    BY <2>1, <2>3, <2>5
  <2>9. wp'[v].m_RefCount + Listed(v) + Handled(v) + Cardinality(Replacements(v))
           + (IF Head(stack) = Call("Dereference", v) THEN 1 ELSE 0)
         = wp[v].m_RefCount + Listed(v)' + Handled(v)' + Cardinality(Replacements(v)')
           + Count(frames, {Call("Dereference", v)})
    BY <2>2, <2>5, <2>7, <2>8, Zenon
  <2> QED
    BY <1>0, <1>1, <1>7, <1>8, <1>21, <2>9, ExactCall
<1>23. QuietInvariant'
  BY <1>0, NextQuiet DEF ObjectInv, Next
<1> QED
  BY <1>17, <1>21, <1>22, <1>23 DEF ObjectInv

LEMMA InitiateReplacementCall ==
  ASSUME ObjectInv, InitiateReplacement
  PROVE  ObjectInv'
<1>1. PICK w : w = This
  OBVIOUS
<1>2. w \in WP
  BY <1>1, First, CallingWP DEF InitiateReplacement, WorkerProcessMethods, Calling
<1>3. CASE UNCHANGED <<wp, list>> /\ (Return(<<>>) \/ Return(ReplacementRefused(This)))
  BY <1>3, ReplacementRefusedCall
<1>4. CASE /\ IsOkToReplaceWorkerProcess
           /\ \E new \in FreeMemory :
                /\ wp' = Constructed(new, "Replace", w)
                /\ list' = <<new>> \o list
                /\ Return(<<Call("Initialize", new), Call("MarkReplaced", w)>>)
  <2>1. PICK new \in FreeMemory :
                /\ wp' = Constructed(new, "Replace", w)
                /\ list' = <<new>> \o list
                /\ Return(<<Call("Initialize", new), Call("MarkReplaced", w)>>)
    BY <1>4
  <2>2. new \in WP /\ wp[new].m_State = "Free"
    BY DEF FreeMemory
  <2> QED
    BY <1>1, <1>2, <1>4, <2>1, <2>2, ReplacementCreated
<1> QED
  BY <1>1, <1>3, <1>4 DEF InitiateReplacement

\* Every call preserves the invariant.
LEMMA CallsObject ==
  ASSUME ObjectInv, MakeCall
  PROVE  ObjectInv'
  BY PoolCalls, InitializeCall, ShutdownCall, DereferenceCall, MarkAsTerminallyIllCall,
     TerminateCall, TerminateTailCall, DropPredecessorCall, StartupTailCall,
     InitiateReplacementCall, MarkReplacedCall, DetachHandlerCall
     DEF MakeCall, WorkerProcessCall

-----------------------------------------------------------------------------
(***************************************************************************)
(* Between work items: the main thread begins one, or something else       *)
(* happens.  No call is pending then.                                      *)
(***************************************************************************)
\* An item is taken off the queue, or joins it.
LEMMA QueueTaken ==
  ASSUME TypeOK, queue # <<>>, queue' = Tail(queue), NEW v \in WP
  PROVE  /\ Queued(v) = Queued(v)' + (IF Head(queue) \in Own(v) THEN 1 ELSE 0)
         /\ Queued(v) \in Nat /\ Queued(v)' \in Nat
<1>1. queue \in Seq(WorkItems) /\ Tail(queue) \in Seq(WorkItems)
  BY DEF TypeOK
<1> DEFINE S == Own(v)
<1> HIDE DEF S
<1>2. Count(queue, S) = Count(Tail(queue), S) + (IF Head(queue) \in S THEN 1 ELSE 0)
  BY <1>1, CountTail
<1>3. Count(queue, S) \in Nat /\ Count(Tail(queue), S) \in Nat
  BY <1>1, CountNat
<1>4. Queued(v) = Count(queue, S) /\ Queued(v)' = Count(Tail(queue), S)
  BY DEF Queued, S, Own
<1> QED
  BY <1>2, <1>3, <1>4 DEF S

LEMMA QueueGrown ==
  ASSUME TypeOK, NEW x \in WorkItems, queue' = Append(queue, x), NEW v \in WP
  PROVE  /\ Queued(v)' = Queued(v) + (IF x \in Own(v) THEN 1 ELSE 0)
         /\ Queued(v) \in Nat /\ Queued(v)' \in Nat
<1>1. queue \in Seq(WorkItems) /\ <<x>> \in Seq(WorkItems) /\ queue' = queue \o <<x>>
      /\ queue' \in Seq(WorkItems)
  BY DEF TypeOK
<1> DEFINE S == Own(v)
<1> HIDE DEF S
<1>2. Count(queue \o <<x>>, S) = Count(queue, S) + Count(<<x>>, S)
  BY <1>1, CountConcat
<1>3. Count(queue, S) \in Nat /\ Count(queue \o <<x>>, S) \in Nat
  BY <1>1, CountNat
<1>4. Queued(v) = Count(queue, S) /\ Queued(v)' = Count(queue \o <<x>>, S)
  BY <1>1 DEF Queued, S, Own
<1>5. Count(<<x>>, S) = IF x \in S THEN 1 ELSE 0
  BY CountSmall
<1> QED
  BY <1>2, <1>3, <1>4, <1>5 DEF S

\* Which items hold a reference.
LEMMA OwnItems ==
  ASSUME NEW x \in WorkItems, NEW v \in WP
  PROVE  /\ x.op \in Handles => (x \in Own(v) <=> x.w = v) /\ x.w \in WP
         /\ x.op \in PipeOps \cup {"DemandStart"} => x \notin Own(v)
         /\ x.op \in PipeOps => x.w \in WP
<1>1. "DemandStart" \notin Handles /\ \A op \in PipeOps : op \notin Handles /\ op # "DemandStart"
  BY DEF Handles, PipeOps
<1> QED
  BY <1>1 DEF Own, WorkItems

\* No object appears or goes away.
Living ==
  \A v \in WP :
    /\ Dead(v)' <=> Dead(v)
    /\ Old(v)' = Old(v)
    /\ wp'[v].m_State = "Free" => wp[v].m_State = "Free"
    /\ wp[v].m_State = "Free" => SameCore(wp'[v], wp[v])
\* What changes in the queue is accounted for.
Tallied ==
  \A v \in WP :
    /\ wp'[v].m_RefCount + Queued(v) = wp[v].m_RefCount + Queued(v)' + Held(v)'
    /\ Handled(v)' = Handled(v)
\* The calls that a work item begins with.
Begun == \A i \in 1 .. Len(stack') : FrameInv(i)' /\ stack'[i].fn # "TerminateTail"

LEMMA IdleStep ==
  ASSUME ObjectInv, Next, stack = <<>>, list' = list, Living, Tallied, Begun,
         WalkListed', WalkCovered', Starting'
  PROVE  ObjectInv'
<1>1. QuietInvariant' /\ TypeOK /\ TypeOK' /\ ListInv /\ RefCountExact
  BY NextQuiet, NextType DEF ObjectInv, QuietInvariant
<1>2. FramesInv'
  BY DEF Begun, FramesInv
<1>3. \A v \in WP : ~Terminating(v) /\ ~Terminating(v)'
  BY DEF Begun, Terminating, At
<1>4. \A v \in WP : InList(v)' <=> InList(v)
  BY DEF InList
<1>5. Membership' /\ Distinct' /\ Successors'
  BY <1>1, <1>3, <1>4 DEF ListInv, Membership, Distinct, Successors, Living
<1>6. ListInv'
  BY <1>5 DEF ListInv
<1>7. Empties'
  BY DEF ObjectInv, Empties, Living, SameCore, Old, Sick
<1>8. RefCountExact'
  <2> SUFFICES ASSUME NEW v \in WP
               PROVE  wp'[v].m_RefCount = References(v)'
    BY DEF RefCountExact
  <2>1. Sum(v) /\ Sum(v)' /\ wp[v].m_RefCount = References(v)
    BY <1>1, <1>6, ReferencesSum, ReferencesSumNext DEF RefCountExact
  <2>2. Replacements(v)' = Replacements(v) /\ Listed(v)' = Listed(v) /\ Handled(v)' = Handled(v)
    BY <1>4 DEF Replacements, Listed, Living, Tallied
  <2>3. Held(v) = 0
    BY CountSmall DEF Held
  <2>4. wp[v].m_RefCount \in Int /\ wp'[v].m_RefCount \in Int
    BY <1>1 DEF TypeOK, WorkerProcesses
  <2>5. /\ Listed(v) \in Int /\ Handled(v) \in Int /\ Queued(v) \in Int
        /\ Cardinality(Replacements(v)) \in Int /\ Queued(v)' \in Int /\ Held(v)' \in Int
    <3>1. Listed(v) \in Int /\ Handled(v) \in Int /\ Queued(v) \in Int
          /\ Cardinality(Replacements(v)) \in Int
      BY <2>1 DEF Sum
    <3>2. Queued(v)' \in Int /\ Held(v)' \in Int
      BY <2>1 DEF Sum
    <3> QED
      BY <3>1, <3>2
  <2>6. PICK r, s, l, h, q, c, q1, d1 \in Int :
          /\ r = wp'[v].m_RefCount /\ s = wp[v].m_RefCount /\ l = Listed(v) /\ h = Handled(v)
          /\ q = Queued(v) /\ c = Cardinality(Replacements(v)) /\ q1 = Queued(v)' /\ d1 = Held(v)'
    BY <2>4, <2>5, Zenon
  <2>7. s = l + h + q + c + 0
    BY <2>1, <2>3, <2>6 DEF Sum
  <2>8. r + q = s + q1 + d1
    BY <2>6 DEF Tallied
  <2>9. r = l + h + q1 + c + d1
    BY <2>7, <2>8
  <2>10. References(v)' = Listed(v)' + Handled(v)' + Queued(v)'
                            + Cardinality(Replacements(v)') + Held(v)'
    BY <2>1 DEF Sum
  <2> QED
    BY <2>2, <2>6, <2>9, <2>10, Zenon
<1> QED
  BY <1>1, <1>2, <1>6, <1>7, <1>8 DEF ObjectInv

\* While no process begins to run, none has still to let go of another.
LEMMA StartingIdle ==
  ASSUME ObjectInv, stack = <<>>, Living,
         \A v \in WP : wp'[v].m_State = "Running" => wp[v].m_State = "Running"
  PROVE  Starting'
<1>1. Starting
  BY DEF ObjectInv, ListInv
<1> QED
  BY <1>1 DEF Starting, Living

\* A step that changes none of what ObjectInv says of objects and holds no reference.
LEMMA IdleCore ==
  ASSUME ObjectInv, Next, stack = <<>>, list' = list, CoreKept,
         \A v \in WP : Queued(v)' = Queued(v),
         Begun, \A i \in 1 .. Len(stack') : stack'[i].fn # "Dereference",
         WalkListed', WalkCovered'
  PROVE  ObjectInv'
<1>0. TypeOK /\ TypeOK' /\ stack' \in Seq(Frames)
  BY NextType DEF ObjectInv, QuietInvariant, TypeOK
<1>1. Living
  BY DEF Living, CoreKept, SameCore, Dead, Old
<1>2. Tallied
  <2> SUFFICES ASSUME NEW v \in WP
               PROVE  /\ wp'[v].m_RefCount + Queued(v) = wp[v].m_RefCount + Queued(v)' + Held(v)'
                      /\ Handled(v)' = Handled(v)
    BY DEF Tallied
  <2>1. Handled(v)' = Handled(v) /\ wp'[v].m_RefCount = wp[v].m_RefCount
        /\ wp[v].m_RefCount \in Int
    BY <1>0 DEF Handled, CoreKept, SameCore, TypeOK, WorkerProcesses
  <2>2. Held(v)' = 0
    BY <1>0, CountNone DEF Held
  <2>3. Queued(v) \in Int
    <3>1. Sum(v)
      BY <1>0, ReferencesSum DEF ObjectInv
    <3> QED
      BY <3>1 DEF Sum
  <2> QED
    BY <2>1, <2>2, <2>3
<1>3. Starting'
  BY <1>1, StartingIdle DEF CoreKept, SameCore
<1> QED
  BY <1>1, <1>2, <1>3, IdleStep

LEMMA Concats ==
  ASSUME NEW f, NEW g
  PROVE  /\ <<>> \o <<>> = <<>> /\ <<>> \o <<g>> = <<g>> /\ <<f>> \o <<>> = <<f>>
         /\ <<f>> \o <<g>> = <<f, g>>
<1>1. <<>> \o <<>> = <<>>
  OBVIOUS
<1>2. <<>> \o <<g>> = <<g>>
  OBVIOUS
<1>3. <<f>> \o <<>> = <<f>>
  OBVIOUS
<1>4. <<f>> \o <<g>> = <<f, g>>
  <2> DEFINE s == <<f>>
             t == <<g>>
             u == <<f, g>>
             X == {f, g}
  <2>1. s \in Seq(X) /\ t \in Seq(X) /\ Len(s) = 1 /\ Len(t) = 1 /\ s[1] = f /\ t[1] = g
    OBVIOUS
  <2>2. u \in Seq(X) /\ Len(u) = 2 /\ u[1] = f /\ u[2] = g
    OBVIOUS
  <2> HIDE DEF s, t, u, X
  <2>3. /\ s \o t \in Seq(X) /\ Len(s \o t) = 2
        /\ (s \o t)[1] = f /\ (s \o t)[2] = g
    <3>1. /\ Len(s \o t) = Len(s) + Len(t)
          /\ s \o t \in Seq(X)
          /\ \A i \in 1 .. Len(s) : (s \o t)[i] = s[i]
          /\ \A i \in 1 .. Len(t) : (s \o t)[i + Len(s)] = t[i]
      <4>1. s \in Seq(X) /\ t \in Seq(X)
        BY <2>1
      <4> QED
        BY <4>1
    <3>2. (s \o t)[1] = s[1] /\ (s \o t)[1 + 1] = t[1]
      BY <2>1, <3>1
    <3> QED
      BY <2>1, <3>1, <3>2
  <2>4. \A i \in 1 .. 2 : i = 1 \/ i = 2
    OBVIOUS
  <2>5. s \o t = u
    BY <2>2, <2>3, <2>4
  <2> QED
    BY <2>5 DEF s, t, u
<1> QED
  BY <1>1, <1>2, <1>3, <1>4

\* Calls that FrameInv asks nothing of, but to stand at the bottom.
LEMMA PoolWork ==
  ASSUME ObjectInv, Next, stack = <<>>, UNCHANGED <<wp, list>>,
         \A v \in WP : Queued(v)' = Queued(v),
         \A i \in 1 .. Len(stack') :
           \/ stack'[i].fn \in {"ShutdownAll", "DisableAppPool", "CheckShutdown"}
           \/ i = Len(stack') /\ stack'[i].fn \in {"PoolTerminate", "ConfigChange", "ReplaceAll"},
         WalkListed', WalkCovered'
  PROVE  ObjectInv'
<1>1. CoreKept
  BY DEF CoreKept, SameCore
<1>2. Begun /\ \A i \in 1 .. Len(stack') : stack'[i].fn # "Dereference"
  <2> SUFFICES ASSUME NEW i \in 1 .. Len(stack')
               PROVE  FrameInv(i)' /\ stack'[i].fn \notin {"TerminateTail", "Dereference"}
    BY DEF Begun
  <2>1. CASE stack'[i].fn \in {"ShutdownAll", "DisableAppPool", "CheckShutdown"}
    BY <2>1, Harmless
  <2>2. CASE i = Len(stack') /\ stack'[i].fn \in {"PoolTerminate", "ConfigChange", "ReplaceAll"}
    BY <2>2 DEF FrameInv, Placed, Founded, Ordered, Danger
  <2> QED
    BY <2>1, <2>2
<1> QED
  BY <1>1, <1>2, IdleCore

\* Nothing to call, or calls that begin no loop over the list.
LEMMA NoWalks ==
  ASSUME \A i \in 1 .. Len(stack') : stack'[i].fn \notin {"ShutdownAll", "ReplaceAll"},
         stack' \in Seq(Frames)
  PROVE  WalkListed' /\ WalkCovered' /\ ~Replacing'
<1>1. stack' # <<>> => Len(stack') \in 1 .. Len(stack')
  OBVIOUS
<1>2. ~Replacing'
  BY <1>1 DEF Replacing, Bottom
<1> QED
  BY <1>2 DEF WalkListed, WalkCovered

\* What happens to the pool.
LEMMA AppPoolEventObject ==
  ASSUME ObjectInv, AppPoolEvent
  PROVE  ObjectInv'
<1>0. /\ Next /\ stack = <<>> /\ UNCHANGED <<wp, list>>
      /\ TypeOK /\ TypeOK' /\ stack' \in Seq(Frames) /\ Len(stack') \in Nat
  <2>1. Next /\ stack = <<>> /\ TypeOK
    BY OthersWhenIdle DEF ObjectInv, QuietInvariant, Next
  <2>2. TypeOK' /\ UNCHANGED <<wp, list>>
    BY <2>1, NextType
       DEF AppPoolEvent, FlowedStart, FlowedStop, SetConfiguration, RecycleWorkerProcesses,
           PoolShutdown, DeletePool, CreatePool, DemandArrives
  <2> QED
    BY <2>1, <2>2 DEF TypeOK
<1>1. \A v \in WP : Queued(v)' = Queued(v)
  <2>1. CASE DemandArrives
    <3> DEFINE x == Item("DemandStart", NoWP)
    <3>1. x \in WorkItems /\ x.op = "DemandStart" /\ queue' = Append(queue, x)
      BY <2>1 DEF Item, WorkItems, DemandArrives, Enqueue
    <3> HIDE DEF x
    <3>2. \A v \in WP : x \notin Own(v)
      BY <3>1, OwnItems
    <3> QED
      BY <1>0, <3>1, <3>2, QueueGrown
  <2>2. CASE queue' = queue
    BY <2>2 DEF Queued
  <2> QED
    BY <2>1, <2>2
       DEF AppPoolEvent, FlowedStart, FlowedStop, SetConfiguration, RecycleWorkerProcesses,
           PoolShutdown, DeletePool, CreatePool
<1>2. CASE FlowedStart \/ CreatePool \/ DemandArrives
  <2>1. stack' = <<>>
    BY <1>0, <1>2 DEF FlowedStart, CreatePool, DemandArrives
  <2>2. \A i \in 1 .. Len(stack') : FALSE
    BY <2>1
  <2> QED
    BY <1>0, <1>1, <2>2, NoWalks, PoolWork
<1>3. CASE FlowedStop \/ DeletePool
  <2>1. PICK fn \in {"DisableAppPool", "PoolTerminate"} : stack' = <<Call(fn, NoWP)>>
    BY <1>3 DEF FlowedStop, DeletePool
  <2>2. Len(stack') = 1 /\ stack'[1].fn = fn /\ \A i \in 1 .. 1 : i = 1
    BY <2>1 DEF Call
  <2> QED
    BY <1>0, <1>1, <2>2, NoWalks, PoolWork
<1>4. CASE SetConfiguration
  <2> DEFINE f == Call("DisableAppPool", NoWP)
             g == Call("ConfigChange", NoWP)
  <2>1. \E s \in {<<>>, <<f>>}, t \in {<<>>, <<g>>} : stack' = s \o t
    BY <1>4 DEF SetConfiguration
  <2>2. f.fn = "DisableAppPool" /\ g.fn = "ConfigChange"
    BY DEF Call
  <2> HIDE DEF f, g
  <2>3. stack' = <<>> \/ stack' = <<f>> \/ stack' = <<g>> \/ stack' = <<f, g>>
    BY <2>1, Concats
  <2>4. /\ \A i \in 1 .. 1 : i = 1
        /\ \A i \in 1 .. 2 : i = 1 \/ i = 2
    OBVIOUS
  <2>5. \A i \in 1 .. Len(stack') :
           stack'[i].fn = "DisableAppPool" \/ (i = Len(stack') /\ stack'[i].fn = "ConfigChange")
    <3>1. CASE stack' = <<>>
      BY <3>1
    <3>2. CASE stack' = <<f>>
      BY <2>2, <2>4, <3>2
    <3>3. CASE stack' = <<g>>
      BY <2>2, <2>4, <3>3
    <3>4. CASE stack' = <<f, g>>
      BY <2>2, <2>4, <3>4
    <3> QED
      BY <2>3, <3>1, <3>2, <3>3, <3>4
  <2>6. WalkListed' /\ WalkCovered'
    BY <1>0, <2>5, NoWalks
  <2> QED
    BY <1>0, <1>1, <2>5, <2>6, PoolWork
<1>5. list \in Seq(WP) /\ (list # <<>> => list[1] \in WP /\ InList(list[1]))
  <2>1. list \in Seq(WP)
    BY <1>0 DEF TypeOK
  <2>2. list # <<>> => 1 \in DOMAIN list /\ list[1] \in WP
    BY <2>1
  <2> QED
    BY <2>1, <2>2 DEF InList, ToSet
<1>6. CASE RecycleWorkerProcesses
  <2>1. stack' = WalkFrom("ReplaceAll", FirstEntry)
    BY <1>6 DEF RecycleWorkerProcesses
  <2>2. CASE list = <<>>
    <3>1. stack' = <<>>
      BY <2>1, <2>2 DEF WalkFrom, FirstEntry
    <3>2. \A i \in 1 .. Len(stack') : FALSE
      BY <3>1
    <3> QED
      BY <1>0, <1>1, <3>2, NoWalks, PoolWork
  <2>3. CASE list # <<>>
    <3>1. stack' = <<Call("ReplaceAll", list[1])>>
      BY <1>5, <2>1, <2>3, PointerAssumption DEF WalkFrom, FirstEntry
    <3>2. Len(stack') = 1 /\ stack'[1].fn = "ReplaceAll" /\ stack'[1].w = list[1]
          /\ \A i \in 1 .. 1 : i = 1
      BY <3>1 DEF Call
    <3>3. InList(list[1])'
      BY <1>0, <1>5, <2>3 DEF InList
    <3>4. WalkListed'
      BY <1>0, <3>2, <3>3 DEF WalkListed, Bottom, InList
    <3>5. WalkCovered'
      BY <3>2 DEF WalkCovered
    <3> QED
      BY <1>0, <1>1, <3>2, <3>4, <3>5, PoolWork
  <2> QED
    BY <2>2, <2>3
<1>7. CASE PoolShutdown
  <2>1. stack' = WalkFrom("ShutdownAll", FirstEntry) \o <<Call("CheckShutdown", NoWP)>>
    BY <1>7 DEF PoolShutdown
  <2>2. Covered'
    BY <1>0, <1>7 DEF PoolShutdown, Covered, TypeOK, AppPools
  <2> DEFINE g == Call("CheckShutdown", NoWP)
             f == Call("ShutdownAll", FirstEntry)
  <2>3. g.fn = "CheckShutdown" /\ f.fn = "ShutdownAll"
    BY DEF Call
  <2>4. WalkFrom("ShutdownAll", FirstEntry) \in {<<>>, <<f>>}
    BY DEF WalkFrom
  <2>5. stack' = WalkFrom("ShutdownAll", FirstEntry) \o <<g>>
    BY <2>1
  <2> HIDE DEF f, g
  <2>6. stack' = <<g>> \/ stack' = <<f, g>>
    BY <2>4, <2>5, Concats
  <2>7. /\ \A i \in 1 .. 1 : i = 1
        /\ \A i \in 1 .. 2 : i = 1 \/ i = 2
    OBVIOUS
  <2>8. \A i \in 1 .. Len(stack') : stack'[i].fn \in {"ShutdownAll", "CheckShutdown"}
    <3>1. CASE stack' = <<g>>
      BY <2>3, <2>7, <3>1
    <3>2. CASE stack' = <<f, g>>
      BY <2>3, <2>7, <3>2
    <3> QED
      BY <2>6, <3>1, <3>2
  <2>9. WalkListed' /\ WalkCovered'
    BY <2>2 DEF WalkListed, WalkCovered, Replacing
  <2> QED
    BY <1>0, <1>1, <2>8, <2>9, PoolWork
<1> QED
  BY <1>2, <1>3, <1>4, <1>6, <1>7 DEF AppPoolEvent

-----------------------------------------------------------------------------
(***************************************************************************)
(* Messages.                                                               *)
(***************************************************************************)
\* A message holds no reference to the worker process.
LEMMA MessageWork ==
  ASSUME ObjectInv, Next, stack = <<>>, list' = list, CoreKept,
         queue # <<>>, queue' = Tail(queue), Head(queue).op \in PipeOps \cup {"DemandStart"},
         Begun,
         \A i \in 1 .. Len(stack') : stack'[i].fn \notin {"Dereference", "ShutdownAll", "ReplaceAll"}
  PROVE  ObjectInv'
<1>1. TypeOK /\ stack' \in Seq(Frames) /\ queue \in Seq(WorkItems)
  BY NextType DEF ObjectInv, QuietInvariant, TypeOK
<1>2. Head(queue) \in WorkItems
  BY <1>1
<1>3. ASSUME NEW v \in WP
      PROVE  Queued(v)' = Queued(v)
  <2>1. Head(queue) \notin Own(v)
    BY <1>2, OwnItems
  <2> QED
    BY <1>1, <2>1, QueueTaken
<1>4. WalkListed' /\ WalkCovered'
  BY <1>1, NoWalks
<1> QED
  BY <1>3, <1>4, IdleCore

\* A message makes no call, or one on its worker process, which is not terminated.
LEMMA NothingBegun ==
  ASSUME stack' = <<>>
  PROVE  /\ Begun
         /\ \A i \in 1 .. Len(stack') :
              stack'[i].fn \notin {"Dereference", "ShutdownAll", "ReplaceAll"}
<1>1. \A i \in 1 .. Len(stack') : FALSE
  OBVIOUS
<1> QED
  BY <1>1 DEF Begun

LEMMA CallBegun ==
  ASSUME NEW w \in WP, ~Dead(w)', NEW why \in IllnessReasons \ {"NotIll"},
         \/ stack' = <<Ill(w, why)>>
         \/ stack' = <<Call("Shutdown", w)>>
         \/ stack' = <<Call("InitiateReplacement", w)>>
  PROVE  /\ Begun
         /\ \A i \in 1 .. Len(stack') :
              stack'[i].fn \notin {"Dereference", "ShutdownAll", "ReplaceAll"}
<1>1. PICK f : /\ stack' = <<f>> /\ f.w = w
               /\ f.fn \in {"MarkAsTerminallyIll", "Shutdown", "InitiateReplacement"}
               /\ f.fn = "MarkAsTerminallyIll" => f.why # "NotIll"
  BY DEF Ill, Call
<1>2. Len(stack') = 1 /\ stack'[1] = f /\ \A i \in 1 .. 1 : i = 1
  BY <1>1
<1>3. ~Replacing'
  BY <1>1, <1>2 DEF Replacing, Bottom
<1>4. wp'[w].m_State # "Free"
  BY DEF Dead
<1>5. FrameInv(1)'
  BY <1>1, <1>2, <1>3, <1>4 DEF FrameInv, Placed, Founded, Ordered
<1> QED
  BY <1>1, <1>2, <1>5 DEF Begun

\* The same when the handler is detached afterwards.
LEMMA DetachBegun ==
  ASSUME NEW w \in WP, ~Dead(w)', NEW why \in IllnessReasons \ {"NotIll"},
         \/ stack' = <<Call("DetachHandler", w)>>
         \/ stack' = <<Ill(w, why), Call("DetachHandler", w)>>
  PROVE  /\ Begun
         /\ \A i \in 1 .. Len(stack') :
              stack'[i].fn \notin {"Dereference", "ShutdownAll", "ReplaceAll"}
<1> DEFINE g == Call("DetachHandler", w)
           f == Ill(w, why)
<1>1. /\ g.fn = "DetachHandler" /\ f.fn = "MarkAsTerminallyIll" /\ f.w = w
      /\ f.why # "NotIll"
  BY DEF Ill, Call
<1>0. stack' = <<g>> \/ stack' = <<f, g>>
  OBVIOUS
<1> HIDE DEF f, g
<1>2. CASE stack' = <<g>>
  <2>1. Len(stack') = 1 /\ stack'[1] = g /\ \A i \in 1 .. 1 : i = 1
    BY <1>2
  <2>2. FrameInv(1)'
    BY <1>1, <2>1, Harmless
  <2> QED
    BY <1>1, <2>1, <2>2 DEF Begun
<1>3. CASE stack' = <<f, g>>
  <2>1. Len(stack') = 2 /\ stack'[1] = f /\ stack'[2] = g /\ \A i \in 1 .. 2 : i = 1 \/ i = 2
    BY <1>3
  <2>2. FrameInv(2)'
    BY <1>1, <2>1, Harmless
  <2>3. ~Replacing'
    BY <1>1, <2>1 DEF Replacing, Bottom
  <2>4. FrameInv(1)'
    BY <1>1, <2>1, <2>3 DEF FrameInv, Placed, Founded, Ordered
  <2> QED
    BY <1>1, <2>1, <2>2, <2>4 DEF Begun
<1> QED
  BY <1>0, <1>2, <1>3

\* The sender of a message that is not dropped.
LEMMA SenderLives ==
  ASSUME ObjectInv, NEW op \in PipeOps, TakeMessage(op)
  PROVE  /\ stack = <<>> /\ queue # <<>> /\ queue' = Tail(queue)
         /\ Head(queue).op \in PipeOps \cup {"DemandStart"}
         /\ Sender \in WP /\ ~Dead(Sender) /\ wp[Sender] \in WorkerProcesses
<1>1. TypeOK /\ AllQuiet(wp) /\ wp[Sender].m_pMessagingHandler = "attached"
  BY DEF ObjectInv, QuietInvariant, TakeMessage, Sender
<1>2. stack = <<>> /\ queue # <<>> /\ queue' = Tail(queue) /\ Head(queue).op = op
  BY DEF TakeMessage, Take, Idle
<1>3. Head(queue) \in WorkItems
  BY <1>1, <1>2 DEF TypeOK
<1>4. Sender \in WP
  BY <1>2, <1>3, OwnItems, TakeType DEF TakeMessage, Sender, ObjectInv, QuietInvariant
<1>5. ~Dead(Sender) /\ wp[Sender] \in WorkerProcesses
  BY <1>1, <1>4 DEF AllQuiet, Quiet, Dead, TypeOK
<1> QED
  BY <1>2, <1>4, <1>5

LEMMA PingReplyCore ==
  ASSUME TypeOK, NEW w \in WP, NEW failed, wp' = [wp EXCEPT ![w] = PingReplied(wp[w], failed)]
  PROVE  CoreKept
<1>1. wp[w] \in WorkerProcesses
  BY DEF TypeOK
<1>2. SameCore(PingReplied(wp[w], failed), wp[w])
  BY <1>1 DEF PingReplied, SameCore, WorkerProcesses
<1> QED
  BY <1>2, CoreStore

\* Messages, apart from the one that reports a successful start.
LEMMA MessageObject ==
  ASSUME ObjectInv, Message, ~HandleHresultOk
  PROVE  ObjectInv'
<1>0. Next /\ TypeOK /\ stack = <<>>
  BY OthersWhenIdle DEF ObjectInv, QuietInvariant, Next, ExecuteWorkItem
<1>1. CASE DropMessage
  <2>1. /\ stack' = <<>> /\ list' = list /\ queue # <<>> /\ queue' = Tail(queue)
        /\ Head(queue).op \in PipeOps \cup {"DemandStart"} /\ CoreKept
    BY <1>0, <1>1 DEF DropMessage, CoreKept, SameCore
  <2> QED
    BY <1>0, <2>1, NothingBegun, MessageWork
<1>2. PICK w : w = Sender
  OBVIOUS
<1>3. ASSUME NEW op \in PipeOps, TakeMessage(op), CoreKept, list' = list,
             \/ stack' = <<>>
             \/ \E why \in IllnessReasons \ {"NotIll"} : stack' = <<Ill(w, why)>>
             \/ stack' = <<Call("Shutdown", w)>>
             \/ stack' = <<Call("InitiateReplacement", w)>>
      PROVE  ObjectInv'
  <2>1. /\ queue # <<>> /\ queue' = Tail(queue)
        /\ Head(queue).op \in PipeOps \cup {"DemandStart"}
        /\ w \in WP /\ ~Dead(w)
    BY <1>2, <1>3, SenderLives
  <2>2. ~Dead(w)'
    BY <1>3, <2>1 DEF CoreKept, SameCore, Dead
  <2>3. "Crash" \in IllnessReasons \ {"NotIll"}
    BY DEF IllnessReasons
  <2>4. /\ Begun
        /\ \A i \in 1 .. Len(stack') :
             stack'[i].fn \notin {"Dereference", "ShutdownAll", "ReplaceAll"}
    BY <1>3, <2>1, <2>2, <2>3, NothingBegun, CallBegun
  <2> QED
    BY <1>0, <1>3, <2>1, <2>4, MessageWork
<1>4. ASSUME wp' = wp PROVE CoreKept
  BY <1>4 DEF CoreKept, SameCore
<1>5. {"Untrusted", "InternalError", "PassedBadHresult", "IPMError"} \subseteq IllnessReasons \ {"NotIll"}
  BY DEF IllnessReasons
<1>6. CASE HandleInvalid
  <2>1. TakeMessage("Invalid") /\ wp' = wp /\ list' = list /\ stack' = <<Ill(w, "Untrusted")>>
    BY <1>2, <1>6 DEF HandleInvalid
  <2> QED
    BY <1>3, <1>4, <1>5, <2>1 DEF PipeOps
<1>7. CASE HandleGetPid
  <2>1. /\ TakeMessage("GetPid") /\ list' = list
        /\ stack' = <<Ill(w, "Untrusted")>> \/ stack' = <<>>
        /\ wp' = wp \/ wp' = [wp EXCEPT ![w].m_Registered = TRUE]
    BY <1>0, <1>2, <1>7 DEF HandleGetPid
  <2>2. w \in WP
    BY <1>2, <2>1, SenderLives DEF PipeOps
  <2>3. CoreKept
    BY <1>0, <2>1, <2>2, CoreField
  <2> QED
    BY <1>3, <1>5, <2>1, <2>3 DEF PipeOps
<1>8. CASE HandleHresultBad
  <2>1. /\ TakeMessage("HresultBad") /\ wp' = wp /\ list' = list
        /\ stack' = <<Ill(w, "PassedBadHresult")>>
    BY <1>2, <1>8 DEF HandleHresultBad
  <2> QED
    BY <1>3, <1>4, <1>5, <2>1 DEF PipeOps
<1>9. CASE HandlePingReply
  <2>1. /\ TakeMessage("PingReply") /\ list' = list
        /\ stack' = <<Ill(w, "Untrusted")>> \/ stack' = <<Ill(w, "InternalError")>> \/ stack' = <<>>
        /\ wp' = wp \/ \E failed : wp' = [wp EXCEPT ![w] = PingReplied(wp[w], failed)]
    BY <1>2, <1>9 DEF HandlePingReply
  <2>2. w \in WP
    BY <1>2, <2>1, SenderLives DEF PipeOps
  <2>3. CoreKept
    BY <1>0, <1>4, <2>1, <2>2, PingReplyCore
  <2> QED
    BY <1>3, <1>5, <2>1, <2>3 DEF PipeOps
<1>10. CASE HandleRecycleRequest \/ HandleIdleRequest \/ HandleUnknownRequest
  <2>1. PICK op \in PipeOps :
          /\ TakeMessage(op) /\ wp' = wp /\ list' = list
          /\ \/ stack' = <<>>
             \/ stack' = <<Ill(w, "Untrusted")>>
             \/ stack' = <<Call("Shutdown", w)>>
             \/ stack' = <<Call("InitiateReplacement", w)>>
    BY <1>2, <1>10 DEF HandleRecycleRequest, HandleIdleRequest, HandleUnknownRequest,
         HandleShutdownRequest, PipeOps
  <2> QED
    BY <1>3, <1>4, <1>5, <2>1
<1>11. CASE HandleBrokenPipe \/ HandleIpmFault
  <2> DEFINE f == Ill(w, "IPMError")
             g == Call("DetachHandler", w)
  <2>1. PICK op \in PipeOps :
          /\ TakeMessage(op) /\ wp' = wp /\ list' = list
          /\ \/ stack' = <<>> \o <<g>>
             \/ stack' = <<f>> \o <<g>>
    BY <1>2, <1>11 DEF HandleBrokenPipe, HandleIpmFault, HandleDisconnect, PipeOps
  <2>2. stack' = <<g>> \/ stack' = <<f, g>>
    BY <2>1, Concats
  <2>3. /\ queue # <<>> /\ queue' = Tail(queue)
        /\ Head(queue).op \in PipeOps \cup {"DemandStart"}
        /\ w \in WP /\ ~Dead(w)
    BY <1>2, <2>1, SenderLives
  <2>4. ~Dead(w)' /\ CoreKept
    BY <1>4, <2>1, <2>3 DEF Dead
  <2>5. /\ Begun
        /\ \A i \in 1 .. Len(stack') :
             stack'[i].fn \notin {"Dereference", "ShutdownAll", "ReplaceAll"}
    BY <1>5, <2>2, <2>3, <2>4, DetachBegun
  <2> QED
    BY <1>0, <2>1, <2>3, <2>4, <2>5, MessageWork
<1> QED
  BY <1>1, <1>6, <1>7, <1>8, <1>9, <1>10, <1>11 DEF Message

-----------------------------------------------------------------------------
(***************************************************************************)
(* The work items of the callbacks, and the callbacks.                     *)
(***************************************************************************)
\* The reference of the item becomes one held by the call that executes it.
LEMMA ItemWork ==
  ASSUME ObjectInv, Next, stack = <<>>, list' = list, CoreKept,
         NEW op \in Handles, Take(op), NEW w \in WP, w = Head(queue).w,
         NEW why \in IllnessReasons \ {"NotIll"},
         \/ Done(w, <<>>)
         \/ Done(w, <<Ill(w, why)>>)
         \/ Done(w, <<Call("Terminate", w)>>) /\ wp[w].m_State = "ShutdownPending"
  PROVE  ObjectInv'
<1>0. /\ TypeOK /\ TypeOK' /\ queue \in Seq(WorkItems)
      /\ queue # <<>> /\ queue' = Tail(queue) /\ Head(queue).op = op
  BY NextType DEF ObjectInv, QuietInvariant, TypeOK, Take
<1>1. Head(queue) \in WorkItems
  BY <1>0
<1>2. \A v \in WP : /\ Queued(v) = Queued(v)' + (IF v = w THEN 1 ELSE 0)
                    /\ Queued(v) \in Nat /\ Queued(v)' \in Nat
  <2> TAKE v \in WP
  <2>1. Head(queue) \in Own(v) <=> v = w
    BY <1>0, <1>1, OwnItems
  <2> QED
    BY <1>0, <2>1, QueueTaken
<1>3. wp[w].m_State # "Free"
  <2>1. Queued(w) >= 1
    BY <1>2
  <2> QED
    BY <2>1, ReferredTo
<1> DEFINE d == Call("Dereference", w)
           f == Ill(w, why)
           g == Call("Terminate", w)
<1>4. /\ d.fn = "Dereference" /\ d.w = w /\ d = Call("Dereference", w)
      /\ f.fn = "MarkAsTerminallyIll" /\ f.w = w /\ f.why # "NotIll"
      /\ g.fn = "Terminate" /\ g.w = w
  BY DEF Call, Ill
<1>5. d \in Frames /\ f \in Frames /\ g \in Frames
  BY WorkerFrame, IllFrame DEF WorkerProcessMethods
<1>6. /\ \A v \in WP : d = Call("Dereference", v) <=> v = w
      /\ \A v \in WP : f # Call("Dereference", v) /\ g # Call("Dereference", v)
  BY DEF Call, Ill
<1>7. \/ stack' = <<>> \o <<d>> \/ stack' = <<f>> \o <<d>>
      \/ stack' = <<g>> \o <<d>> /\ wp[w].m_State = "ShutdownPending"
  BY DEF Done
<1> HIDE DEF d, f, g
<1>8. \/ stack' = <<d>> \/ stack' = <<f, d>>
      \/ stack' = <<g, d>> /\ wp[w].m_State = "ShutdownPending"
  BY <1>7, Concats
<1>9. wp'[w].m_State = wp[w].m_State /\ wp[w] \in WorkerProcesses
  BY <1>0 DEF CoreKept, SameCore, TypeOK
<1>10. stack' = <<d>> \/ \E e \in {f, g} : stack' = <<e, d>>
  BY <1>8
<1>11. \A v \in WP : Held(v)' = IF v = w THEN 1 ELSE 0
  <2> TAKE v \in WP
  <2> DEFINE S == {Call("Dereference", v)}
  <2>1. (d \in S <=> v = w) /\ f \notin S /\ g \notin S
    BY <1>6
  <2>2. Held(v)' = Count(stack', S)
    BY DEF Held
  <2> HIDE DEF S
  <2>3. CASE stack' = <<d>>
    <3>1. Count(<<d>>, S) = IF d \in S THEN 1 ELSE 0
      BY CountSmall
    <3> QED
      BY <2>1, <2>2, <2>3, <3>1
  <2>4. ASSUME NEW e \in {f, g}, stack' = <<e, d>>
        PROVE  Held(v)' = IF v = w THEN 1 ELSE 0
    <3>1. e \in Frames /\ e \notin S
      BY <1>5, <2>1
    <3>2. Count(<<e, d>>, S) = (IF e \in S THEN 1 ELSE 0) + (IF d \in S THEN 1 ELSE 0)
      BY <1>5, <3>1, CountPair
    <3>3. Count(<<e, d>>, S) = IF v = w THEN 1 ELSE 0
      BY <2>1, <3>1, <3>2
    <3> QED
      BY <2>2, <2>4, <3>3
  <2> QED
    BY <1>10, <2>3, <2>4
<1>12. /\ Living /\ Tallied
       /\ Starting'
  <2>1. Living
    BY DEF Living, CoreKept, SameCore, Dead, Old
  <2>2. Starting'
    BY <2>1, StartingIdle DEF CoreKept, SameCore
  <2>3. Tallied
    <3> SUFFICES ASSUME NEW v \in WP
                 PROVE  /\ wp'[v].m_RefCount + Queued(v) = wp[v].m_RefCount + Queued(v)' + Held(v)'
                        /\ Handled(v)' = Handled(v)
      BY DEF Tallied
    <3>1. /\ Handled(v)' = Handled(v) /\ wp'[v].m_RefCount = wp[v].m_RefCount
          /\ wp[v].m_RefCount \in Int
      BY <1>0 DEF Handled, CoreKept, SameCore, TypeOK, WorkerProcesses
    <3>2. PICK x \in Int : x = IF v = w THEN 1 ELSE 0
      OBVIOUS
    <3>3. Queued(v) = Queued(v)' + x /\ Held(v)' = x /\ Queued(v)' \in Int
      BY <1>2, <1>11, <3>2
    <3> QED
      BY <3>1, <3>3
  <2> QED
    BY <2>1, <2>2, <2>3
<1>13. ~Replacing' /\ WalkListed' /\ WalkCovered' /\ Begun
  <2>1. CASE stack' = <<d>>
    <3>1. Len(stack') = 1 /\ stack'[1] = d /\ \A i \in 1 .. 1 : i = 1
      BY <2>1
    <3>2. ~Replacing'
      BY <1>4, <3>1 DEF Replacing, Bottom
    <3>3. FrameInv(1)'
      BY <1>4, <3>1 DEF FrameInv, Placed, Founded, Ordered, Danger
    <3> QED
      BY <1>4, <3>1, <3>2, <3>3 DEF WalkListed, WalkCovered, Begun
  <2>2. ASSUME NEW e \in {f, g}, stack' = <<e, d>>
        PROVE  ~Replacing' /\ WalkListed' /\ WalkCovered' /\ Begun
    <3>1. /\ Len(stack') = 2 /\ stack'[1] = e /\ stack'[2] = d
          /\ \A i \in 1 .. 2 : i = 1 \/ i = 2
      BY <2>2
    <3>2. ~Replacing'
      BY <1>4, <3>1 DEF Replacing, Bottom
    <3>3. FrameInv(2)'
      BY <1>4, <3>1 DEF FrameInv, Placed, Founded, Ordered, Danger
    <3>4. ~Dead(w)' \/ KeptBelow(w, 1)'
      <4>1. CASE wp[w].m_State = "DeletePending"
        <5>1. 2 \in 1 + 1 .. 2
          OBVIOUS
        <5> QED
          BY <1>4, <1>9, <3>1, <4>1, <5>1 DEF KeptBelow
      <4>2. CASE wp[w].m_State # "DeletePending"
        BY <1>3, <1>9, <4>2 DEF Dead
      <4> QED
        BY <4>1, <4>2
    <3>5. CASE e = f
      <4>1. stack'[1] = f
        BY <3>1, <3>5
      <4>2. FrameInv(1)'
        BY <1>4, <3>2, <3>4, <4>1 DEF FrameInv, Placed, Founded, Ordered
      <4> QED
        BY <1>4, <3>1, <3>2, <3>3, <4>1, <4>2 DEF WalkListed, WalkCovered, Begun
    <3>6. CASE e = g
      <4>1. stack'[1] = g
        BY <3>1, <3>6
      <4>2. \A j \in 1 .. Len(stack') : At(j, "Terminate", w)' => j = 1
        BY <1>4, <3>1 DEF At
      <4>3. Placed(1)' /\ Ordered(1)'
        BY <1>4, <3>2, <4>1 DEF Placed, Ordered
      <4>4. Founded(1)'
        BY <1>4, <3>4, <4>1, <4>2 DEF Founded
      <4>5. FrameInv(1)'
        BY <4>3, <4>4 DEF FrameInv
      <4> QED
        BY <1>4, <3>1, <3>2, <3>3, <4>1, <4>5 DEF WalkListed, WalkCovered, Begun
    <3> QED
      BY <3>5, <3>6
  <2> QED
    BY <1>10, <2>1, <2>2
<1> QED
  BY <1>12, <1>13, IdleStep

LEMMA PingSentCore ==
  ASSUME TypeOK, NEW w \in WP, NEW outcome, wp' = [wp EXCEPT ![w] = PingSent(wp[w], outcome)]
  PROVE  CoreKept
<1>1. wp[w] \in WorkerProcesses
  BY DEF TypeOK
<1>2. SameCore(PingSent(wp[w], outcome), wp[w])
  BY <1>1 DEF PingSent, SameCore, WorkerProcesses
<1> QED
  BY <1>2, CoreStore

LEMMA WorkItemObject ==
  ASSUME ObjectInv, WorkerProcessWorkItem
  PROVE  ObjectInv'
<1>0. Next /\ TypeOK /\ stack = <<>>
  BY OthersWhenIdle DEF ObjectInv, QuietInvariant, Next, ExecuteWorkItem
<1>1. PICK w : w = Head(queue).w
  OBVIOUS
<1>2. ASSUME NEW op \in Handles, TakeOwn(op) PROVE w \in WP /\ list' = list /\ Take(op)
  BY <1>0, <1>1, <1>2, TakeType DEF TakeOwn
<1>3. /\ "Startup" \in Handles /\ "Shutdown" \in Handles /\ "SendPing" \in Handles
      /\ "PingResponse" \in Handles /\ "Process" \in Handles
  BY DEF Handles
<1>4. {"StartupTookTooLong", "ShutdownTookTooLong", "InternalError", "PingFailure", "Crash"}
        \subseteq IllnessReasons \ {"NotIll"}
  BY DEF IllnessReasons
<1>5. ASSUME NEW op \in Handles, TakeOwn(op), CoreKept, NEW why \in IllnessReasons \ {"NotIll"},
             \/ Done(w, <<>>)
             \/ Done(w, <<Ill(w, why)>>)
             \/ Done(w, <<Call("Terminate", w)>>) /\ wp[w].m_State = "ShutdownPending"
      PROVE  ObjectInv'
  <2>1. w \in WP /\ list' = list /\ Take(op)
    BY <1>2, <1>5
  <2> QED
    BY <1>0, <1>1, <1>5, <2>1, ItemWork
<1>6. ASSUME wp' = wp PROVE CoreKept
  BY <1>6 DEF CoreKept, SameCore
<1>7. CASE StartupTimerExpired
  <2>1. /\ TakeOwn("Startup") /\ wp' = wp
        /\ Done(w, <<>>) \/ Done(w, <<Ill(w, "StartupTookTooLong")>>)
    BY <1>1, <1>7 DEF StartupTimerExpired
  <2> QED
    BY <1>3, <1>4, <1>5, <1>6, <2>1
<1>8. CASE ShutdownTimerExpired
  <2>1. /\ TakeOwn("Shutdown") /\ wp' = wp
        /\ Done(w, <<>>) \/ Done(w, <<Ill(w, "ShutdownTookTooLong")>>)
    BY <1>1, <1>8 DEF ShutdownTimerExpired
  <2> QED
    BY <1>3, <1>4, <1>5, <1>6, <2>1
<1>9. CASE SendPing
  <2>1. /\ TakeOwn("SendPing")
        /\ Done(w, <<>>) \/ Done(w, <<Ill(w, "InternalError")>>)
        /\ \/ wp' = [wp EXCEPT ![w].handle["SendPing"] = "NULL"]
           \/ \E outcome : wp' = [wp EXCEPT ![w] = PingSent(wp[w], outcome)]
    BY <1>1, <1>9 DEF SendPing
  <2>2. CoreKept
    BY <1>0, <1>2, <1>3, <2>1, CoreField, PingSentCore
  <2> QED
    BY <1>3, <1>4, <1>5, <2>1, <2>2
<1>10. CASE PingResponseTimerExpired
  <2>1. /\ TakeOwn("PingResponse")
        /\ Done(w, <<>>) \/ Done(w, <<Ill(w, "PingFailure")>>)
        /\ wp' = [wp EXCEPT ![w].handle["PingResponse"] = "NULL"]
    BY <1>1, <1>10 DEF PingResponseTimerExpired
  <2>2. CoreKept
    BY <1>0, <1>2, <1>3, <2>1, CoreField
  <2> QED
    BY <1>3, <1>4, <1>5, <2>1, <2>2
<1>11. CASE ProcessHandleSignaled
  <2>1. /\ TakeOwn("Process")
        /\ Done(w, ProcessEnded(w))
        /\ wp' = [wp EXCEPT ![w].m_ProcessAlive = FALSE]
    BY <1>1, <1>11 DEF ProcessHandleSignaled
  <2>2. CoreKept
    BY <1>0, <1>2, <1>3, <2>1, CoreField
  <2>3. \/ Done(w, <<>>) \/ Done(w, <<Ill(w, "Crash")>>)
        \/ Done(w, <<Call("Terminate", w)>>) /\ wp[w].m_State = "ShutdownPending"
    BY <2>1 DEF ProcessEnded
  <2> QED
    BY <1>3, <1>4, <1>5, <2>1, <2>2, <2>3
<1> QED
  BY <1>7, <1>8, <1>9, <1>10, <1>11 DEF WorkerProcessWorkItem

\* A callback takes a reference for the item it queues.
LEMMA CallbackObject ==
  ASSUME ObjectInv, NEW w \in WP, NEW h \in Handles, Callback(w, h)
  PROVE  ObjectInv'
<1>0. Next /\ TypeOK /\ TypeOK' /\ stack = <<>> /\ stack' = <<>> /\ list' = list
  <2>1. Next /\ TypeOK
    BY DEF ObjectInv, QuietInvariant, Next
  <2> QED
    BY <2>1, NextType DEF Callback, Idle
<1>1. wp \in [WP -> WorkerProcesses] /\ wp[w] \in WorkerProcesses /\ AllQuiet(wp)
  BY <1>0 DEF TypeOK, ObjectInv, QuietInvariant
<1>2. ~Dead(w)
  <2>1. wp[w].handle # NoHandles
    BY DEF Callback, NoHandles
  <2> QED
    BY <1>1, <2>1 DEF AllQuiet, Quiet, Dead
<1> DEFINE tbl == [wp EXCEPT ![w].handle[h] = "fired"]
<1>3. tbl \in [WP -> WorkerProcesses]
  BY <1>1, FieldType DEF HandleStates
<1>4. /\ \A v \in WP : v # w => tbl[v] = wp[v]
      /\ SameCore(tbl[w], wp[w])
  <2>1. tbl[w] = [wp[w] EXCEPT !.handle = [wp[w].handle EXCEPT ![h] = "fired"]]
    BY <1>1
  <2>2. SameCore([wp[w] EXCEPT !.handle = [wp[w].handle EXCEPT ![h] = "fired"]], wp[w])
    BY <1>1, CoreRecord
  <2>3. \A v \in WP : v # w => tbl[v] = wp[v]
    BY <1>1
  <2> QED
    BY <2>1, <2>2, <2>3
<1>5. wp' = Referenced(tbl, w)
  BY DEF Callback
<1> HIDE DEF tbl
<1>6. /\ \A v \in WP : v # w => wp'[v] = wp[v]
      /\ wp'[w].m_RefCount = wp[w].m_RefCount + 1
      /\ wp'[w].m_State = wp[w].m_State
      /\ wp'[w].m_TerminalIllReason = wp[w].m_TerminalIllReason
      /\ wp'[w].m_pWorkerProcessToReplace = wp[w].m_pWorkerProcessToReplace
      /\ wp'[w].m_pMessagingHandler = wp[w].m_pMessagingHandler
  BY <1>3, <1>4, <1>5, ReferencedEffect DEF SameCore
<1>7. Living
  <2> SUFFICES ASSUME NEW v \in WP
               PROVE  /\ Dead(v)' <=> Dead(v)
                      /\ Old(v)' = Old(v)
                      /\ wp'[v].m_State = "Free" => wp[v].m_State = "Free"
                      /\ wp[v].m_State = "Free" => SameCore(wp'[v], wp[v])
    BY DEF Living
  <2>1. CASE v = w
    BY <1>2, <1>6, <2>1 DEF Dead, Old
  <2>2. CASE v # w
    BY <1>6, <2>2 DEF Dead, Old, SameCore
  <2> QED
    BY <2>1, <2>2
<1>8. Starting'
  <2>1. \A v \in WP : wp'[v].m_State = wp[v].m_State
    BY <1>6
  <2> QED
    BY <1>0, <1>7, <2>1, StartingIdle
<1>9. Tallied
  <2> SUFFICES ASSUME NEW v \in WP
               PROVE  /\ wp'[v].m_RefCount + Queued(v) = wp[v].m_RefCount + Queued(v)' + Held(v)'
                      /\ Handled(v)' = Handled(v)
    BY DEF Tallied
  <2>1. Handled(v)' = Handled(v) /\ wp[v].m_RefCount \in Int
    BY <1>0, <1>6 DEF Handled, TypeOK, WorkerProcesses
  <2>2. Held(v)' = 0
    BY <1>0, CountSmall DEF Held
  <2> DEFINE x == Item(h, w)
  <2>3. x \in WorkItems /\ x.op = h /\ x.w = w /\ queue' = Append(queue, x)
    BY DEF Item, WorkItems, Callback, Enqueue
  <2> HIDE DEF x
  <2>4. x \in Own(v) <=> v = w
    BY <2>3, OwnItems
  <2>5. PICK y \in Int : y = IF v = w THEN 1 ELSE 0
    OBVIOUS
  <2>6. Queued(v)' = Queued(v) + y /\ Queued(v) \in Int
    BY <1>0, <2>3, <2>4, <2>5, QueueGrown
  <2>7. wp'[v].m_RefCount = wp[v].m_RefCount + y
    BY <1>6, <2>1, <2>5
  <2> QED
    BY <2>1, <2>2, <2>6, <2>7
<1>10. Begun /\ WalkListed' /\ WalkCovered'
  <2>1. stack' \in Seq(Frames) /\ \A i \in 1 .. Len(stack') : FALSE
    BY <1>0
  <2> QED
    BY <2>1, NoWalks DEF Begun
<1> QED
  BY <1>0, <1>7, <1>8, <1>9, <1>10, IdleStep

\* The process at the other end of the pipe changes nothing of what is counted.
LEMMA ProcessStepObject ==
  ASSUME ObjectInv, NEW w \in WP, ProcessStep(w)
  PROVE  ObjectInv'
<1>0. /\ Next /\ TypeOK /\ TypeOK' /\ stack = <<>> /\ stack' = <<>> /\ list' = list
      /\ queue' = queue \/ \E op \in PipeOps : queue' = Append(queue, Item(op, w))
  <2>1. Next /\ TypeOK /\ stack = <<>>
    BY OthersWhenIdle DEF ObjectInv, QuietInvariant, Next
  <2>2. stack' = stack /\ list' = list
    BY DEF ProcessStep, ProcessConnects, ProcessStarts, ProcessFailsToStart,
         ProcessAnswersPing, ProcessAsks, ProcessMisbehaves, ProcessExits, ProcessCrashes,
         PipeBreaks, PipeFaults, Says
  <2>3. queue' = queue \/ \E op \in PipeOps : queue' = Append(queue, Item(op, w))
    BY DEF ProcessStep, ProcessConnects, ProcessStarts, ProcessFailsToStart,
         ProcessAnswersPing, ProcessAsks, ProcessMisbehaves, ProcessExits, ProcessCrashes,
         PipeBreaks, PipeFaults, Says, Enqueue, PipeOps
  <2> QED
    BY <2>1, <2>2, <2>3, NextType
<1>1. CoreKept
  <2>1. \/ wp' = wp
        \/ \E v : \/ wp' = [wp EXCEPT ![w].process.phase = v]
                  \/ wp' = [wp EXCEPT ![w].process.inbox = v]
                  \/ wp' = [wp EXCEPT ![w].process.pipe = v]
    BY DEF ProcessStep, ProcessConnects, ProcessStarts, ProcessFailsToStart,
         ProcessAnswersPing, ProcessAsks, ProcessMisbehaves, ProcessExits, ProcessCrashes,
         PipeBreaks, PipeFaults
  <2> QED
    BY <1>0, <2>1, CoreField
<1>2. ASSUME NEW v \in WP PROVE Queued(v)' = Queued(v)
  <2>1. CASE queue' = queue
    BY <2>1 DEF Queued
  <2>2. ASSUME NEW op \in PipeOps, queue' = Append(queue, Item(op, w))
        PROVE  Queued(v)' = Queued(v)
    <3> DEFINE x == Item(op, w)
    <3>1. x \in WorkItems /\ x.op = op /\ queue' = Append(queue, x)
      BY <2>2 DEF Item, WorkItems
    <3> HIDE DEF x
    <3>2. x \notin Own(v)
      BY <3>1, OwnItems
    <3> QED
      BY <1>0, <3>1, <3>2, QueueGrown
  <2> QED
    BY <1>0, <2>1, <2>2
<1>3. /\ Begun /\ WalkListed' /\ WalkCovered'
      /\ \A i \in 1 .. Len(stack') : stack'[i].fn # "Dereference"
  <2>1. stack' \in Seq(Frames) /\ \A i \in 1 .. Len(stack') : FALSE
    BY <1>0
  <2> QED
    BY <2>1, NoWalks DEF Begun
<1> QED
  BY <1>0, <1>1, <1>2, <1>3, IdleCore

-----------------------------------------------------------------------------
(***************************************************************************)
(* A process reports a successful start.                                   *)
(***************************************************************************)
LEMMA RunningEffect ==
  ASSUME TypeOK, NEW w \in WP, NEW r, NEW s,
         r = [wp[w] EXCEPT !.m_State = "Running",
                 !.handle = [wp[w].handle EXCEPT !["Startup"] = "NULL"]],
         s = r \/ s = [r EXCEPT !.m_NotifiedAppPool = TRUE],
         wp' = [wp EXCEPT ![w] = s]
  PROVE  /\ \A v \in WP : v # w => wp'[v] = wp[v]
         /\ wp'[w].m_State = "Running"
         /\ wp'[w].m_pWorkerProcessToReplace = wp[w].m_pWorkerProcessToReplace
         /\ wp'[w].m_RefCount = wp[w].m_RefCount
         /\ wp'[w].m_pMessagingHandler = wp[w].m_pMessagingHandler
<1>1. wp[w] \in WorkerProcesses
  BY DEF TypeOK
<1>2. /\ r.m_State = "Running" /\ r.m_RefCount = wp[w].m_RefCount
      /\ r.m_pWorkerProcessToReplace = wp[w].m_pWorkerProcessToReplace
      /\ r.m_pMessagingHandler = wp[w].m_pMessagingHandler
  BY <1>1 DEF WorkerProcesses
<1>3. /\ s.m_State = r.m_State /\ s.m_RefCount = r.m_RefCount
      /\ s.m_pWorkerProcessToReplace = r.m_pWorkerProcessToReplace
      /\ s.m_pMessagingHandler = r.m_pMessagingHandler
  <2>1. CASE s = r
    BY <2>1
  <2>2. CASE s = [r EXCEPT !.m_NotifiedAppPool = TRUE]
    BY <1>1, <2>2 DEF WorkerProcesses
  <2> QED
    BY <2>1, <2>2
<1>4. /\ s.m_State = "Running" /\ s.m_RefCount = wp[w].m_RefCount
      /\ s.m_pWorkerProcessToReplace = wp[w].m_pWorkerProcessToReplace
      /\ s.m_pMessagingHandler = wp[w].m_pMessagingHandler
  BY <1>2, <1>3
<1>5. wp'[w] = s /\ \A v \in WP : v # w => wp'[v] = wp[v]
  BY DEF TypeOK
<1> QED
  BY <1>4, <1>5

\* The end of a startup stands at the bottom, below the calls that let go of a predecessor.
LEMMA StartupBegun ==
  ASSUME TypeOK, NEW w \in WP, Old(w)' = Old(w),
         stack' = ReleasePredecessor(w) \o <<Call("StartupTail", w)>>
  PROVE  /\ Begun /\ stack' # <<>> /\ At(Len(stack), "StartupTail", w)'
         /\ stack' \in Seq(Frames)
         /\ \A i \in 1 .. Len(stack') :
              stack'[i].fn \notin {"Dereference", "ShutdownAll", "ReplaceAll"}
<1> DEFINE last == Call("StartupTail", w)
<1>1. last \in Frames /\ last.fn = "StartupTail" /\ last.w = w
  BY WorkerFrame DEF WorkerProcessMethods, Call
<1>2. stack' = ReleasePredecessor(w) \o <<last>>
  OBVIOUS
<1> HIDE DEF last
<1>3. /\ stack' \in Seq(Frames)
      /\ Old(w) = NoWP => Len(stack') = 1 /\ stack'[1] = last
      /\ Old(w) # NoWP =>
           /\ Len(stack') = 3 /\ stack'[1] = Call("Shutdown", Old(w))
           /\ stack'[2] = Call("DropPredecessor", w) /\ stack'[3] = last
  BY <1>1, <1>2, ReleaseShape
<1>4. CASE Old(w) = NoWP
  <2>1. Len(stack') = 1 /\ stack'[1] = last /\ \A i \in 1 .. 1 : i = 1
    BY <1>3, <1>4
  <2>2. FrameInv(1)'
    BY <1>1, <1>4, <2>1 DEF FrameInv, Placed, Founded, Ordered, Danger
  <2> QED
    BY <1>1, <1>3, <2>1, <2>2 DEF Begun, At
<1>5. CASE Old(w) # NoWP
  <2>1. /\ Len(stack') = 3 /\ stack'[1].fn = "Shutdown" /\ stack'[2].fn = "DropPredecessor"
        /\ stack'[2].w = w /\ stack'[3] = last
    BY <1>3, <1>5 DEF Call
  <2>2. \A i \in 1 .. 3 : i = 1 \/ i = 2 \/ i = 3
    OBVIOUS
  <2>3. ~Replacing'
    BY <1>1, <2>1 DEF Replacing, Bottom
  <2>4. FrameInv(1)'
    BY <2>1, <2>3 DEF FrameInv, Placed, Founded, Ordered
  <2>5. FrameInv(2)'
    BY <2>1, Harmless
  <2>6. FrameInv(3)'
    <3>1. 3 - 1 = 2 /\ 3 > 1
      OBVIOUS
    <3>2. At(3 - 1, "DropPredecessor", w)'
      BY <2>1, <3>1 DEF At
    <3> QED
      BY <1>1, <2>1, <3>1, <3>2 DEF FrameInv, Placed, Founded, Ordered, Danger
  <2> QED
    BY <1>1, <1>3, <2>1, <2>2, <2>4, <2>5, <2>6 DEF Begun, At
<1> QED
  BY <1>4, <1>5

LEMMA HresultOkObject ==
  ASSUME ObjectInv, HandleHresultOk
  PROVE  ObjectInv'
<1>0. Next /\ TypeOK /\ TypeOK' /\ list' = list /\ TakeMessage("HresultOk")
  <2>1. Next /\ TypeOK
    BY DEF ObjectInv, QuietInvariant, Next, ExecuteWorkItem, Message
  <2> QED
    BY <2>1, NextType DEF HandleHresultOk
<1>1. PICK w : w = Sender
  OBVIOUS
<1>2. /\ stack = <<>> /\ queue # <<>> /\ queue' = Tail(queue)
      /\ Head(queue).op \in PipeOps \cup {"DemandStart"}
      /\ w \in WP /\ ~Dead(w)
  BY <1>0, <1>1, SenderLives DEF PipeOps
<1>3. CASE wp[w].m_State \notin {"RegistrationPending", "RegistrationPendingShutdownPending"}
  <2>1. wp' = wp /\ stack' = <<Ill(w, "Untrusted")>>
    BY <1>1, <1>3 DEF HandleHresultOk
  <2>2. CoreKept /\ ~Dead(w)'
    BY <1>2, <2>1 DEF CoreKept, SameCore, Dead
  <2>3. "Untrusted" \in IllnessReasons \ {"NotIll"}
    BY DEF IllnessReasons
  <2> QED
    BY <1>0, <1>2, <2>1, <2>2, <2>3, CallBegun, MessageWork
<1>4. CASE wp[w].m_State \in {"RegistrationPending", "RegistrationPendingShutdownPending"}
  <2> DEFINE r == [wp[w] EXCEPT !.m_State = "Running",
                     !.handle = [wp[w].handle EXCEPT !["Startup"] = "NULL"]]
  <2>1. /\ wp' = [wp EXCEPT ![w] = r] \/ wp' = [wp EXCEPT ![w] = [r EXCEPT !.m_NotifiedAppPool = TRUE]]
        /\ \/ stack' = <<Call("Shutdown", w)>>
           \/ stack' = ReleasePredecessor(w) \o <<Call("StartupTail", w)>>
    BY <1>1, <1>4 DEF HandleHresultOk
  <2>2. /\ \A v \in WP : v # w => wp'[v] = wp[v]
        /\ wp'[w].m_State = "Running"
        /\ wp'[w].m_pWorkerProcessToReplace = wp[w].m_pWorkerProcessToReplace
        /\ wp'[w].m_RefCount = wp[w].m_RefCount
        /\ wp'[w].m_pMessagingHandler = wp[w].m_pMessagingHandler
    BY <1>0, <1>2, <2>1, RunningEffect
  <2>3. Old(w)' = Old(w) /\ ~Dead(w)'
    BY <2>2 DEF Old, Dead
  <2>4. "Crash" \in IllnessReasons \ {"NotIll"}
    BY DEF IllnessReasons
  <2>5. /\ Begun
        /\ \A i \in 1 .. Len(stack') :
             stack'[i].fn \notin {"Dereference", "ShutdownAll", "ReplaceAll"}
    BY <1>0, <1>2, <2>1, <2>3, <2>4, CallBegun, StartupBegun
  <2>6. WalkListed' /\ WalkCovered' /\ stack' \in Seq(Frames)
    BY <1>0, <2>5, NoWalks DEF TypeOK
  <2>7. Living
    <3> SUFFICES ASSUME NEW v \in WP
                 PROVE  /\ Dead(v)' <=> Dead(v)
                        /\ Old(v)' = Old(v)
                        /\ wp'[v].m_State = "Free" => wp[v].m_State = "Free"
                        /\ wp[v].m_State = "Free" => SameCore(wp'[v], wp[v])
      BY DEF Living
    <3>1. CASE v = w
      BY <1>2, <2>2, <2>3, <3>1 DEF Dead
    <3>2. CASE v # w
      BY <2>2, <3>2 DEF Dead, Old, SameCore
    <3> QED
      BY <3>1, <3>2
  <2>8. Tallied
    <3> SUFFICES ASSUME NEW v \in WP
                 PROVE  /\ wp'[v].m_RefCount + Queued(v) = wp[v].m_RefCount + Queued(v)' + Held(v)'
                        /\ Handled(v)' = Handled(v)
      BY DEF Tallied
    <3>1. /\ Handled(v)' = Handled(v) /\ wp[v].m_RefCount \in Int
          /\ wp'[v].m_RefCount = wp[v].m_RefCount
      BY <1>0, <2>2 DEF Handled, TypeOK, WorkerProcesses
    <3>2. Held(v)' = 0
      BY <2>5, <2>6, CountNone DEF Held
    <3>3. Head(queue) \notin Own(v)
      <4>1. Head(queue) \in WorkItems
        BY <1>0, <1>2 DEF TypeOK
      <4> QED
        BY <1>2, <4>1, OwnItems
    <3>4. Queued(v)' = Queued(v) /\ Queued(v) \in Int
      BY <1>0, <1>2, <3>3, QueueTaken
    <3> QED
      BY <3>1, <3>2, <3>4
  <2>9. Starting'
    <3> SUFFICES ASSUME NEW v \in WP, wp'[v].m_State = "Running", Old(v)' # NoWP
                 PROVE  /\ stack' # <<>>
                        /\ \/ At(Len(stack), "StartupTail", v)'
                           \/ Len(stack') = 1 /\ At(1, "Shutdown", v)'
      BY DEF Starting
    <3>1. v = w
      <4> SUFFICES ASSUME v # w PROVE FALSE
        OBVIOUS
      <4>1. wp[v].m_State = "Running" /\ Old(v) # NoWP
        BY <2>2 DEF Old
      <4> QED
        BY <1>2, <4>1 DEF ObjectInv, ListInv, Starting
    <3>2. CASE stack' = <<Call("Shutdown", w)>>
      BY <3>1, <3>2 DEF At, Call
    <3>3. CASE stack' = ReleasePredecessor(w) \o <<Call("StartupTail", w)>>
      BY <1>0, <1>2, <2>3, <3>1, <3>3, StartupBegun
    <3> QED
      BY <2>1, <3>2, <3>3
  <2> QED
    BY <1>0, <1>2, <2>5, <2>6, <2>7, <2>8, <2>9, IdleStep
<1> QED
  BY <1>3, <1>4

-----------------------------------------------------------------------------
(***************************************************************************)
(* Demand start.                                                           *)
(***************************************************************************)
LEMMA JoinedSum ==
  ASSUME NEW r \in Int, NEW s \in Int, NEW l \in Int, NEW h \in Int, NEW c \in Int,
         NEW q \in Int, NEW l1 \in Int, NEW c1 \in Int,
         r = s + (l1 - l) + (c1 - c), s = l + h + q + c + 0
  PROVE  r = l1 + h + q + c1 + 0
  OBVIOUS

LEMMA DemandStartCreates ==
  ASSUME ObjectInv, DemandStart, NEW new \in FreeMemory,
         wp' = Constructed(new, "DemandStart", NoWP), list' = <<new>> \o list,
         stack' = <<Call("Initialize", new)>>
  PROVE  ObjectInv'
<1>0. /\ Next /\ TypeOK /\ TypeOK' /\ stack = <<>> /\ queue # <<>> /\ queue' = Tail(queue)
      /\ Head(queue).op = "DemandStart" /\ ListInv /\ RefCountExact /\ QuietInvariant'
  <2>1. Next /\ TypeOK /\ ListInv /\ RefCountExact /\ QuietInvariant
    BY DEF ObjectInv, QuietInvariant, Next, ExecuteWorkItem
  <2> QED
    BY <2>1, NextType, NextQuiet DEF DemandStart, Take, Idle
<1>1. new \in WP /\ wp[new].m_State = "Free" /\ NoWP # new
  BY PointerAssumption DEF FreeMemory
<1>2. Joins(new, NoWP)
  BY <1>1, Creation
<1> DEFINE f == Call("Initialize", new)
<1>3. f.fn = "Initialize" /\ f.w = new /\ stack' = <<f>>
  BY DEF Call
<1> HIDE DEF f
<1>4. Len(stack') = 1 /\ stack'[1] = f /\ (\A i \in 1 .. 1 : i = 1) /\ stack' \in Seq(Frames)
  BY <1>0, <1>3 DEF TypeOK
<1>5. ~Replacing'
  BY <1>3, <1>4 DEF Replacing, Bottom
<1>6. FramesInv'
  <2>1. FrameInv(1)'
    BY <1>2, <1>3, <1>4, <1>5 DEF FrameInv, Placed, Founded, Ordered, Joins
  <2> QED
    BY <1>4, <2>1 DEF FramesInv
<1>7. WalkListed' /\ WalkCovered'
  BY <1>3, <1>4, <1>5 DEF WalkListed, WalkCovered
<1>8. \A v \in WP : ~Terminating(v) /\ ~Terminating(v)'
  BY <1>0, <1>3, <1>4 DEF Terminating, At
<1>9. Membership'
  <2> SUFFICES ASSUME NEW v \in WP
               PROVE  InList(v)' <=> ~Dead(v)' \/ Terminating(v)'
    BY DEF Membership
  <2>1. InList(v) <=> ~Dead(v)
    BY <1>0, <1>8 DEF ListInv, Membership
  <2>2. InList(v)' <=> InList(v) \/ v = new
    BY <1>2 DEF Joins
  <2>3. CASE v = new
    BY <1>2, <2>2, <2>3 DEF Joins, Dead
  <2>4. CASE v # new
    BY <1>2, <1>8, <2>1, <2>2, <2>4 DEF Joins, Dead
  <2> QED
    BY <2>3, <2>4
<1>10. Starting'
  <2> SUFFICES ASSUME NEW v \in WP, wp'[v].m_State = "Running", Old(v)' # NoWP
               PROVE  FALSE
    BY DEF Starting
  <2>1. v # new
    BY <1>2 DEF Joins
  <2>2. wp[v].m_State = "Running" /\ Old(v) # NoWP
    BY <1>2, <2>1 DEF Joins
  <2> QED
    BY <1>0, <2>2 DEF ListInv, Starting
<1>11. ListInv' /\ Empties'
  BY <1>2, <1>7, <1>9, <1>10 DEF ListInv, Joins
<1>12. RefCountExact'
  <2> SUFFICES ASSUME NEW v \in WP
               PROVE  wp'[v].m_RefCount = References(v)'
    BY DEF RefCountExact
  <2>1. Sum(v) /\ Sum(v)' /\ wp[v].m_RefCount = References(v)
    BY <1>0, <1>11, ReferencesSum, ReferencesSumNext DEF RefCountExact
  <2>2. /\ Handled(v)' = Handled(v)
        /\ wp'[v].m_RefCount = wp[v].m_RefCount + (Listed(v)' - Listed(v))
             + (Cardinality(Replacements(v)') - Cardinality(Replacements(v)))
    BY <1>2 DEF Joins
  <2>3. Held(v) = 0 /\ Held(v)' = 0
    <3>1. Held(v) = 0
      BY <1>0, CountSmall DEF Held
    <3>2. Held(v)' = 0
      BY <1>3, <1>4, CountNone DEF Held
    <3> QED
      BY <3>1, <3>2
  <2>4. Queued(v)' = Queued(v)
    <3>1. Head(queue) \in WorkItems
      BY <1>0 DEF TypeOK
    <3>2. Head(queue) \notin Own(v)
      BY <1>0, <3>1, OwnItems
    <3> QED
      BY <1>0, <3>2, QueueTaken
  <2>5. wp[v].m_RefCount \in Int /\ wp'[v].m_RefCount \in Int
    BY <1>0 DEF TypeOK, WorkerProcesses
  <2>6. Listed(v) \in Int /\ Handled(v) \in Int /\ Queued(v) \in Int
        /\ Cardinality(Replacements(v)) \in Int
    BY <2>1 DEF Sum
  <2>7. Listed(v)' \in Int /\ Cardinality(Replacements(v)') \in Int
    BY <2>1 DEF Sum
  <2>8. PICK r, s, l, h, q, c, l1, c1 \in Int :
          /\ r = wp'[v].m_RefCount /\ s = wp[v].m_RefCount /\ l = Listed(v) /\ h = Handled(v)
          /\ q = Queued(v) /\ c = Cardinality(Replacements(v))
          /\ l1 = Listed(v)' /\ c1 = Cardinality(Replacements(v)')
    BY <2>5, <2>6, <2>7, Zenon
  <2>9. s = l + h + q + c + 0
    BY <2>1, <2>3, <2>8 DEF Sum
  <2>10. r = s + (l1 - l) + (c1 - c)
    BY <2>2, <2>8, Zenon
  <2>11. r = l1 + h + q + c1 + 0
    BY <2>9, <2>10, JoinedSum
  <2>12. References(v)' = Listed(v)' + Handled(v)' + Queued(v)'
                            + Cardinality(Replacements(v)') + Held(v)'
    BY <2>1 DEF Sum
  <2> QED
    BY <2>2, <2>3, <2>4, <2>8, <2>11, <2>12, Zenon
<1> QED
  BY <1>0, <1>6, <1>11, <1>12 DEF ObjectInv

LEMMA DemandStartObject ==
  ASSUME ObjectInv, DemandStart
  PROVE  ObjectInv'
<1>0. /\ Next /\ TypeOK /\ stack = <<>> /\ queue # <<>> /\ queue' = Tail(queue)
      /\ Head(queue).op = "DemandStart"
  BY DEF ObjectInv, QuietInvariant, Next, ExecuteWorkItem, DemandStart, Take, Idle
<1>1. CASE UNCHANGED <<wp, list, stack>>
  <2>1. CoreKept /\ stack' = <<>> /\ list' = list
    BY <1>0, <1>1 DEF CoreKept, SameCore
  <2> QED
    BY <1>0, <2>1, NothingBegun, MessageWork
<1>2. CASE \E new \in FreeMemory :
             /\ wp' = Constructed(new, "DemandStart", NoWP)
             /\ list' = <<new>> \o list
             /\ stack' = <<Call("Initialize", new)>>
  BY <1>2, DemandStartCreates
<1> QED
  BY <1>1, <1>2 DEF DemandStart

-----------------------------------------------------------------------------
\* The inductive invariant holds initially...
LEMMA InitObject == Init => ObjectInv
<1> SUFFICES ASSUME Init
             PROVE  ObjectInv
  OBVIOUS
<1>1. QuietInvariant /\ TypeOK
  BY InitQuiet, InitType
<1>2. /\ stack = <<>> /\ list = <<>> /\ queue = <<>>
      /\ \A w \in WP : wp[w] = NoObject
  BY DEF Init
<1>3. FramesInv
  BY <1>2 DEF FramesInv
<1>4. \A w \in WP : ~InList(w)
  BY <1>2 DEF InList, ToSet
<1>5. /\ \A w \in WP : Dead(w) /\ Old(w) = NoWP /\ ~Sick(w) /\ wp[w].m_State = "Free"
      /\ \A w \in WP : wp[w].m_RefCount = 0 /\ wp[w].m_pMessagingHandler = "NULL"
  BY <1>2 DEF NoObject, Dead, Old, Sick
<1>6. Empties
  BY <1>5 DEF Empties
<1>7. ListInv
  <2>1. Distinct /\ Successors /\ Starting
    BY <1>2, <1>5 DEF Distinct, Successors, Starting
  <2>2. Membership
    BY <1>2, <1>4, <1>5 DEF Membership, Terminating
  <2>3. WalkListed /\ WalkCovered
    BY <1>2 DEF WalkListed, WalkCovered, Replacing
  <2> QED
    BY <2>1, <2>2, <2>3 DEF ListInv
<1>8. RefCountExact
  <2> SUFFICES ASSUME NEW w \in WP
               PROVE  wp[w].m_RefCount = References(w)
    BY DEF RefCountExact
  <2>1. Sum(w)
    BY <1>1, <1>7, ReferencesSum
  <2>2. Listed(w) = 0 /\ Handled(w) = 0
    BY <1>4, <1>5 DEF Listed, Handled
  <2>3. Queued(w) = 0 /\ Held(w) = 0
    BY <1>2, CountSmall DEF Queued, Held
  <2>4. Cardinality(Replacements(w)) = 0
    <3>1. Replacements(w) = {}
      BY <1>5, PointerAssumption DEF Replacements
    <3> QED
      BY <3>1, FS_EmptySet
  <2>5. References(w) = 0 + 0 + 0 + 0 + 0
    BY <2>1, <2>2, <2>3, <2>4 DEF Sum
  <2> QED
    BY <1>5, <2>5
<1> QED
  BY <1>1, <1>3, <1>6, <1>7, <1>8 DEF ObjectInv

\* ... and every step preserves it.
LEMMA NextObject == ObjectInv /\ [Next]_vars => ObjectInv'
<1> SUFFICES ASSUME ObjectInv, [Next]_vars
             PROVE  ObjectInv'
  OBVIOUS
<1>1. CASE MakeCall
  BY <1>1, CallsObject
<1>2. CASE ExecuteWorkItem
  BY <1>2, WorkItemObject, MessageObject, HresultOkObject, DemandStartObject DEF ExecuteWorkItem
<1>3. CASE AppPoolEvent
  BY <1>3, AppPoolEventObject
<1>4. CASE \E w \in WP : ProcessStep(w) \/ \E h \in Handles : Callback(w, h)
  BY <1>4, ProcessStepObject, CallbackObject
<1>5. CASE UNCHANGED vars
  <2>1. QuietInvariant'
    BY NextQuiet DEF ObjectInv
  <2>2. UNCHANGED <<wp, pool, list, queue, stack>>
    BY <1>5 DEF vars
  <2>3. FramesInv'
    BY <2>2 DEF ObjectInv, FramesInv, FrameInv, Placed, Founded, Ordered, Sick, Dead, KeptBelow,
         At, Old, Replacing, Spares, Bottom, Covered
  <2>4. ListInv' /\ Empties'
    BY <2>2 DEF ObjectInv, ListInv, Empties, Distinct, Membership, Successors, WalkListed,
         WalkCovered, Starting, Terminating, InList, Sick, Dead, At, Old, Replacing, Bottom, Covered
  <2>5. RefCountExact'
    BY <2>2 DEF ObjectInv, RefCountExact, References, InList
  <2> QED
    BY <2>1, <2>3, <2>4, <2>5 DEF ObjectInv
<1> QED
  BY <1>1, <1>2, <1>3, <1>4, <1>5 DEF Next

\* At every step of every call, and whatever fails, m_RefCount is the number of references
\* to the worker process: it is never deleted while the list, a replacement, its messaging
\* handler, a queued work item or a call refers to it, and never leaked
\* (WORKER_PROCESS::Reference, Dereference).
THEOREM ObjectSafety == Spec => []RefCountExact
<1>1. ObjectInv => RefCountExact
  BY DEF ObjectInv
<1> QED
  BY <1>1, InitObject, NextObject, PTL DEF Spec
=============================================================================
